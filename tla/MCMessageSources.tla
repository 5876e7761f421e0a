------------------------- MODULE MCMessageSources -------------------------
(* Instances of MessageSources for TLC. *)
EXTENDS MessageSources

AllKinds ==
    {mqtt, nats, emitter, redis, generic, minio, file, hdfs, azureEventsHub, kafkaPartition,
     gcpPubSub, nsq, alibabaMns, pulsar, redisStream}
        \cup UNION {{awsSqs(b), azureQueueStorage(b), azureServiceBus(b), kafkaGroup(b),
                     amqp(b, TRUE), amqp(b, FALSE)} : b \in BOOLEAN}

NoneOrTwo == {{}, {2}}
NoneOrOne == {{}, {1}}
AllFaults == {"dispatch", "ack", "slow", "crash"}
OneEach == {[k \in AllFaults |-> 1]}
=============================================================================
