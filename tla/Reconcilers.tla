------------------------------ MODULE Reconcilers ------------------------------
(***************************************************************************)
(* The controllers of pkg/reconciler: the EventBus controller with its     *)
(* native JetStream, native NATS and exotic installers, and the controller *)
(* of one object that uses the bus (an EventSource; a Sensor is the same   *)
(* without the Service).                                                   *)
(*                                                                         *)
(* A reconcile is a sequence of API calls, each a step of its own that may *)
(* fail, may be applied although its answer is lost, and may be the last   *)
(* one of a controller that crashes.  Everything but the Secrets is read   *)
(* from a cache that lags behind the API server; writes carry the version  *)
(* that was read, and the server refuses them when it is no longer the     *)
(* current one.  A request that failed is queued again; otherwise only a   *)
(* watch event queues one, and neither Secrets nor, for the EventSource,   *)
(* the EventBus are watched.                                               *)
(*                                                                         *)
(* The content of an object is the number of the specification it was      *)
(* built from, 0 when there is none: the annotation with the hash.         *)
(***************************************************************************)
EXTENDS Naturals, Sequences

CONSTANTS
    Kinds,      \* the installers to consider: "jetstream", "nats", "exotic"
    MaxSpec,    \* specifications are numbered 1 .. MaxSpec, edits go upwards
    Invalid,    \* the specifications that ValidateEventBus refuses
    MaxEdits,   \* how often the bus and the EventSource are edited
    MaxFaults   \* how many calls fail, crashes happen, objects are deleted

ASSUME ConstantsAssumption ==
    /\ Kinds \subseteq {"jetstream", "nats", "exotic"}
    /\ MaxSpec \in Nat \ {0}
    /\ Invalid \subseteq 2 .. MaxSpec
    /\ MaxEdits \in Nat /\ MaxFaults \in Nat

VARIABLES
    kind,       \* the implementation of the bus; the webhook keeps it fixed
    bus,        \* the EventBus object of the API server
    seen,       \* the EventBus object of the controllers' cache
    secrets,    \* the credentials in the server's and the clients' Secret
    objects,    \* the ConfigMap, the Service and the StatefulSet
    cached,     \* the same in the cache
    volumes,    \* the claims that the StatefulSet made
    work,       \* the reconcile of the bus under way
    queued,     \* a request for the bus is in the work queue
    user,       \* the EventSource: the object ("failed" until its status says
                \* "deployed"), its Deployment and its Service
    task,       \* the reconcile of the EventSource under way
    requested,  \* a request for the EventSource is in the work queue
    listed,     \* the EventSource is in the controllers' cache
    raced,      \* history: when the bus looked for users, the EventSource was
                \* there and not in the cache, or it came afterwards
    overlooked, \* history: the claims were there and not in the cache
    tampered,   \* history: somebody deleted a Secret
    edits,      \* history: how many edits there were
    faults      \* history: how many faults there were

busVars  == <<bus, seen, secrets, objects, cached, volumes, work, queued>>
userVars == <<user, task, requested, listed>>
history  == <<raced, overlooked, tampered, edits>>
vars     == <<kind, busVars, userVars, faults, history>>

Specs     == 1 .. MaxSpec
Tokens    == 1 .. 3
Resources == {"configmap", "service", "statefulset"}
Gone      == [exists |-> FALSE, deleting |-> FALSE, finalizer |-> FALSE,
              spec |-> 1, status |-> "new", config |-> 0]
Idle      == [pc |-> "idle", todo |-> <<>>, base |-> Gone, copy |-> Gone,
              old |-> [server |-> 0, client |-> 0], token |-> 1, err |-> FALSE]
NoUser    == [exists |-> FALSE, spec |-> 1, status |-> "failed",
              deployment |-> <<0, 0>>, service |-> 0]
NoTask    == [pc |-> "idle", spec |-> 1, config |-> 0]

Init ==
    /\ kind \in Kinds
    /\ bus = [Gone EXCEPT !.exists = TRUE]
    /\ seen = bus
    /\ secrets = Idle.old
    /\ objects = [r \in Resources |-> 0]
    /\ cached = objects
    /\ volumes = FALSE
    /\ work = Idle
    /\ queued = TRUE
    /\ user = NoUser
    /\ task = NoTask
    /\ requested = FALSE
    /\ listed = FALSE
    /\ raced = FALSE
    /\ overlooked = FALSE
    /\ tampered = FALSE
    /\ edits = 0
    /\ faults = 0

---------------------------------------------------------------------------
(* What the installers ask for.                                            *)

\* The Service is the same for every specification of the bus.
hash(r, spec) == IF r = "service" THEN 1 ELSE spec

\* The order of the calls of Install.
calls ==
    CASE kind = "jetstream" -> <<"secrets", "configmap", "service", "statefulset">>
      [] kind = "nats"      -> <<"service", "configmap", "secrets", "statefulset">>
      [] kind = "exotic"    -> <<>>

\* The configuration for the users of a native bus only has names that do
\* not change (and a stream configuration that may not); an exotic one is
\* what its specification says.
busConfig(spec) == IF kind = "exotic" THEN spec ELSE 1

\* Mutant: only the Secret that is missing is made.
secretsMissing(old) ==
    CASE old.server # 0 /\ old.client # 0 -> <<>>
      [] old.server # 0 /\ old.client = 0 -> <<"createClient">>
      [] old.server = 0 /\ old.client # 0 -> <<"createServer">>
      [] old.server = 0 /\ old.client = 0 -> <<"createServer", "createClient">>

\* The calls of createSecrets (JetStream): both are kept, or both are made.
jetStreamSecrets(old) ==
    CASE old.server # 0 /\ old.client # 0 -> <<>>
      [] old.server # 0 /\ old.client = 0 -> <<"deleteServer", "createServer", "createClient">>
      [] old.server = 0 /\ old.client # 0 -> <<"deleteClient", "createServer", "createClient">>
      [] old.server = 0 /\ old.client = 0 -> <<"createServer", "createClient">>

\* The calls of createAuthSecrets with a token (NATS): it updates in place.
natsSecrets(old) ==
    IF old.server # 0 /\ old.client # 0 THEN <<>>
    ELSE << IF old.server = 0 THEN "createServer" ELSE "updateServer",
            IF old.client = 0 THEN "createClient" ELSE "updateClient" >>

createSecrets(old) ==
    IF kind = "jetstream" THEN jetStreamSecrets(old) ELSE natsSecrets(old)

---------------------------------------------------------------------------
(* The reconcile of the EventBus.                                          *)

\* Install is done, or one of its calls failed: what reconcile makes of its
\* copy of the object.
Installed(copy) ==
    [copy EXCEPT !.status = "deployed", !.config = busConfig(copy.spec)]
Failed(copy) == [copy EXCEPT !.status = "failed"]

\* The request is taken from the queue and the object read from the cache.
\* One being deleted is uninstalled, an invalid one marked, and any other
\* gets the finalizer and is installed.
Reconcile ==
    /\ queued /\ work.pc = "idle"
    /\ queued' = FALSE
    /\ IF ~seen.exists THEN work' = Idle
       ELSE LET copy == [seen EXCEPT !.finalizer = TRUE, !.status = "unknown"]
                w    == [Idle EXCEPT !.base = seen]
            IN  work' =
                CASE seen.deleting ->
                       [w EXCEPT !.pc = "uninstall", !.copy = seen,
                                 !.todo = <<"linked", "volumes">>]
                  [] ~seen.deleting /\ seen.spec \in Invalid ->
                       [w EXCEPT !.pc = "save", !.copy = Failed(copy), !.err = TRUE]
                  [] ~seen.deleting /\ seen.spec \notin Invalid ->
                       [w EXCEPT !.pc = "install", !.copy = copy, !.todo = calls]
    /\ UNCHANGED <<kind, bus, seen, secrets, objects, cached, volumes,
                   userVars, faults, history>>

\* A call that makes progress, one that does not: the rest of the calls is
\* skipped and the object saved with what happened.
Continue(rest) == work' = [work EXCEPT !.todo = rest]
Abandon ==
    work' = [work EXCEPT !.old = Idle.old, !.token = Idle.token, !.todo = <<>>,
                         !.err = TRUE, !.pc = "save",
                         !.copy = IF work.pc = "install" THEN Failed(@) ELSE @]

\* Secrets are read from the API server, not from the cache.
GetSecrets ==
    /\ work' = [work EXCEPT
                  !.old = secrets,
                  !.token = CHOOSE t \in Tokens :
                                t \notin {secrets.server, secrets.client},
                  !.todo = createSecrets(secrets) \o Tail(work.todo)]
    /\ UNCHANGED <<secrets, objects, volumes>>

\* Create, Update and Delete of a Secret.
SecretOf ==
    [createServer |-> "server", updateServer |-> "server", deleteServer |-> "server",
     createClient |-> "client", updateClient |-> "client", deleteClient |-> "client"]

WriteSecret(call) ==
    /\ secrets' = [secrets EXCEPT ![SecretOf[call]] =
                      IF call \in {"deleteServer", "deleteClient"} THEN 0 ELSE work.token]
    /\ UNCHANGED <<objects, volumes>>

\* Create what is not in the cache, update what has another hash there.
WriteObject(r) ==
    /\ objects' = IF cached[r] = hash(r, work.copy.spec) THEN objects
                  ELSE [objects EXCEPT ![r] = hash(r, work.copy.spec)]
    /\ UNCHANGED secrets

createConfigMap == WriteObject("configmap") /\ UNCHANGED volumes
createService == WriteObject("service") /\ UNCHANGED volumes

\* The StatefulSet makes its claims.
createStatefulSet ==
    /\ WriteObject("statefulset")
    /\ volumes' = (volumes \/ objects'["statefulset"] # 0)

\* Mutant: nobody is taken for a user of the bus.
linkedByOtherName == FALSE

\* Uninstall: the object stays while somebody in the cache uses the bus.
linkedEventSources == listed

\* The claims that the cache lists are deleted, and those that it does not yet
\* have stay.  (One that it still has and that is gone is a call that fails.)
uninstallPVCs(list) ==
    /\ volumes' = (volumes /\ ~list)
    /\ UNCHANGED <<secrets, objects>>

\* Mutant: objects are created without looking for them.
acceptedNew(call) ==
    /\ call = "linked" => ~linkedEventSources
    /\ call \in DOMAIN SecretOf =>
           secrets[SecretOf[call]] = IF call \in {"createServer", "createClient"}
                                     THEN 0 ELSE work.old[SecretOf[call]]
    /\ call \in Resources => objects[call] = 0

\* The server refuses what is based on an object that has changed since it
\* was read, and Uninstall stops at the first user.
accepted(call) ==
    /\ call = "linked" => ~linkedEventSources
    /\ call \in DOMAIN SecretOf =>
           secrets[SecretOf[call]] = IF call \in {"createServer", "createClient"}
                                     THEN 0 ELSE work.old[SecretOf[call]]
    /\ call \in Resources /\ cached[call] # hash(call, work.copy.spec) =>
           objects[call] = cached[call]

\* list: whether the cache has the claims.
Effect(call, list) ==
    \/ call \in DOMAIN SecretOf /\ WriteSecret(call)
    \/ call = "configmap" /\ createConfigMap
    \/ call = "service" /\ createService
    \/ call = "statefulset" /\ createStatefulSet
    \/ call = "linked" /\ UNCHANGED <<secrets, objects, volumes>>
    \/ call = "volumes" /\ uninstallPVCs(list)

\* History: what the lists of Uninstall do not show.
Looks(call, list) ==
    /\ raced' = IF call = "linked" /\ accepted(call)
                THEN user.exists /\ ~listed ELSE raced
    /\ overlooked' = IF call = "volumes" /\ accepted(call)
                     THEN volumes /\ ~list ELSE overlooked

OneCall ==
    /\ work.todo # <<>>
    /\ \E list \in BOOLEAN :
          LET call == Head(work.todo)
          IN  /\ IF call = "secrets" THEN GetSecrets
                 ELSE IF accepted(call) THEN Effect(call, list) /\ Continue(Tail(work.todo))
                 ELSE Abandon /\ UNCHANGED <<secrets, objects, volumes>>
              /\ Looks(call, list)
    /\ UNCHANGED <<kind, bus, seen, cached, queued, userVars, faults, tampered, edits>>

\* The call fails, or its answer is lost.
OneCallFails ==
    /\ work.todo # <<>>
    /\ faults < MaxFaults
    /\ faults' = faults + 1
    /\ Abandon
    /\ \/ UNCHANGED <<secrets, objects, volumes>>
       \/ /\ Head(work.todo) # "secrets" /\ accepted(Head(work.todo))
          /\ \E list \in BOOLEAN : Effect(Head(work.todo), list)
    /\ UNCHANGED <<kind, bus, seen, cached, queued, userVars,
                   history>>

\* Install returns the configuration, Uninstall lets the finalizer go.
InstallReturns ==
    /\ work.pc \in {"install", "uninstall"}
    /\ work.todo = <<>>
    /\ work' = [work EXCEPT
                  !.old = Idle.old, !.token = Idle.token, !.pc = "save",
                  !.copy = IF work.pc = "install" THEN Installed(@)
                           ELSE [@ EXCEPT !.finalizer = FALSE]]
    /\ UNCHANGED <<kind, bus, seen, secrets, objects, cached, volumes, queued,
                   userVars, faults, history>>

\* The finalizers are saved first, from a second copy: the version of the
\* first one is then the old one, and its status is refused.  The object
\* goes with its last finalizer, and everything it owns with it.
Update ==
    /\ work.pc = "save"
    /\ work.copy.finalizer # work.base.finalizer
    /\ bus = work.base
    /\ IF work.copy.finalizer
       THEN /\ bus' = [bus EXCEPT !.finalizer = TRUE]
            /\ UNCHANGED <<secrets, objects>>
       ELSE /\ bus' = Gone
            /\ secrets' = Idle.old
            /\ objects' = [r \in Resources |-> 0]
    /\ work' = Idle
    /\ queued' = TRUE
    /\ UNCHANGED <<kind, seen, cached, volumes, userVars, faults, history>>

\* The status is saved; a request whose reconcile failed is queued again.
StatusUpdate ==
    /\ work.pc = "save"
    /\ work.copy.finalizer = work.base.finalizer
    /\ bus = work.base
    /\ bus' = work.copy
    /\ work' = Idle
    /\ queued' = (queued \/ work.err)
    /\ UNCHANGED <<kind, seen, secrets, objects, cached, volumes,
                   userVars, faults, history>>

\* Mutant: the conflict is ignored.
conflictIgnored ==
    /\ work.pc = "save"
    /\ bus # work.base
    /\ work' = Idle
    /\ UNCHANGED <<kind, bus, seen, secrets, objects, cached, volumes, queued,
                   userVars, faults, history>>

\* Either of them is refused: the object has changed since it was cached.
SaveRefused ==
    /\ work.pc = "save"
    /\ bus # work.base
    /\ work' = Idle
    /\ queued' = TRUE
    /\ UNCHANGED <<kind, bus, seen, secrets, objects, cached, volumes,
                   userVars, faults, history>>

SaveFails ==
    /\ work.pc = "save"
    /\ faults < MaxFaults
    /\ faults' = faults + 1
    /\ work' = Idle
    /\ queued' = TRUE
    /\ UNCHANGED <<kind, bus, seen, secrets, objects, cached, volumes,
                   userVars, history>>

---------------------------------------------------------------------------
(* The cache and the watches.                                              *)

\* A new generation of the EventBus, a deletion included, queues a request;
\* a new status does not.
WatchBus ==
    /\ seen # bus
    /\ seen' = bus
    /\ queued' = (\/ queued
                  \/ <<seen.spec, seen.deleting, seen.exists>> #
                     <<bus.spec, bus.deleting, bus.exists>>)
    /\ UNCHANGED <<kind, bus, secrets, objects, cached, volumes, work,
                   userVars, faults, history>>

\* An owned object that appears or goes queues a request, and so does one
\* that is updated, unless it is a ConfigMap, which has no generation.
WatchObject(r) ==
    /\ cached[r] # objects[r]
    /\ cached' = [cached EXCEPT ![r] = objects[r]]
    /\ queued' = (queued \/ r # "configmap" \/ 0 \in {cached[r], objects[r]})
    /\ UNCHANGED <<kind, bus, seen, secrets, objects, volumes, work,
                   userVars, faults, history>>

\* The EventSource comes into the cache, which queues a request for it, or goes.
WatchUser ==
    /\ listed # user.exists
    /\ listed' = user.exists
    /\ requested' = user.exists
    /\ UNCHANGED <<kind, busVars, user, task, faults, history>>

\* The controllers come back with a fresh cache and a request for all.
Crash ==
    /\ faults < MaxFaults
    /\ faults' = faults + 1
    /\ work' = Idle
    /\ task' = NoTask
    /\ seen' = bus
    /\ cached' = objects
    /\ queued' = bus.exists
    /\ requested' = user.exists
    /\ listed' = user.exists
    /\ UNCHANGED <<kind, bus, secrets, objects, volumes, user,
                   history>>

---------------------------------------------------------------------------
(* The reconcile of the EventSource.                                       *)

\* Mutant: a bus that is not ready is reported without an error.
notReadyNoError ==
    /\ requested /\ task.pc = "idle" /\ user.exists /\ listed
    /\ requested' = FALSE
    /\ IF seen.exists /\ seen.status = "deployed"
       THEN /\ task' = [pc |-> "write", spec |-> user.spec, config |-> seen.config]
            /\ UNCHANGED user
       ELSE /\ user' = [user EXCEPT !.status = "failed"]
            /\ UNCHANGED task
    /\ UNCHANGED <<kind, busVars, listed, faults, history>>

\* The bus has to be there and to be ready (IsReady); otherwise the status
\* says so and the request is queued again.
ReconcileUser ==
    /\ requested /\ task.pc = "idle" /\ user.exists /\ listed
    /\ IF seen.exists /\ seen.status = "deployed"
       THEN /\ task' = [pc |-> "write", spec |-> user.spec, config |-> seen.config]
            /\ requested' = FALSE
            /\ UNCHANGED user
       ELSE /\ user' = [user EXCEPT !.status = "failed"]
            /\ UNCHANGED <<task, requested>>
    /\ UNCHANGED <<kind, busVars, listed, faults, history>>

\* The object after the first n calls of the rest of Reconcile: the
\* Deployment is created or, when its hash differs, updated (1), a Service
\* with another hash is deleted (2) and one is made when there is none (3).
After(n) ==
    [user EXCEPT
        !.deployment = IF n >= 1 THEN <<task.spec, task.config>> ELSE @,
        !.service = CASE n <= 1 \/ @ = task.spec -> @
                      [] n = 2 /\ @ # task.spec  -> 0
                      [] n = 3 /\ @ # task.spec  -> task.spec]

\* These calls are one step: only this reconcile, a crash and an edit, which
\* makes the last one be refused, touch what they write.  Then the status is
\* saved, unless the object was edited since it was read.  (Its finalizer,
\* which like that of the bus takes a second try, is left out.)
WriteUser ==
    /\ task.pc = "write"
    /\ \/ /\ user.spec = task.spec
          /\ user' = [After(3) EXCEPT !.status = "deployed"]
          /\ UNCHANGED requested
       \/ /\ user.spec # task.spec
          /\ user' = After(3)
          /\ requested' = TRUE
    /\ task' = NoTask
    /\ UNCHANGED <<kind, busVars, listed, faults, history>>

\* One of the calls fails, the last one being that which saves the status.
WriteUserFails ==
    /\ task.pc = "write"
    /\ faults < MaxFaults
    /\ faults' = faults + 1
    /\ \E n \in 0 .. 3 :
           user' = [After(n) EXCEPT !.status = IF n < 3 /\ user.spec = task.spec
                                               THEN "failed" ELSE @]
    /\ requested' = TRUE
    /\ task' = NoTask
    /\ UNCHANGED <<kind, busVars, listed, history>>

---------------------------------------------------------------------------
(* Everybody else.                                                         *)

EditBus ==
    /\ bus.exists /\ ~bus.deleting
    /\ edits < MaxEdits
    /\ edits' = edits + 1
    /\ \E s \in Specs : s > bus.spec /\ bus' = [bus EXCEPT !.spec = s]
    /\ UNCHANGED <<kind, seen, secrets, objects, cached, volumes, work, queued,
                   userVars, faults, raced, overlooked, tampered>>

\* Without a finalizer the object goes at once.
DeleteBus ==
    /\ bus.exists /\ ~bus.deleting /\ bus.finalizer
    /\ bus' = [bus EXCEPT !.deleting = TRUE]
    /\ UNCHANGED <<kind, seen, secrets, objects, cached, volumes, work, queued,
                   userVars, faults, history>>

CreateUser ==
    /\ user = NoUser
    /\ user' = [NoUser EXCEPT !.exists = TRUE]
    /\ raced' = (\/ ~bus.exists
                 \/ work.pc = "uninstall" /\ Head(work.todo \o <<"return">>) # "linked"
                 \/ work.pc = "save" /\ work.base.deleting)
    /\ UNCHANGED <<kind, busVars, task, requested, listed, faults, overlooked, tampered,
                   edits>>

EditUser ==
    /\ user.exists
    /\ user.spec = 1
    /\ edits < MaxEdits
    /\ edits' = edits + 1
    /\ user' = [user EXCEPT !.spec = 2]
    /\ requested' = TRUE
    /\ UNCHANGED <<kind, busVars, task, listed, faults, raced, overlooked, tampered>>

\* Its finalizer has nothing to do; what it owns goes with it.  It does not
\* come back, and it goes to let the bus go: a bound.
DeleteUser ==
    /\ user.exists /\ bus.deleting
    /\ user' = [NoUser EXCEPT !.status = "deleted"]
    /\ requested' = FALSE
    /\ task' = NoTask
    /\ UNCHANGED <<kind, busVars, listed, faults, history>>

\* Somebody deletes an object of the bus that the cache has seen (it would
\* see both changes of another one), or a Secret.
Tamper ==
    /\ faults < MaxFaults
    /\ faults' = faults + 1
    /\ \/ /\ \E r \in Resources : /\ cached[r] = objects[r] /\ objects[r] # 0
                                  /\ objects' = [objects EXCEPT ![r] = 0]
          /\ UNCHANGED <<secrets, tampered>>
       \/ /\ \E s \in DOMAIN secrets :
                 secrets[s] # 0 /\ secrets' = [secrets EXCEPT ![s] = 0]
          /\ tampered' = TRUE
          /\ UNCHANGED objects
    /\ UNCHANGED <<kind, bus, seen, cached, volumes, work, queued, userVars,
                   raced, overlooked, edits>>

---------------------------------------------------------------------------
BusStep  == Reconcile \/ OneCall \/ InstallReturns \/ Update \/ StatusUpdate \/ SaveRefused
Watch    == \/ WatchBus \/ WatchUser
            \/ \E r \in Resources : WatchObject(r)
UserStep == ReconcileUser \/ WriteUser

Next ==
    \/ BusStep \/ OneCallFails \/ SaveFails
    \/ Watch \/ Crash
    \/ UserStep \/ WriteUserFails
    \/ EditBus \/ DeleteBus \/ CreateUser \/ EditUser \/ DeleteUser \/ Tamper

Spec == Init /\ [][Next]_vars

\* The workers of the controllers run, the watches deliver, and a request
\* that failed is tried again after its delay.
FairSpec == /\ Spec
            /\ WF_vars(BusStep)
            /\ WF_vars(WatchBus) /\ WF_vars(WatchUser)
            /\ \A r \in Resources : WF_vars(WatchObject(r))
            /\ WF_vars(UserStep)

---------------------------------------------------------------------------
Buses == [exists : BOOLEAN, deleting : BOOLEAN, finalizer : BOOLEAN, spec : Specs,
          status : {"new", "unknown", "failed", "deployed"}, config : 0 .. MaxSpec]
Credentials == [server : 0 .. 3, client : 0 .. 3]
Calls == {"secrets", "linked", "volumes"} \cup Resources \cup DOMAIN SecretOf
Works == [pc : {"idle", "install", "uninstall", "save"}, todo : Seq(Calls), base : Buses,
          copy : Buses, old : Credentials, token : Tokens, err : BOOLEAN]
Users == [exists : BOOLEAN, spec : 1 .. 2, status : {"failed", "deployed", "deleted"},
          deployment : (0 .. 2) \X (0 .. MaxSpec), service : 0 .. 2]
Tasks == [pc : {"idle", "write"}, spec : 1 .. 2, config : 0 .. MaxSpec]

\* Types; calls are left only of an Install or Uninstall that has not failed.
TypeOK ==
    /\ kind \in Kinds
    /\ bus \in Buses /\ seen \in Buses
    /\ secrets \in Credentials
    /\ objects \in [Resources -> 0 .. MaxSpec] /\ cached \in [Resources -> 0 .. MaxSpec]
    /\ work \in Works
    /\ user \in Users /\ task \in Tasks
    /\ volumes \in BOOLEAN /\ queued \in BOOLEAN /\ requested \in BOOLEAN
    /\ listed \in BOOLEAN /\ raced \in BOOLEAN /\ overlooked \in BOOLEAN /\ tampered \in BOOLEAN
    /\ edits \in Nat /\ faults \in Nat
    /\ work.todo # <<>> => work.pc \in {"install", "uninstall"}
    /\ work.err => work.pc = "save"

Native == kind # "exotic"

\* The credentials of the server and those of the clients are the same
\* whenever both are there, wherever a reconcile failed or the controller
\* crashed: a pair that differs is never repaired, since both being there is
\* all that createSecrets looks for.  JetStream keeps this even if somebody
\* deletes one of the two, because it deletes the other before it makes new
\* ones; NATS, which updates in place, does not.
CredentialsMatch ==
    (kind = "jetstream" \/ ~tampered) /\ 0 \notin {secrets.server, secrets.client}
        => secrets.server = secrets.client

AsSpecified == \A r \in Resources : objects[r] = hash(r, bus.spec)

\* When nothing is queued, running or on its way, the bus is what its
\* specification says and its status says so: no edit, deleted object,
\* refused write or failed call is forgotten.
QuietMeansDone ==
    work.pc = "idle" /\ ~queued /\ seen = bus /\ cached = objects /\ bus.exists =>
        /\ ~bus.deleting
        /\ bus.spec \notin Invalid
        /\ bus.status = "deployed" /\ bus.config = busConfig(bus.spec)
        /\ Native => AsSpecified
        /\ Native /\ ~tampered => 0 \notin {secrets.server, secrets.client}

\* A bus goes only without its claims and its users, unless Uninstall could
\* not know: the claims, or the EventSource, were there and not yet in the cache
\* that it lists them from, or the EventSource was made after it had looked.  No
\* failed call, lost answer, crash or older Uninstall still under way lets one
\* go that a look has seen.
DeletedWhenUnused ==
    ~bus.exists => (volumes => overlooked) /\ (user.exists => raced)

\* Once people leave it alone, a valid bus is installed for good as its
\* specification says, and one being deleted without users goes, although
\* calls fail, writes are refused and the controller crashes.
Done ==
    CASE ~bus.exists   -> TRUE
      [] bus.exists /\ bus.deleting -> user.exists
      [] bus.exists /\ ~bus.deleting ->
            bus.spec \in Invalid \/ (bus.status = "deployed" /\ (Native => AsSpecified))
BusSettles == <>[]Done

\* An EventSource of a bus that is installed for good gets the Deployment
\* and the Service of its specification, although its controller does not
\* watch the bus it waits for.
UserServed ==
    user.exists /\ bus.exists /\ ~bus.deleting /\ bus.spec \notin Invalid =>
        /\ user.status = "deployed"
        /\ user.deployment[1] = user.spec
        /\ user.service = user.spec
UserSettles == <>[]UserServed

=============================================================================
