------------------------- MODULE ReconcilersProofs -------------------------
(***************************************************************************)
(* The EventBus controller: the credentials of the two Secrets match, a    *)
(* bus goes only when its cache shows no user, and a quiet controller has  *)
(* done its work, for any number of edits, failed calls and crashes.       *)
(***************************************************************************)
EXTENDS Reconcilers, TLAPS

Ahead(call) == \E i \in 1 .. Len(work.todo) : work.todo[i] = call
IsNext(call) == work.todo # <<>> /\ Head(work.todo) = call
Takes(call) == \E list \in BOOLEAN : Effect(call, list)

ToServer == {"createServer", "updateServer"}
ToClient == {"createClient", "updateClient"}
SecretCalls == ToServer \cup ToClient \cup {"deleteServer", "deleteClient"}

\* What comes right before a call that writes a Secret, unless it is the next.
Before(call) ==
    CASE call \in ToClient -> ToServer
      [] call = "createServer" -> {"deleteServer", "deleteClient"}
      [] call \notin ToClient \cup {"createServer"} -> {}

\* The calls of Install and Uninstall come in order.
TodoInv ==
    /\ \A i \in 2 .. Len(work.todo) :
          work.todo[i] \in SecretCalls => work.todo[i - 1] \in Before(work.todo[i])
    /\ \A i, j \in 1 .. Len(work.todo) :
          work.todo[i] = "secrets" /\ j # i => work.todo[j] \notin SecretCalls \cup {"secrets"}
    /\ work.pc = "install" => ~Ahead("linked") /\ ~Ahead("volumes")
    /\ work.pc = "uninstall" => work.todo \in {<<"linked", "volumes">>, <<"volumes">>, <<>>}

\* Clients get no credentials before the server has the same: while the server's are
\* about to be written there are no others, afterwards they are the new ones.
CredentialsInv ==
    /\ kind = "jetstream" \/ ~tampered =>
          /\ CredentialsMatch
          /\ \A c \in ToServer \cup {"deleteServer"} : IsNext(c) => secrets.client = 0
          /\ \A c \in ToClient : IsNext(c) => secrets.server \in {0, work.token}
    /\ ~tampered =>
          /\ secrets.client # 0 => secrets.server = secrets.client
          /\ \A c \in ToClient : IsNext(c) => secrets.server = work.token

\* The object read from the cache is at most older than that of the server, and the
\* reconcile's copy at most older than that.
AgeInv ==
    /\ \A b \in {bus, seen, work.base} : b.deleting => b.finalizer
    /\ seen.deleting => bus.deleting \/ ~bus.exists
    /\ ~bus.exists => seen.deleting \/ ~seen.exists
    /\ bus.exists => seen.exists
    /\ seen.exists /\ bus.exists => seen.spec <= bus.spec
    /\ work.pc # "idle" =>
          /\ work.base.exists
          /\ work.copy.spec = work.base.spec /\ work.copy.deleting = work.base.deleting
          /\ work.copy.exists
          /\ work.base.deleting => seen.deleting \/ ~seen.exists
          /\ seen.exists => work.base.spec <= seen.spec
    /\ work.pc = "install" => /\ bus.exists /\ ~work.base.deleting
                              /\ work.copy.finalizer /\ work.copy.spec \notin Invalid
    /\ work.pc = "uninstall" => work.base.deleting /\ work.copy = work.base
    /\ work.pc = "save" /\ work.copy.finalizer # work.base.finalizer =>
          work.copy.finalizer = ~work.base.deleting

\* Uninstall has looked for users, and then released the claims.
UninstallInv ==
    LET released == work.pc = "save" /\ ~work.copy.finalizer
    IN  /\ (work.pc = "uninstall" /\ ~Ahead("linked")) \/ (released /\ work.base.finalizer)
             => (user.exists => raced)
        /\ (work.pc = "uninstall" /\ work.todo = <<>>) \/ (released /\ work.base.finalizer)
             => (volumes => overlooked)

\* What is in the cache is as old as what is in the server or older, and nothing is newer
\* than the specification in the cache.
ObjectsInv ==
    \A r \in Resources :
        /\ objects[r] = 0 \/ cached[r] <= objects[r]
        /\ r = "service" => objects[r] \in {0, 1} /\ cached[r] \in {0, 1}
        /\ r # "service" /\ seen.exists => objects[r] <= seen.spec
        /\ r # "service" /\ work.pc = "install" => objects[r] <= work.copy.spec
        /\ ~bus.exists => objects[r] = 0

\* The object is as specified, or its watch will queue a request.
Written(r, spec) ==
    \/ objects[r] = hash(r, spec)
    \/ cached[r] # objects[r] /\ (r # "configmap" \/ 0 \in {cached[r], objects[r]})

\* Install has not failed.
Installing == work.pc \in {"install", "save"} /\ ~work.err /\ ~work.base.deleting

\* The objects that Install has behind it are as specified, and so are the Secrets: the call
\* that makes the last one is ahead, or both are there and stay.
ObjectsDone == \A r \in Resources : Ahead(r) \/ queued \/ Written(r, work.copy.spec)
SecretsDone ==
    \/ \E c \in ToClient \cup {"secrets"} : Ahead(c)
    \/ /\ 0 \notin {secrets.server, secrets.client}
       /\ ~IsNext("deleteServer") /\ ~IsNext("deleteClient")

\* What Install has behind it is done, and an Uninstall that succeeded lets the finalizer go.
InstallInv ==
    /\ work.pc = "save" /\ work.base.deleting /\ ~work.err => ~work.copy.finalizer
    /\ Installing =>
        /\ work.pc = "save" => /\ work.copy.status = "deployed"
                               /\ work.copy.config = busConfig(work.copy.spec)
                               /\ work.copy.spec \notin Invalid
        /\ Native => ObjectsDone
        /\ Native /\ ~tampered => SecretsDone

\* Nothing queued, and the cache has the specification.
Quiet == /\ work.pc = "idle" /\ ~queued /\ bus.exists
         /\ <<seen.spec, seen.deleting, seen.exists>> = <<bus.spec, bus.deleting, bus.exists>>

QuietInv ==
    Quiet => /\ ~bus.deleting
             /\ bus.spec \notin Invalid
             /\ bus.status = "deployed" /\ bus.config = busConfig(bus.spec)
             /\ Native => \A r \in Resources : Written(r, bus.spec)
             /\ Native /\ ~tampered => 0 \notin {secrets.server, secrets.client}
-----------------------------------------------------------------------------
(* Types                                                                   *)

\* What is assumed of the constants.
LEMMA ConstantsAreNat == MaxSpec \in Nat /\ MaxSpec >= 1 /\ 1 \in Specs /\ Invalid \subseteq Specs
  BY ConstantsAssumption DEF Specs

\* The calls that write or delete a Secret.
LEMMA SecretCallsDef == SecretCalls = DOMAIN SecretOf /\ SecretCalls \subseteq Calls
  BY DEF SecretCalls, ToServer, ToClient, SecretOf, Calls

\* The calls of Install and Uninstall, and those that write Secrets.
LEMMA Plans ==
    /\ <<"linked", "volumes">> \in Seq(Calls)
    /\ <<"secrets", "configmap", "service", "statefulset">> \in Seq(Calls)
    /\ <<"service", "configmap", "secrets", "statefulset">> \in Seq(Calls)
    /\ <<"deleteServer", "createServer", "createClient">> \in Seq(Calls)
    /\ <<"deleteClient", "createServer", "createClient">> \in Seq(Calls)
    /\ <<"createServer", "createClient">> \in Seq(Calls)
    /\ <<"createServer", "updateClient">> \in Seq(Calls)
    /\ <<"updateServer", "createClient">> \in Seq(Calls)
    /\ <<>> \in Seq(Calls)
  <1>1. {"linked", "volumes", "secrets", "configmap", "service", "statefulset", "deleteServer",
         "deleteClient", "createServer", "createClient", "updateServer", "updateClient"}
          \subseteq Calls
    BY DEF Calls, Resources, SecretOf
  <1> QED
    BY <1>1

\* The constants of the model are of their types.
LEMMA RestTypes ==
    /\ Gone \in Buses /\ Idle \in Works /\ NoUser \in Users /\ NoTask \in Tasks
    /\ Idle.old \in Credentials
    /\ Idle.pc = "idle" /\ Idle.todo = <<>> /\ Idle.err = FALSE
  <1> USE ConstantsAreNat
  <1>1. Gone \in Buses
    BY DEF Gone, Buses
  <1>2. Idle.old \in Credentials /\ Idle.pc = "idle" /\ Idle.todo = <<>> /\ Idle.err = FALSE
    BY DEF Idle, Credentials
  <1>3. <<>> \in Seq(Calls)
    OBVIOUS
  <1>4. Idle \in Works
    BY <1>1, <1>3 DEF Idle, Works, Credentials, Tokens
  <1>5. NoUser \in Users /\ NoTask \in Tasks
    BY DEF NoUser, Users, NoTask, Tasks
  <1> QED
    BY <1>1, <1>2, <1>4, <1>5

\* The initial state is well typed.
LEMMA TypeInit == Init => TypeOK
  <1> SUFFICES ASSUME Init PROVE TypeOK
    OBVIOUS
  <1> USE ConstantsAreNat, RestTypes
  <1>1. bus \in Buses /\ seen \in Buses
    BY DEF Init, Gone, Buses
  <1>2. objects \in [Resources -> 0 .. MaxSpec] /\ cached \in [Resources -> 0 .. MaxSpec]
    BY DEF Init
  <1>3. /\ volumes \in BOOLEAN /\ queued \in BOOLEAN /\ requested \in BOOLEAN
        /\ listed \in BOOLEAN /\ raced \in BOOLEAN /\ overlooked \in BOOLEAN /\ tampered \in BOOLEAN
    BY DEF Init
  <1>4. work = Idle /\ user = NoUser /\ task = NoTask /\ secrets = Idle.old /\ kind \in Kinds
        /\ edits \in Nat /\ faults \in Nat
    BY DEF Init
  <1> QED
    BY <1>1, <1>2, <1>3, <1>4 DEF TypeOK

\* Nothing but the next call is dropped from the list of calls.
LEMMA TailSteps ==
    ASSUME NEW s \in Seq(Calls), s # <<>>
    PROVE  /\ Head(s) \in Calls /\ Head(s) = s[1] /\ Tail(s) \in Seq(Calls)
           /\ Len(s) \in Nat /\ 1 <= Len(s) /\ Len(Tail(s)) = Len(s) - 1
           /\ \A i \in 1 .. Len(Tail(s)) : Tail(s)[i] = s[i + 1]
  OBVIOUS

\* The fields of what a call leaves.
LEMMA ContinueFields ==
    ASSUME TypeOK, NEW rest \in Seq(Calls), Continue(rest)
    PROVE  /\ work' \in Works /\ work'.todo = rest
           /\ work'.pc = work.pc /\ work'.base = work.base /\ work'.copy = work.copy
           /\ work'.old = work.old /\ work'.token = work.token /\ work'.err = work.err
  BY DEF TypeOK, Continue, Works

\* What MarkDeployFailed and the like change of the object.
LEMMA FailedFields ==
    ASSUME NEW copy \in Buses
    PROVE  /\ Failed(copy) \in Buses /\ Failed(copy).spec = copy.spec
           /\ Failed(copy).deleting = copy.deleting /\ Failed(copy).exists = copy.exists
           /\ Failed(copy).finalizer = copy.finalizer
  BY DEF Failed, Buses

\* What an Install that succeeded changes of the object.
LEMMA InstalledFields ==
    ASSUME NEW copy \in Buses
    PROVE  /\ Installed(copy) \in Buses /\ Installed(copy).spec = copy.spec
           /\ Installed(copy).deleting = copy.deleting /\ Installed(copy).exists = copy.exists
           /\ Installed(copy).finalizer = copy.finalizer
           /\ Installed(copy).status = "deployed"
           /\ Installed(copy).config = busConfig(copy.spec)
  <1>1. busConfig(copy.spec) \in 0 .. MaxSpec
    BY ConstantsAreNat DEF busConfig, Buses, Specs
  <1> QED
    BY <1>1 DEF Installed, Buses

\* A reconcile that met an error goes on to save the status.
LEMMA AbandonFields ==
    ASSUME TypeOK, Abandon
    PROVE  /\ work' \in Works /\ work'.todo = <<>> /\ work'.pc = "save" /\ work'.err = TRUE
           /\ work'.base = work.base
           /\ work'.copy.spec = work.copy.spec /\ work'.copy.deleting = work.copy.deleting
           /\ work'.copy.exists = work.copy.exists /\ work'.copy.finalizer = work.copy.finalizer
  <1> DEFINE copy == IF work.pc = "install" THEN Failed(work.copy) ELSE work.copy
  <1>1. work \in Works /\ work.copy \in Buses
    BY DEF TypeOK, Works
  <1>2. /\ copy \in Buses /\ copy.spec = work.copy.spec /\ copy.deleting = work.copy.deleting
        /\ copy.exists = work.copy.exists /\ copy.finalizer = work.copy.finalizer
    BY <1>1, FailedFields
  <1> HIDE DEF copy
  <1>3. work' = [work EXCEPT !.old = Idle.old, !.token = Idle.token, !.todo = <<>>,
                             !.err = TRUE, !.pc = "save", !.copy = copy]
    BY DEF Abandon, copy
  <1>4. Idle.old \in Credentials /\ Idle.token \in Tokens /\ <<>> \in Seq(Calls)
    BY DEF Idle, Credentials, Tokens
  <1> QED
    BY <1>1, <1>2, <1>3, <1>4 DEF Works

\* The calls that write Secrets: which they are, and in which order.
LEMMA SecretsPlan ==
    ASSUME NEW old \in Credentials
    PROVE  \/ createSecrets(old) = <<>> /\ old.server # 0 /\ old.client # 0
           \/ createSecrets(old) = <<"deleteServer", "createServer", "createClient">> /\ old.client = 0
           \/ createSecrets(old) = <<"deleteClient", "createServer", "createClient">>
              /\ kind = "jetstream"
           \/ createSecrets(old) = <<"createServer", "createClient">> /\ old.client = 0
           \/ createSecrets(old) = <<"createServer", "updateClient">> /\ kind # "jetstream"
              /\ old.server = 0 /\ old.client # 0
           \/ createSecrets(old) = <<"updateServer", "createClient">> /\ old.client = 0
  BY DEF createSecrets, jetStreamSecrets, natsSecrets, Credentials

\* After the Secrets were read: the calls that write them, if any, come next.
LEMMA GetSecretsFields ==
    ASSUME TypeOK, IsNext("secrets"), GetSecrets
    PROVE  /\ work' \in Works
           /\ work'.todo = createSecrets(secrets) \o Tail(work.todo)
           /\ work'.pc = work.pc /\ work'.base = work.base /\ work'.copy = work.copy
           /\ work'.err = work.err
           /\ UNCHANGED <<secrets, objects, volumes>>
  <1> DEFINE token == CHOOSE t \in Tokens : t \notin {secrets.server, secrets.client}
             todo == createSecrets(secrets) \o Tail(work.todo)
  <1>1. token \in Tokens
    <2>1. \E t \in Tokens : t \notin {secrets.server, secrets.client}
      <3>1. secrets.server \in 0 .. 3 /\ secrets.client \in 0 .. 3
        BY DEF TypeOK, Credentials
      <3> QED
        BY <3>1 DEF Tokens
    <2> QED
      BY <2>1
  <1>2. work \in Works /\ secrets \in Credentials /\ work.todo \in Seq(Calls)
    BY DEF TypeOK, Works
  <1>3. createSecrets(secrets) \in Seq(Calls)
    BY <1>2, Plans, SecretsPlan
  <1>4. todo \in Seq(Calls)
    BY <1>2, <1>3, TailSteps DEF IsNext
  <1> HIDE DEF token, todo
  <1>5. /\ work' = [work EXCEPT !.old = secrets, !.token = token, !.todo = todo]
        /\ UNCHANGED <<secrets, objects, volumes>>
    BY DEF GetSecrets, token, todo
  <1>6. /\ work' \in Works /\ work'.todo = todo
        /\ work'.pc = work.pc /\ work'.base = work.base /\ work'.copy = work.copy
        /\ work'.err = work.err
    BY <1>1, <1>2, <1>4, <1>5 DEF Works
  <1> QED
    BY <1>5, <1>6 DEF todo

\* One call: it reads the Secrets, takes effect, or is refused.
LEMMA CallSteps ==
    ASSUME TypeOK, OneCall
    PROVE  \/ IsNext("secrets") /\ GetSecrets
           \/ \E c \in Calls \ {"secrets"} :
                 IsNext(c) /\ accepted(c) /\ Takes(c) /\ Continue(Tail(work.todo))
           \/ work.todo # <<>> /\ Abandon /\ UNCHANGED <<secrets, objects, volumes>>
  <1>1. work.todo # <<>> /\ work.todo \in Seq(Calls)
    BY DEF OneCall, TypeOK, Works
  <1>2. Head(work.todo) \in Calls
    BY <1>1, TailSteps
  <1> QED
    BY <1>1, <1>2 DEF OneCall, IsNext, Takes

\* What a call does to the API server.
LEMMA EffectTypes ==
    ASSUME TypeOK, NEW c \in Calls \ {"secrets"}, Takes(c)
    PROVE  /\ secrets' \in Credentials
           /\ objects' \in [Resources -> 0 .. MaxSpec]
           /\ volumes' \in BOOLEAN
  <1> USE DEF TypeOK
  <1>1. CASE c \in DOMAIN SecretOf /\ WriteSecret(c)
    <2>1. work.token \in 0 .. 3
      BY DEF Works, Tokens
    <2>2. SecretOf[c] \in {"server", "client"}
      BY <1>1 DEF SecretOf
    <2>3. secrets' \in Credentials
      <3> DEFINE v == IF c \in {"deleteServer", "deleteClient"} THEN 0 ELSE work.token
      <3>1. v \in 0 .. 3
        BY <2>1
      <3> HIDE DEF v
      <3>2. secrets' = [secrets EXCEPT ![SecretOf[c]] = v]
        BY <1>1 DEF WriteSecret, v
      <3> QED
        BY <2>2, <3>1, <3>2 DEF Credentials
    <2> QED
      BY <1>1, <2>3 DEF WriteSecret
  <1>2. ASSUME NEW r \in Resources, WriteObject(r)
        PROVE  objects' \in [Resources -> 0 .. MaxSpec] /\ secrets' = secrets
    <2>1. hash(r, work.copy.spec) \in 0 .. MaxSpec
      BY ConstantsAreNat DEF hash, Works, Buses, Specs
    <2> QED
      BY <1>2, <2>1 DEF WriteObject
  <1>3. CASE c = "configmap" /\ createConfigMap
    BY <1>2, <1>3 DEF createConfigMap, Resources
  <1>4. CASE c = "service" /\ createService
    BY <1>2, <1>4 DEF createService, Resources
  <1>5. CASE c = "statefulset" /\ createStatefulSet
    <2>1. volumes' \in BOOLEAN
      BY <1>5 DEF createStatefulSet
    <2> QED
      BY <1>2, <1>5, <2>1 DEF createStatefulSet, Resources
  <1>6. CASE c = "linked" /\ UNCHANGED <<secrets, objects, volumes>>
    BY <1>6
  <1>7. ASSUME c = "volumes", NEW list \in BOOLEAN, uninstallPVCs(list)
        PROVE  /\ secrets' \in Credentials
               /\ objects' \in [Resources -> 0 .. MaxSpec]
               /\ volumes' \in BOOLEAN
    <2>1. volumes' \in BOOLEAN
      BY <1>7 DEF uninstallPVCs
    <2> QED
      BY <1>7, <2>1 DEF uninstallPVCs
  <1> QED
    BY <1>1, <1>3, <1>4, <1>5, <1>6, <1>7 DEF Effect, Takes

\* The beginning of a reconcile.
LEMMA ReconcileFields ==
    ASSUME TypeOK, Reconcile
    PROVE  /\ work' \in Works /\ work.pc = "idle" /\ queued' = FALSE
           /\ \/ ~seen.exists /\ work' = Idle
              \/ /\ seen.exists /\ seen.deleting
                 /\ work'.pc = "uninstall" /\ work'.todo = <<"linked", "volumes">>
                 /\ work'.base = seen /\ work'.copy = seen /\ work'.err = FALSE
              \/ /\ seen.exists /\ ~seen.deleting
                 /\ work'.base = seen
                 /\ work'.copy.spec = seen.spec /\ work'.copy.deleting = seen.deleting
                 /\ work'.copy.exists = seen.exists /\ work'.copy.finalizer = TRUE
                 /\ \/ /\ seen.spec \in Invalid
                       /\ work'.pc = "save" /\ work'.todo = <<>> /\ work'.err = TRUE
                    \/ /\ seen.spec \notin Invalid
                       /\ work'.pc = "install" /\ work'.todo = calls /\ work'.err = FALSE
  <1> DEFINE copy == [seen EXCEPT !.finalizer = TRUE, !.status = "unknown"]
             w == [Idle EXCEPT !.base = seen]
  <1>1. seen \in Buses
    BY DEF TypeOK
  <1>2. /\ copy \in Buses /\ copy.spec = seen.spec /\ copy.deleting = seen.deleting
        /\ copy.exists = seen.exists /\ copy.finalizer = TRUE
    BY <1>1 DEF Buses
  <1>3. w \in Works /\ w.base = seen /\ w.todo = <<>> /\ w.err = FALSE
    BY <1>1, RestTypes DEF Works
  <1>4. /\ <<"linked", "volumes">> \in Seq(Calls)
        /\ calls \in Seq(Calls)
    BY Plans, ConstantsAssumption DEF calls, TypeOK
  <1>5. Failed(copy) \in Buses /\ Failed(copy).spec = seen.spec
        /\ Failed(copy).deleting = seen.deleting /\ Failed(copy).exists = seen.exists
        /\ Failed(copy).finalizer = TRUE
    BY <1>2, FailedFields
  <1>6. /\ queued' = FALSE /\ work.pc = "idle"
        /\ ~seen.exists => work' = Idle
        /\ seen.exists /\ seen.deleting =>
              work' = [w EXCEPT !.pc = "uninstall", !.copy = seen, !.todo = <<"linked", "volumes">>]
        /\ seen.exists /\ ~seen.deleting /\ seen.spec \in Invalid =>
              work' = [w EXCEPT !.pc = "save", !.copy = Failed(copy), !.err = TRUE]
        /\ seen.exists /\ ~seen.deleting /\ seen.spec \notin Invalid =>
              work' = [w EXCEPT !.pc = "install", !.copy = copy, !.todo = calls]
    BY DEF Reconcile
  <1> HIDE DEF copy, w
  <1>7. CASE ~seen.exists
    BY <1>6, <1>7, RestTypes
  <1>8. CASE seen.exists /\ seen.deleting
    BY <1>1, <1>3, <1>4, <1>6, <1>8 DEF Works
  <1>9. CASE seen.exists /\ ~seen.deleting /\ seen.spec \in Invalid
    BY <1>1, <1>3, <1>5, <1>6, <1>9 DEF Works
  <1>10. CASE seen.exists /\ ~seen.deleting /\ seen.spec \notin Invalid
    BY <1>1, <1>2, <1>3, <1>4, <1>6, <1>10 DEF Works
  <1> QED
    BY <1>7, <1>8, <1>9, <1>10

\* Install or Uninstall is done.
LEMMA ReturnsFields ==
    ASSUME TypeOK, InstallReturns
    PROVE  /\ work' \in Works /\ work'.pc = "save" /\ work'.todo = <<>> /\ work'.err = work.err
           /\ work'.base = work.base /\ work'.copy.spec = work.copy.spec
           /\ work'.copy.deleting = work.copy.deleting /\ work'.copy.exists = work.copy.exists
           /\ \/ /\ work.pc = "install" /\ work'.copy.finalizer = work.copy.finalizer
                 /\ work'.copy.status = "deployed"
                 /\ work'.copy.config = busConfig(work.copy.spec)
              \/ work.pc = "uninstall" /\ work'.copy.finalizer = FALSE
  <1> DEFINE copy == IF work.pc = "install" THEN Installed(work.copy)
                     ELSE [work.copy EXCEPT !.finalizer = FALSE]
  <1>1. work \in Works /\ work.copy \in Buses /\ Idle.old \in Credentials /\ Idle.token \in Tokens
    BY RestTypes DEF TypeOK, Works, Idle, Tokens
  <1>2. /\ copy \in Buses /\ copy.spec = work.copy.spec
        /\ copy.deleting = work.copy.deleting /\ copy.exists = work.copy.exists
        /\ work.pc = "install" => /\ copy.finalizer = work.copy.finalizer
                                  /\ copy.status = "deployed"
                                  /\ copy.config = busConfig(work.copy.spec)
        /\ work.pc # "install" => copy.finalizer = FALSE
    <2>1. CASE work.pc = "install"
      BY <1>1, <2>1, InstalledFields
    <2>2. CASE work.pc # "install"
      BY <1>1, <2>2 DEF Buses
    <2> QED
      BY <2>1, <2>2
  <1> HIDE DEF copy
  <1>3. /\ work' = [work EXCEPT !.old = Idle.old, !.token = Idle.token, !.pc = "save", !.copy = copy]
        /\ work.pc \in {"install", "uninstall"} /\ work.todo = <<>>
    BY DEF InstallReturns, copy
  <1>4. /\ work' \in Works /\ work'.pc = "save" /\ work'.todo = <<>> /\ work'.err = work.err
        /\ work'.base = work.base /\ work'.copy = copy
    BY <1>1, <1>2, <1>3 DEF Works
  <1> QED
    BY <1>2, <1>3, <1>4

\* What the reconcile of the EventSource leaves of it.
LEMMA AfterFields ==
    ASSUME TypeOK, NEW n \in 0 .. 3
    PROVE  After(n) \in Users /\ After(n).exists = user.exists
  <1> DEFINE dep == IF n >= 1 THEN <<task.spec, task.config>> ELSE user.deployment
             service == CASE n <= 1 \/ user.service = task.spec -> user.service
                          [] n = 2 /\ user.service # task.spec  -> 0
                          [] n = 3 /\ user.service # task.spec  -> task.spec
  <1>1. /\ user \in Users /\ task.spec \in 1 .. 2 /\ task.config \in 0 .. MaxSpec
        /\ user.deployment \in (0 .. 2) \X (0 .. MaxSpec) /\ user.service \in 0 .. 2
    BY DEF TypeOK, Users, Tasks
  <1>2. dep \in (0 .. 2) \X (0 .. MaxSpec)
    BY <1>1, ConstantsAreNat
  <1>3. service \in 0 .. 2
    <2>1. n = 0 \/ n = 1 \/ n = 2 \/ n = 3
      OBVIOUS
    <2> QED
      BY <1>1, <2>1
  <1> HIDE DEF dep, service
  <1>4. After(n) = [user EXCEPT !.deployment = dep, !.service = service]
    BY DEF After, dep, service
  <1> QED
    BY <1>1, <1>2, <1>3, <1>4 DEF Users

\* The steps of the EventSource controller and of its user.
LEMMA UserTypes ==
    ASSUME TypeOK, ReconcileUser \/ WriteUser \/ WriteUserFails \/ EditUser
    PROVE  user' \in Users /\ user'.exists = user.exists /\ task' \in Tasks /\ requested' \in BOOLEAN
  <1>0. /\ user \in Users /\ task \in Tasks /\ requested \in BOOLEAN /\ user.spec \in 1 .. 2
        /\ seen.config \in 0 .. MaxSpec
    BY DEF TypeOK, Users, Buses
  <1>1. CASE ReconcileUser
    <2>1. user' = user \/ user' = [user EXCEPT !.status = "failed"]
      BY <1>1 DEF ReconcileUser
    <2>2. task' = task \/ task' = [pc |-> "write", spec |-> user.spec, config |-> seen.config]
      BY <1>1 DEF ReconcileUser
    <2>3. requested' \in BOOLEAN
      BY <1>0, <1>1 DEF ReconcileUser
    <2>4. user' \in Users /\ user'.exists = user.exists
      BY <1>0, <2>1 DEF Users
    <2>5. task' \in Tasks
      BY <1>0, <2>2 DEF Tasks
    <2> QED
      BY <2>3, <2>4, <2>5
  <1>2. CASE WriteUser
    <2>1. user' = After(3) \/ user' = [After(3) EXCEPT !.status = "deployed"]
      BY <1>2 DEF WriteUser
    <2>2. task' = NoTask
      BY <1>2 DEF WriteUser
    <2>3. requested' \in BOOLEAN
      BY <1>0, <1>2 DEF WriteUser
    <2>4. After(3) \in Users /\ After(3).exists = user.exists
      BY AfterFields
    <2>5. user' \in Users /\ user'.exists = user.exists
      BY <2>1, <2>4 DEF Users
    <2> QED
      BY <2>2, <2>3, <2>5, RestTypes
  <1>3. CASE WriteUserFails
    <2>1. PICK n \in 0 .. 3 : user' = [After(n) EXCEPT !.status =
                                  IF n < 3 /\ user.spec = task.spec THEN "failed" ELSE @]
      BY <1>3 DEF WriteUserFails
    <2>2. After(n) \in Users /\ After(n).exists = user.exists
      BY AfterFields
    <2>3. user' \in Users /\ user'.exists = user.exists
      BY <2>1, <2>2 DEF Users
    <2>4. task' = NoTask /\ requested' \in BOOLEAN
      BY <1>3 DEF WriteUserFails
    <2> QED
      BY <2>3, <2>4, RestTypes
  <1>4. CASE EditUser
    <2>1. user' = [user EXCEPT !.spec = 2] /\ task' = task
      BY <1>4 DEF EditUser, busVars
    <2>2. requested' \in BOOLEAN
      BY <1>4 DEF EditUser
    <2>3. user' \in Users /\ user'.exists = user.exists
      BY <1>0, <2>1 DEF Users
    <2> QED
      BY <1>0, <2>1, <2>2, <2>3
  <1> QED
    BY <1>1, <1>2, <1>3, <1>4

\* The types of the controller's variables, and of the rest.
BusTypes ==
    /\ bus \in Buses /\ seen \in Buses
    /\ secrets \in Credentials
    /\ objects \in [Resources -> 0 .. MaxSpec] /\ cached \in [Resources -> 0 .. MaxSpec]
    /\ work \in Works
    /\ volumes \in BOOLEAN /\ queued \in BOOLEAN
    /\ work.todo # <<>> => work.pc \in {"install", "uninstall"}
    /\ work.err => work.pc = "save"

\* Every step is well typed.
LEMMA TypeStep ==
    ASSUME TypeOK, [Next]_vars
    PROVE  TypeOK'
  <1>t. TypeOK
    OBVIOUS
  <1> USE DEF busVars, userVars, history
  <1>0. /\ BusTypes /\ kind \in Kinds /\ user \in Users /\ task \in Tasks
        /\ requested \in BOOLEAN /\ listed \in BOOLEAN /\ raced \in BOOLEAN
        /\ overlooked \in BOOLEAN /\ tampered \in BOOLEAN
        /\ edits \in Nat /\ faults \in Nat
    BY DEF TypeOK, BusTypes
  <1>f. kind' \in Kinds /\ edits' \in Nat /\ faults' \in Nat
    <2>1. UNCHANGED kind /\ edits' \in {edits, edits + 1} /\ faults' \in {faults, faults + 1}
      BY DEF Next, vars, BusStep, Reconcile, OneCall, InstallReturns, Update, StatusUpdate,
         SaveRefused, OneCallFails, SaveFails, Watch, WatchBus, WatchObject, WatchUser, Crash, UserStep,
         ReconcileUser, WriteUser, WriteUserFails, EditBus, DeleteBus, CreateUser, EditUser,
         DeleteUser, Tamper
    <2> QED
      BY <1>0, <2>1
  <1>u. /\ user' \in Users /\ task' \in Tasks /\ requested' \in BOOLEAN
        /\ listed' \in BOOLEAN /\ raced' \in BOOLEAN /\ overlooked' \in BOOLEAN
        /\ tampered' \in BOOLEAN
    <2>1. CASE UNCHANGED <<userVars, history>>
      BY <1>0, <2>1
    <2>2. CASE Crash
      <3>1. task' = NoTask /\ UNCHANGED <<user, history>>
        BY <2>2 DEF Crash
      <3>2. requested' \in BOOLEAN /\ listed' \in BOOLEAN
        BY <1>0, <2>2 DEF Crash, Users
      <3> QED
        BY <1>0, <3>1, <3>2, RestTypes
    <2>3. CASE ReconcileUser \/ WriteUser \/ WriteUserFails \/ EditUser
      <3>1. UNCHANGED <<listed, raced, overlooked, tampered>>
        BY <2>3 DEF ReconcileUser, WriteUser, WriteUserFails, EditUser
      <3> QED
        BY <1>0, <2>3, <3>1, UserTypes
    <2>4. CASE EditBus
      BY <1>0, <2>4 DEF EditBus
    <2>5. CASE CreateUser
      <3>1. raced' \in BOOLEAN
        BY <2>5 DEF CreateUser
      <3>2. /\ user' = [NoUser EXCEPT !.exists = TRUE]
            /\ UNCHANGED <<task, requested, listed, overlooked, tampered>>
        BY <2>5 DEF CreateUser
      <3>3. user' \in Users
        BY <3>2, RestTypes DEF Users
      <3> QED
        BY <1>0, <3>1, <3>2, <3>3
    <2>6. CASE DeleteUser
      <3>1. requested' \in BOOLEAN /\ task' = NoTask /\ UNCHANGED <<listed, history>>
        BY <2>6 DEF DeleteUser
      <3>2. user' = [NoUser EXCEPT !.status = "deleted"]
        BY <2>6 DEF DeleteUser
      <3>3. user' \in Users
        BY <3>2, RestTypes DEF Users
      <3> QED
        BY <1>0, <3>1, <3>3, RestTypes
    <2>7. CASE Tamper
      <3>1. tampered' \in BOOLEAN
        BY <1>0, <2>7 DEF Tamper
      <3> QED
        BY <1>0, <2>7, <3>1 DEF Tamper
    <2>8. CASE WatchUser
      <3>1. user.exists \in BOOLEAN
        BY <1>0 DEF Users
      <3>2. requested' \in BOOLEAN /\ listed' \in BOOLEAN
        BY <2>8, <3>1 DEF WatchUser
      <3> QED
        BY <1>0, <2>8, <3>2 DEF WatchUser
    <2>9. CASE OneCall
      <3>1. user.exists \in BOOLEAN /\ volumes \in BOOLEAN
        BY <1>0 DEF Users, BusTypes
      <3>2. raced' \in BOOLEAN /\ overlooked' \in BOOLEAN
        BY <1>0, <2>9, <3>1 DEF OneCall, Looks
      <3>3. UNCHANGED <<userVars, tampered>>
        BY <2>9 DEF OneCall
      <3> QED
        BY <1>0, <3>2, <3>3
    <2> QED
      BY <2>1, <2>2, <2>3, <2>4, <2>5, <2>6, <2>7, <2>8, <2>9
         DEF Next, vars, BusStep, Reconcile, InstallReturns, Update, StatusUpdate,
         SaveRefused, OneCallFails, SaveFails, Watch, WatchBus, WatchObject, WatchUser, UserStep, DeleteBus
  <1>b. BusTypes'
    <2> USE <1>0 DEF BusTypes
    <2>1. CASE UNCHANGED busVars
      BY <2>1
    <2>2. CASE Reconcile
      <3>1. queued' \in BOOLEAN
        BY <1>t, <2>2, ReconcileFields
      <3>2. /\ work' \in Works
            /\ work'.todo # <<>> => work'.pc \in {"install", "uninstall"}
            /\ work'.err => work'.pc = "save"
        BY <1>t, <2>2, ReconcileFields, RestTypes
      <3> QED
        BY <2>2, <3>1, <3>2 DEF Reconcile
    <2>3. CASE OneCall \/ OneCallFails
      <3>1. UNCHANGED <<bus, seen, cached, queued>>
        BY <2>3 DEF OneCall, OneCallFails
      <3>2. \/ UNCHANGED <<secrets, objects, volumes>>
            \/ \E c \in Calls \ {"secrets"} : Takes(c)
        <4>1. CASE OneCall
          BY <1>t, <4>1, CallSteps, GetSecretsFields
        <4>2. CASE OneCallFails
          <5>1. work.todo \in Seq(Calls)
            BY DEF Works
          <5> QED
            BY <4>2, <5>1, TailSteps DEF OneCallFails, Takes
        <4> QED
          BY <2>3, <4>1, <4>2
      <3>3. /\ secrets' \in Credentials /\ objects' \in [Resources -> 0 .. MaxSpec]
            /\ volumes' \in BOOLEAN
        BY <1>t, <3>2, EffectTypes
      <3>4. /\ work' \in Works
            /\ work'.todo # <<>> => work'.pc \in {"install", "uninstall"}
            /\ work'.err => work'.pc = "save"
        <4>1. work.todo # <<>> /\ work.todo \in Seq(Calls)
          BY <2>3 DEF OneCall, OneCallFails, Works
        <4>2. CASE Abandon
          BY <1>t, <4>2, AbandonFields
        <4>3. CASE Continue(Tail(work.todo))
          BY <1>t, <4>1, <4>3, ContinueFields, TailSteps
        <4>4. CASE IsNext("secrets") /\ GetSecrets
          BY <1>t, <4>1, <4>4, GetSecretsFields
        <4> QED
          BY <1>t, <2>3, <4>2, <4>3, <4>4, CallSteps DEF OneCallFails
      <3> QED
        BY <3>1, <3>3, <3>4
    <2>4. CASE InstallReturns
      <3>1. /\ work' \in Works /\ work'.pc = "save" /\ work'.todo = <<>>
        BY <1>t, <2>4, ReturnsFields
      <3> QED
        BY <2>4, <3>1 DEF InstallReturns
    <2>5. ASSUME work' = Idle
          PROVE  /\ work' \in Works
                 /\ work'.todo # <<>> => work'.pc \in {"install", "uninstall"}
                 /\ work'.err => work'.pc = "save"
      BY <2>5, RestTypes
    <2>6. CASE Update
      <3>1. queued' \in BOOLEAN
        BY <2>6 DEF Update
      <3>2. bus' \in Buses
        <4>1. bus' = Gone \/ bus' = [bus EXCEPT !.finalizer = TRUE]
          BY <2>6 DEF Update
        <4> QED
          BY <4>1, RestTypes DEF Buses
      <3>3. secrets' \in Credentials /\ objects' \in [Resources -> 0 .. MaxSpec]
        BY <2>6, RestTypes, ConstantsAreNat DEF Update
      <3> QED
        BY <2>5, <2>6, <3>1, <3>2, <3>3 DEF Update
    <2>7. CASE StatusUpdate
      <3>1. queued' \in BOOLEAN
        BY <2>7 DEF StatusUpdate, Works
      <3>2. bus' \in Buses
        BY <2>7 DEF StatusUpdate, Works
      <3> QED
        BY <2>5, <2>7, <3>1, <3>2 DEF StatusUpdate
    <2>8. CASE SaveRefused \/ SaveFails
      <3>1. queued' \in BOOLEAN
        BY <2>8 DEF SaveRefused, SaveFails
      <3> QED
        BY <2>5, <2>8, <3>1 DEF SaveRefused, SaveFails
    <2>9. CASE WatchBus
      <3>1. queued' \in BOOLEAN
        BY <2>9 DEF WatchBus
      <3> QED
        BY <2>9, <3>1 DEF WatchBus
    <2>10. ASSUME NEW r \in Resources, WatchObject(r)
           PROVE  BusTypes'
      <3>1. queued' \in BOOLEAN
        BY <2>10 DEF WatchObject
      <3>2. cached' \in [Resources -> 0 .. MaxSpec]
        BY <2>10 DEF WatchObject
      <3> QED
        BY <2>10, <3>1, <3>2 DEF WatchObject
    <2>11. CASE Crash
      <3>1. queued' \in BOOLEAN
        BY <2>11 DEF Crash, Buses
      <3> QED
        BY <2>5, <2>11, <3>1 DEF Crash
    <2>12. CASE EditBus
      <3>1. bus' \in Buses
        <4>1. PICK s \in Specs : bus' = [bus EXCEPT !.spec = s]
          BY <2>12 DEF EditBus
        <4> QED
          BY <4>1 DEF Buses
      <3> QED
        BY <2>12, <3>1 DEF EditBus
    <2>13. CASE DeleteBus
      <3>1. bus' \in Buses
        BY <2>13 DEF DeleteBus, Buses
      <3> QED
        BY <2>13, <3>1 DEF DeleteBus
    <2>14. CASE Tamper
      <3>1. objects' \in [Resources -> 0 .. MaxSpec]
        BY <2>14, ConstantsAreNat DEF Tamper
      <3>2. secrets' \in Credentials
        BY <2>14 DEF Tamper, Credentials
      <3> QED
        BY <2>14, <3>1, <3>2 DEF Tamper
    <2> QED
      BY <2>1, <2>2, <2>3, <2>4, <2>6, <2>7, <2>8, <2>9, <2>10, <2>11, <2>12, <2>13, <2>14
         DEF Next, vars, BusStep, Watch, WatchUser, UserStep, ReconcileUser, WriteUser,
         WriteUserFails, CreateUser, EditUser, DeleteUser
  <1> QED
    BY <1>f, <1>u, <1>b DEF TypeOK, BusTypes
-----------------------------------------------------------------------------
(* The calls of a reconcile                                                *)

\* Only these steps change the reconcile under way.
LEMMA WorkSteps ==
    ASSUME [Next]_vars
    PROVE  \/ UNCHANGED work \/ work' = Idle
           \/ Reconcile \/ OneCall \/ OneCallFails \/ InstallReturns
  BY DEF Next, vars, busVars, BusStep, Update, StatusUpdate, SaveRefused, SaveFails, Watch,
     WatchBus, WatchObject, WatchUser, Crash, UserStep, ReconcileUser, WriteUser, WriteUserFails, EditBus,
     DeleteBus, CreateUser, EditUser, DeleteUser, Tamper

\* The calls ahead, when one of them is done.
LEMMA TailAhead ==
    ASSUME TypeOK, work.todo # <<>>, work'.todo = Tail(work.todo), NEW c
    PROVE  /\ Ahead(c)' => Ahead(c)
           /\ Ahead(c) /\ ~IsNext(c) => Ahead(c)'
           /\ IsNext(c)' => 2 <= Len(work.todo) /\ work.todo[2] = c
  <1>0. work.todo \in Seq(Calls)
    BY DEF TypeOK, Works
  <1> DEFINE s == work.todo
  <1>1. /\ Head(s) = s[1] /\ Tail(s) \in Seq(Calls) /\ Len(s) \in Nat /\ 1 <= Len(s)
        /\ Len(Tail(s)) = Len(s) - 1
        /\ \A i \in 1 .. Len(Tail(s)) : Tail(s)[i] = s[i + 1]
    BY <1>0, TailSteps
  <1>2. Ahead(c)' => Ahead(c)
    BY <1>1 DEF Ahead
  <1>3. ASSUME Ahead(c), ~IsNext(c)
        PROVE  Ahead(c)'
    <2>1. PICK i \in 1 .. Len(s) : s[i] = c
      BY <1>3 DEF Ahead
    <2>2. i # 1
      BY <1>1, <1>3, <2>1 DEF IsNext
    <2>3. i - 1 \in 1 .. Len(Tail(s)) /\ Tail(s)[i - 1] = c
      BY <1>1, <2>1, <2>2
    <2> QED
      BY <2>3 DEF Ahead
  <1>4. ASSUME IsNext(c)'
        PROVE  2 <= Len(s) /\ s[2] = c
    <2>1. Tail(s) # <<>> /\ Head(Tail(s)) = c
      BY <1>4 DEF IsNext
    <2>2. Len(Tail(s)) >= 1 /\ Head(Tail(s)) = Tail(s)[1]
      BY <1>1, <2>1, TailSteps
    <2> QED
      BY <1>1, <2>1, <2>2
  <1> QED
    BY <1>2, <1>3, <1>4

\* The next call is one of those ahead.
LEMMA NextIsAhead ==
    ASSUME TypeOK, NEW c, IsNext(c)
    PROVE  Ahead(c) /\ work.todo[1] = c /\ 1 \in 1 .. Len(work.todo)
  BY TailSteps DEF TypeOK, Works, IsNext, Ahead

\* The list of calls after the Secrets were read.
LEMMA PlanAhead ==
    ASSUME TypeOK, TodoInv, IsNext("secrets"), GetSecrets
    PROVE  /\ TodoInv'
           /\ \A c : Ahead(c) /\ c # "secrets" => Ahead(c)'
           /\ \/ /\ secrets.server # 0 /\ secrets.client # 0
                 /\ \A c \in SecretCalls : ~IsNext(c)'
              \/ IsNext("deleteServer")' /\ secrets.client = 0
              \/ IsNext("deleteClient")' /\ kind = "jetstream"
              \/ IsNext("createServer")' /\ secrets.client = 0
              \/ IsNext("updateServer")' /\ secrets.client = 0
              \/ /\ IsNext("createServer")' /\ kind # "jetstream"
                 /\ secrets.server = 0 /\ secrets.client # 0
           /\ secrets.server = 0 \/ secrets.client = 0 => \E c \in ToClient : Ahead(c)'
  <1> DEFINE s == Tail(work.todo)
             p == createSecrets(secrets)
             t == work'.todo
  <1>0. work.todo \in Seq(Calls) /\ work.todo # <<>> /\ secrets \in Credentials
    BY DEF TypeOK, Works, IsNext
  <1>1. t = p \o s /\ work'.pc = work.pc
    BY GetSecretsFields
  <1>2. /\ s \in Seq(Calls) /\ Len(s) = Len(work.todo) - 1 /\ Len(work.todo) \in Nat
        /\ \A i \in 1 .. Len(s) : s[i] = work.todo[i + 1]
    BY <1>0, TailSteps
  <1>3. \A i \in 1 .. Len(s) : s[i] \notin SecretCalls \cup {"secrets"}
    BY <1>2, NextIsAhead DEF TodoInv
  <1>4. work.pc = "install"
    BY <1>0 DEF TodoInv, TypeOK, IsNext
  <1>5. \A i \in 1 .. Len(s) : s[i] \notin {"linked", "volumes"}
    BY <1>2, <1>4 DEF TodoInv, Ahead
  <1>6. \A c : Ahead(c) /\ c # "secrets" => \E i \in 1 .. Len(s) : s[i] = c
    <2> SUFFICES ASSUME NEW c, Ahead(c), c # "secrets"
                 PROVE  \E i \in 1 .. Len(s) : s[i] = c
      OBVIOUS
    <2>1. PICK i \in 1 .. Len(work.todo) : work.todo[i] = c
      BY DEF Ahead
    <2>2. i # 1
      BY <2>1, NextIsAhead
    <2>3. i - 1 \in 1 .. Len(s) /\ s[i - 1] = c
      BY <1>2, <2>1, <2>2
    <2> QED
      BY <2>3
  <1> HIDE DEF s, p
  <1> USE DEF SecretCalls, ToServer, ToClient
  \* Prepending calls in their order keeps the invariant.
  <1>7. CASE p = <<>> /\ secrets.server # 0 /\ secrets.client # 0
    <2>1. t = s
      BY <1>1, <1>2, <1>7
    <2>2. TodoInv'
      BY <1>1, <1>2, <1>3, <1>4, <1>5, <2>1 DEF TodoInv, Ahead
    <2>3. \A c \in SecretCalls : ~IsNext(c)'
      BY <1>2, <1>3, <2>1, TailSteps DEF IsNext
    <2>4. \A c : Ahead(c) /\ c # "secrets" => Ahead(c)'
      BY <1>6, <2>1 DEF Ahead
    <2> QED
      BY <1>7, <2>2, <2>3, <2>4
  <1>8. ASSUME NEW a, NEW b, t = <<a, b>> \o s, a \in ToServer, b \in ToClient
        PROVE  /\ TodoInv' /\ IsNext(a)' /\ Ahead(b)'
               /\ \A c : Ahead(c) /\ c # "secrets" => Ahead(c)'
    <2>1. /\ Len(t) = Len(s) + 2 /\ t[1] = a /\ t[2] = b /\ Head(t) = a /\ t # <<>>
          /\ \A i \in 1 .. Len(s) : t[i + 2] = s[i]
          /\ \A i \in 3 .. Len(t) : t[i] = s[i - 2] /\ i - 2 \in 1 .. Len(s)
      BY <1>2, <1>8
    <2>2. IsNext(a)' /\ Ahead(b)'
      <3>1. 2 \in 1 .. Len(t)
        BY <1>2, <2>1
      <3> QED
        BY <2>1, <3>1 DEF IsNext, Ahead
    <2>3. \A i \in 3 .. Len(t) : t[i] \notin SecretCalls \cup {"secrets", "linked", "volumes"}
      BY <1>3, <1>5, <2>1
    <2>4. \A c : Ahead(c) /\ c # "secrets" => Ahead(c)'
      <3> SUFFICES ASSUME NEW c, Ahead(c), c # "secrets" PROVE Ahead(c)'
        OBVIOUS
      <3>1. PICK i \in 1 .. Len(s) : s[i] = c
        BY <1>6
      <3>2. i + 2 \in 1 .. Len(t) /\ t[i + 2] = c
        BY <1>2, <2>1, <3>1
      <3> QED
        BY <3>2 DEF Ahead
    <2>5. \A i \in 1 .. Len(t) : i = 1 \/ i = 2 \/ i \in 3 .. Len(t)
      BY <1>2, <2>1
    <2>6. \A i \in 1 .. Len(t) : t[i] \notin {"secrets", "linked", "volumes"}
      BY <1>8, <2>1, <2>3, <2>5
    <2>7. \A i \in 2 .. Len(t) : t[i] \in SecretCalls => t[i - 1] \in Before(t[i])
      BY <1>8, <1>2, <2>1, <2>3 DEF Before
    <2> QED
      BY <1>1, <1>4, <2>2, <2>4, <2>6, <2>7 DEF TodoInv, Ahead
  <1>9. ASSUME NEW a, t = <<a, "createServer", "createClient">> \o s,
               a \in {"deleteServer", "deleteClient"}
        PROVE  /\ TodoInv' /\ IsNext(a)' /\ Ahead("createClient")'
               /\ \A c : Ahead(c) /\ c # "secrets" => Ahead(c)'
    <2>1. /\ Len(t) = Len(s) + 3 /\ t[1] = a /\ t[2] = "createServer" /\ t[3] = "createClient"
          /\ Head(t) = a /\ t # <<>>
          /\ \A i \in 1 .. Len(s) : t[i + 3] = s[i]
          /\ \A i \in 4 .. Len(t) : t[i] = s[i - 3] /\ i - 3 \in 1 .. Len(s)
      BY <1>2, <1>9
    <2>2. IsNext(a)' /\ Ahead("createClient")'
      <3>1. 3 \in 1 .. Len(t)
        BY <1>2, <2>1
      <3> QED
        BY <2>1, <3>1 DEF IsNext, Ahead
    <2>3. \A i \in 4 .. Len(t) : t[i] \notin SecretCalls \cup {"secrets", "linked", "volumes"}
      BY <1>3, <1>5, <2>1
    <2>4. \A c : Ahead(c) /\ c # "secrets" => Ahead(c)'
      <3> SUFFICES ASSUME NEW c, Ahead(c), c # "secrets" PROVE Ahead(c)'
        OBVIOUS
      <3>1. PICK i \in 1 .. Len(s) : s[i] = c
        BY <1>6
      <3>2. i + 3 \in 1 .. Len(t) /\ t[i + 3] = c
        BY <1>2, <2>1, <3>1
      <3> QED
        BY <3>2 DEF Ahead
    <2>5. \A i \in 1 .. Len(t) : i = 1 \/ i = 2 \/ i = 3 \/ i \in 4 .. Len(t)
      BY <1>2, <2>1
    <2>6. \A i \in 1 .. Len(t) : t[i] \notin {"secrets", "linked", "volumes"}
      BY <1>9, <2>1, <2>3, <2>5
    <2>7. \A i \in 2 .. Len(t) : t[i] \in SecretCalls => t[i - 1] \in Before(t[i])
      BY <1>9, <1>2, <2>1, <2>3 DEF Before
    <2> QED
      BY <1>1, <1>4, <2>2, <2>4, <2>6, <2>7 DEF TodoInv, Ahead
  <1> QED
    BY <1>0, <1>1, <1>7, <1>8, <1>9, SecretsPlan DEF p

\* The first list of calls of an Install.
LEMMA FirstCalls ==
    ASSUME TypeOK
    PROVE  /\ Native => calls = <<"secrets", "configmap", "service", "statefulset">>
                        \/ calls = <<"service", "configmap", "secrets", "statefulset">>
           /\ ~Native => calls = <<>>
  BY ConstantsAssumption DEF TypeOK, Native, calls

\* Every step keeps the calls in order.
LEMMA TodoStep ==
    ASSUME TypeOK, TodoInv, [Next]_vars
    PROVE  TodoInv'
  <1> USE DEF SecretCalls, ToServer, ToClient
  <1>0. work \in Works /\ work.todo \in Seq(Calls)
    BY DEF TypeOK, Works
  <1>1. CASE UNCHANGED work
    BY <1>1 DEF TodoInv, Ahead
  <1>2. ASSUME work'.todo = <<>>
        PROVE  TodoInv'
    BY <1>2 DEF TodoInv, Ahead
  <1>3. CASE work' = Idle \/ InstallReturns \/ OneCallFails
    BY <1>2, <1>3, RestTypes, ReturnsFields, AbandonFields DEF OneCallFails
  <1>4. CASE Reconcile
    <2>1. CASE work'.todo = <<>>
      BY <1>2, <2>1
    <2>2. CASE work'.pc = "uninstall" /\ work'.todo = <<"linked", "volumes">>
      BY <2>2 DEF TodoInv, Ahead
    <2>3. CASE work'.pc = "install" /\ work'.todo = calls
      <3>1. CASE calls = <<>>
        BY <1>2, <2>3, <3>1
      <3>2. CASE calls = <<"secrets", "configmap", "service", "statefulset">>
        BY <2>3, <3>2 DEF TodoInv, Ahead
      <3>3. CASE calls = <<"service", "configmap", "secrets", "statefulset">>
        BY <2>3, <3>3 DEF TodoInv, Ahead
      <3> QED
        BY <3>1, <3>2, <3>3, FirstCalls
    <2> QED
      BY <1>4, <2>1, <2>2, <2>3, ReconcileFields, RestTypes
  <1>5. CASE OneCall
    <2>1. CASE IsNext("secrets") /\ GetSecrets
      BY <2>1, PlanAhead
    <2>2. CASE Abandon
      BY <1>2, <2>2, AbandonFields
    <2>3. CASE work.todo # <<>> /\ Continue(Tail(work.todo))
      <3> DEFINE s == work.todo  t == work'.todo
      <3>1. /\ t = Tail(s) /\ Tail(s) \in Seq(Calls) /\ Len(s) \in Nat /\ Len(t) = Len(s) - 1
            /\ \A i \in 1 .. Len(t) : t[i] = s[i + 1]
            /\ work'.pc = work.pc
        <4>1. /\ Tail(s) \in Seq(Calls) /\ Len(s) \in Nat /\ Len(Tail(s)) = Len(s) - 1
              /\ \A i \in 1 .. Len(Tail(s)) : Tail(s)[i] = s[i + 1]
          BY <1>0, <2>3, TailSteps
        <4>2. t = Tail(s) /\ work'.pc = work.pc
          BY <2>3, <4>1, ContinueFields
        <4> QED
          BY <4>1, <4>2
      <3>2. \A i \in 2 .. Len(t) : t[i] \in SecretCalls => t[i - 1] \in Before(t[i])
        BY <3>1 DEF TodoInv
      <3>3. \A i, j \in 1 .. Len(t) :
               t[i] = "secrets" /\ j # i => t[j] \notin SecretCalls \cup {"secrets"}
        BY <3>1 DEF TodoInv
      <3>4. work'.pc = "install" => ~Ahead("linked")' /\ ~Ahead("volumes")'
        BY <2>3, <3>1, TailAhead DEF TodoInv
      <3>5. work'.pc = "uninstall" => t \in {<<"linked", "volumes">>, <<"volumes">>, <<>>}
        <4>1. CASE s = <<"linked", "volumes">>
          BY <3>1, <4>1
        <4>2. CASE s = <<"volumes">>
          BY <3>1, <4>2
        <4> QED
          BY <2>3, <3>1, <4>1, <4>2 DEF TodoInv
      <3> QED
        BY <3>2, <3>3, <3>4, <3>5 DEF TodoInv
    <2> QED
      BY <1>0, <1>5, <2>1, <2>2, <2>3, CallSteps DEF IsNext
  <1> QED
    BY <1>1, <1>3, <1>4, <1>5, WorkSteps

\* A call that writes a Secret comes next only after the one it has to follow.
LEMMA NextAfter ==
    ASSUME TypeOK, TodoInv, NEW c \in Calls, IsNext(c), work'.todo = Tail(work.todo),
           NEW e \in SecretCalls, IsNext(e)'
    PROVE  c \in Before(e)
  <1>1. 2 \in 2 .. Len(work.todo) /\ work.todo[2] = e /\ work.todo[1] = c
    <2>1. 2 <= Len(work.todo) /\ work.todo[2] = e
      BY TailAhead DEF IsNext
    <2>2. Len(work.todo) \in Nat
      BY DEF TypeOK, Works
    <2> QED
      BY <2>1, <2>2, NextIsAhead
  <1>2. work.todo[2 - 1] = c
    BY <1>1
  <1> QED
    BY <1>1, <1>2 DEF TodoInv

-----------------------------------------------------------------------------
(* The credentials                                                         *)

\* What a call that writes a Secret does to the two.
LEMMA SecretWritten ==
    ASSUME TypeOK, NEW c \in SecretCalls, WriteSecret(c)
    PROVE  /\ c \in ToServer => secrets'.server = work.token /\ secrets'.client = secrets.client
           /\ c \in ToClient => secrets'.client = work.token /\ secrets'.server = secrets.server
           /\ c = "deleteServer" => secrets'.server = 0 /\ secrets'.client = secrets.client
           /\ c = "deleteClient" => secrets'.client = 0 /\ secrets'.server = secrets.server
  <1>0. secrets \in Credentials
    BY DEF TypeOK
  <1> USE DEF WriteSecret, Credentials, ToServer, ToClient
  <1>1. CASE c \in ToServer
    <2>1. SecretOf[c] = "server" /\ c \notin {"deleteServer", "deleteClient"}
      BY <1>1 DEF SecretOf
    <2>2. secrets' = [secrets EXCEPT !["server"] = work.token]
      BY <2>1
    <2> QED
      BY <1>0, <1>1, <2>2
  <1>2. CASE c \in ToClient
    <2>1. SecretOf[c] = "client" /\ c \notin {"deleteServer", "deleteClient"}
      BY <1>2 DEF SecretOf
    <2>2. secrets' = [secrets EXCEPT !["client"] = work.token]
      BY <2>1
    <2> QED
      BY <1>0, <1>2, <2>2
  <1>3. CASE c = "deleteServer"
    <2>1. SecretOf[c] = "server"
      BY <1>3 DEF SecretOf
    <2>2. secrets' = [secrets EXCEPT !["server"] = 0]
      BY <1>3, <2>1
    <2> QED
      BY <1>0, <1>3, <2>2
  <1>4. CASE c = "deleteClient"
    <2>1. SecretOf[c] = "client"
      BY <1>4 DEF SecretOf
    <2>2. secrets' = [secrets EXCEPT !["client"] = 0]
      BY <1>4, <2>1
    <2> QED
      BY <1>0, <1>4, <2>2
  <1> QED
    BY <1>1, <1>2, <1>3, <1>4 DEF SecretCalls

\* The part of CredentialsInv that is about the Secrets alone.
SecretsAgree ==
    /\ kind = "jetstream" \/ ~tampered => CredentialsMatch
    /\ ~tampered => (secrets.client # 0 => secrets.server = secrets.client)

\* Whatever call comes next, its effect leaves Secrets that agree.
LEMMA EffectAgrees ==
    ASSUME TypeOK, CredentialsInv, NEW c \in Calls \ {"secrets"}, IsNext(c), Takes(c),
           UNCHANGED <<kind, tampered>>
    PROVE  SecretsAgree'
  <1>1. CASE c \in SecretCalls
    <2>1. WriteSecret(c)
      BY <1>1 DEF Effect, Takes, SecretCalls, ToServer, ToClient
    <2>2. CASE c \in ToServer \cup {"deleteServer"}
      BY <1>1, <2>1, <2>2, SecretWritten DEF CredentialsInv, SecretsAgree, CredentialsMatch
    <2>3. CASE c \in ToClient
      BY <1>1, <2>1, <2>3, SecretWritten DEF CredentialsInv, SecretsAgree, CredentialsMatch
    <2>4. CASE c = "deleteClient"
      BY <1>1, <2>1, <2>4, SecretWritten DEF CredentialsInv, SecretsAgree, CredentialsMatch
    <2> QED
      BY <1>1, <2>2, <2>3, <2>4 DEF SecretCalls
  <1>2. CASE c \notin SecretCalls
    <2>1. UNCHANGED secrets
      BY <1>2, SecretCallsDef DEF Effect, Takes, createConfigMap, createService, createStatefulSet,
         WriteObject, uninstallPVCs
    <2> QED
      BY <2>1 DEF CredentialsInv, SecretsAgree, CredentialsMatch
  <1> QED
    BY <1>1, <1>2

\* Every step keeps CredentialsInv.
LEMMA CredentialsStep ==
    ASSUME TypeOK, TodoInv, CredentialsInv, [Next]_vars
    PROVE  CredentialsInv'
  <1> USE DEF busVars, userVars, history
  <1>0. SecretsAgree /\ work.todo \in Seq(Calls)
    BY DEF CredentialsInv, SecretsAgree, TypeOK, Works
  <1>e. ASSUME work'.todo = <<>>, SecretsAgree'
        PROVE  CredentialsInv'
    BY <1>e DEF CredentialsInv, SecretsAgree, IsNext
  <1>1. CASE UNCHANGED <<work, secrets, kind, tampered>>
    BY <1>1 DEF CredentialsInv, CredentialsMatch, IsNext
  <1>2. CASE StatusUpdate \/ SaveRefused \/ SaveFails \/ Crash \/ Reconcile \/ InstallReturns
    <2>1. UNCHANGED <<secrets, kind, tampered>>
      BY <1>2 DEF StatusUpdate, SaveRefused, SaveFails, Crash, Reconcile, InstallReturns
    <2>2. SecretsAgree'
      BY <1>0, <2>1 DEF SecretsAgree, CredentialsMatch
    <2>3. CASE ~Reconcile
      BY <1>2, <1>e, <2>2, <2>3, RestTypes, ReturnsFields
         DEF StatusUpdate, SaveRefused, SaveFails, Crash
    <2>4. CASE Reconcile
      <3>1. \A c \in SecretCalls : ~IsNext(c)'
        <4>1. CASE work'.todo = <<>>
          BY <4>1 DEF IsNext
        <4>2. CASE work'.todo = <<"linked", "volumes">>
          BY <4>2 DEF IsNext, SecretCalls, ToServer, ToClient
        <4>3. CASE work'.todo = calls
          BY <4>3, FirstCalls DEF IsNext, SecretCalls, ToServer, ToClient
        <4> QED
          BY <2>4, <4>1, <4>2, <4>3, ReconcileFields, RestTypes
      <3> QED
        BY <2>2, <3>1 DEF CredentialsInv, SecretsAgree, SecretCalls
    <2> QED
      BY <2>3, <2>4
  <1>3. CASE Update
    <2>1. work'.todo = <<>> /\ UNCHANGED <<kind, tampered>>
      BY <1>3, RestTypes DEF Update
    <2>2. UNCHANGED secrets \/ (secrets'.server = 0 /\ secrets'.client = 0)
      BY <1>3 DEF Update, Idle
    <2>3. SecretsAgree'
      BY <1>0, <2>1, <2>2 DEF SecretsAgree, CredentialsMatch
    <2> QED
      BY <1>e, <2>1, <2>3
  <1>4. CASE OneCallFails
    <2>1. work'.todo = <<>> /\ UNCHANGED <<kind, tampered>>
      BY <1>4, AbandonFields DEF OneCallFails
    <2>2. CASE UNCHANGED secrets
      BY <1>0, <1>e, <2>1, <2>2 DEF SecretsAgree, CredentialsMatch
    <2>3. CASE Head(work.todo) # "secrets" /\ Takes(Head(work.todo))
      <3>1. Head(work.todo) \in Calls \ {"secrets"} /\ IsNext(Head(work.todo))
        BY <1>0, <1>4, <2>3, TailSteps DEF OneCallFails, IsNext
      <3> QED
        BY <1>e, <2>1, <2>3, <3>1, EffectAgrees
    <2> QED
      BY <1>4, <2>2, <2>3 DEF OneCallFails, Takes
  <1>5. CASE OneCall
    <2>0. UNCHANGED <<kind, tampered>>
      BY <1>5 DEF OneCall
    <2>1. CASE IsNext("secrets") /\ GetSecrets
      <3>1. UNCHANGED secrets
        BY <2>1 DEF GetSecrets
      <3>2. ASSUME kind = "jetstream" \/ ~tampered, NEW c \in ToServer \cup {"deleteServer"},
                   IsNext(c)'
            PROVE  secrets.client = 0
        <4>1. ~(secrets.server = 0 /\ secrets.client # 0) \/ kind = "jetstream"
          BY <1>0, <3>2 DEF SecretsAgree
        <4>2. \A e : IsNext(e)' => e = c
          BY <3>2 DEF IsNext
        <4>3. c \in SecretCalls /\ c # "deleteClient"
          BY DEF SecretCalls, ToServer
        <4> QED
          BY <2>1, <3>2, <4>1, <4>2, <4>3, PlanAhead
      <3>3. \A c \in ToClient : ~IsNext(c)'
        <4> SUFFICES ASSUME NEW c \in ToClient, IsNext(c)' PROVE FALSE
          OBVIOUS
        <4>1. \A e : IsNext(e)' => e = c
          BY DEF IsNext
        <4>2. c \in SecretCalls /\ c \notin {"deleteServer", "deleteClient", "createServer", "updateServer"}
          BY DEF SecretCalls, ToClient
        <4> QED
          BY <2>1, <4>1, <4>2, PlanAhead
      <3>4. SecretsAgree'
        BY <1>0, <2>0, <3>1 DEF SecretsAgree, CredentialsMatch
      <3> QED
        BY <2>0, <3>1, <3>2, <3>3, <3>4 DEF CredentialsInv, SecretsAgree
    <2>2. CASE Abandon /\ UNCHANGED secrets
      <3>1. work'.todo = <<>>
        BY <2>2, AbandonFields
      <3> QED
        BY <1>0, <1>e, <2>0, <2>2, <3>1 DEF SecretsAgree, CredentialsMatch
    <2>3. ASSUME NEW c \in Calls \ {"secrets"}, IsNext(c), Takes(c), Continue(Tail(work.todo))
          PROVE  CredentialsInv'
      <3>1. work'.todo = Tail(work.todo) /\ work'.token = work.token
        BY <1>0, <2>3, TailSteps, ContinueFields DEF IsNext
      <3>2. SecretsAgree'
        BY <2>0, <2>3, EffectAgrees
      <3>3. \A e \in SecretCalls : IsNext(e)' => c \in Before(e)
        BY <2>3, <3>1, NextAfter
      <3>4. c \in SecretCalls => WriteSecret(c)
        BY <2>3 DEF Effect, Takes, SecretCalls, ToServer, ToClient
      <3>5. ASSUME NEW e \in ToServer \cup {"deleteServer"}, IsNext(e)',
                   kind = "jetstream" \/ ~tampered
            PROVE  secrets'.client = 0
        <4>1. c \in {"deleteServer", "deleteClient"}
          BY <3>3, <3>5 DEF Before, SecretCalls, ToServer, ToClient
        <4>2. c \in SecretCalls
          BY <4>1 DEF SecretCalls
        <4> QED
          BY <2>3, <3>4, <3>5, <4>1, <4>2, SecretWritten DEF CredentialsInv
      <3>6. ASSUME NEW e \in ToClient, IsNext(e)'
            PROVE  secrets'.server = work'.token
        <4>1. c \in ToServer
          BY <3>3, <3>6 DEF Before, SecretCalls, ToServer, ToClient
        <4>2. c \in SecretCalls
          BY <4>1 DEF SecretCalls
        <4> QED
          BY <3>1, <3>4, <4>1, <4>2, SecretWritten
      <3> QED
        BY <2>0, <3>2, <3>5, <3>6 DEF CredentialsInv, SecretsAgree
    <2> QED
      BY <1>5, <2>1, <2>2, <2>3, CallSteps
  <1>6. CASE Tamper
    <2>1. UNCHANGED <<work, kind>>
      BY <1>6 DEF Tamper
    <2>2. CASE UNCHANGED <<secrets, tampered>>
      BY <1>1, <2>1, <2>2
    <2>3. CASE tampered' = TRUE /\ \E s \in DOMAIN secrets : secrets' = [secrets EXCEPT ![s] = 0]
      <3>1. secrets \in Credentials
        BY DEF TypeOK
      <3>2. \/ secrets'.server = 0 /\ secrets'.client = secrets.client
            \/ secrets'.client = 0 /\ secrets'.server = secrets.server
        BY <2>3, <3>1 DEF Credentials
      <3> QED
        BY <2>1, <2>3, <3>2 DEF CredentialsInv, CredentialsMatch, IsNext
    <2> QED
      BY <1>6, <2>2, <2>3 DEF Tamper
  <1> QED
    BY <1>1, <1>2, <1>3, <1>4, <1>5, <1>6
       DEF Next, vars, BusStep, Watch, WatchBus, WatchObject, WatchUser, UserStep, ReconcileUser, WriteUser,
       WriteUserFails, EditBus, DeleteBus, CreateUser, EditUser, DeleteUser

-----------------------------------------------------------------------------
(* The ages of the copies of the EventBus                                  *)

\* A call keeps what the reconcile has read, and ends it when it fails.
LEMMA CallFields ==
    ASSUME TypeOK, OneCall \/ OneCallFails
    PROVE  /\ UNCHANGED <<kind, bus, seen, cached, queued, user, tampered>>
           /\ work.pc \in {"install", "uninstall"} /\ work.todo # <<>> /\ ~work.err
           /\ work'.base = work.base
           /\ work'.copy.spec = work.copy.spec /\ work'.copy.deleting = work.copy.deleting
           /\ work'.copy.exists = work.copy.exists /\ work'.copy.finalizer = work.copy.finalizer
           /\ \/ work'.pc = work.pc /\ work'.copy = work.copy /\ work'.err = work.err
              \/ work'.pc = "save" /\ work'.err /\ work'.todo = <<>>
  <1>1. UNCHANGED <<kind, bus, seen, cached, queued, user, tampered>> /\ work.todo # <<>>
    BY DEF OneCall, OneCallFails, userVars, history
  <1>2. work.pc \in {"install", "uninstall"} /\ ~work.err /\ work.todo \in Seq(Calls)
    BY <1>1 DEF TypeOK, Works
  <1>3. CASE Abandon
    BY <1>1, <1>2, <1>3, AbandonFields
  <1>4. CASE IsNext("secrets") /\ GetSecrets
    BY <1>1, <1>2, <1>4, GetSecretsFields
  <1>5. CASE Continue(Tail(work.todo))
    <2>1. Tail(work.todo) \in Seq(Calls)
      BY <1>1, <1>2, TailSteps
    <2> QED
      BY <1>1, <1>2, <1>5, <2>1, ContinueFields
  <1> QED
    BY <1>3, <1>4, <1>5, CallSteps DEF OneCallFails

\* A reconcile that is over.
LEMMA IdleFields ==
    /\ Idle.pc = "idle" /\ Idle.todo = <<>> /\ Idle.err = FALSE
    /\ Idle.base = Gone /\ Idle.copy = Gone /\ Gone.deleting = FALSE /\ Gone.exists = FALSE
    /\ Gone.finalizer = FALSE
  BY DEF Idle, Gone

\* Every step keeps the ages in order.
LEMMA AgeStep ==
    ASSUME TypeOK, AgeInv, [Next]_vars
    PROVE  AgeInv'
  <1>0. /\ bus \in Buses /\ seen \in Buses /\ work.base \in Buses /\ work.copy \in Buses
        /\ work.pc \in {"idle", "install", "uninstall", "save"}
        /\ bus.spec \in Nat /\ seen.spec \in Nat /\ work.base.spec \in Nat /\ work.copy.spec \in Nat
    BY ConstantsAreNat DEF TypeOK, Works, Buses, Specs
  <1>1. CASE UNCHANGED <<bus, seen, work>>
    BY <1>1 DEF AgeInv
  <1>2. CASE Reconcile
    <2>1. UNCHANGED <<bus, seen>>
      BY <1>2 DEF Reconcile
    <2>2. CASE work' = Idle
      BY <2>1, <2>2, IdleFields DEF AgeInv
    <2>3. CASE work'.pc = "uninstall" /\ work'.base = seen /\ work'.copy = seen /\ seen.exists
               /\ seen.deleting
      BY <1>0, <2>1, <2>3 DEF AgeInv
    <2>4. CASE /\ seen.exists /\ ~seen.deleting /\ work'.base = seen
               /\ work'.copy.spec = seen.spec /\ work'.copy.deleting = seen.deleting
               /\ work'.copy.exists = seen.exists /\ work'.copy.finalizer = TRUE
               /\ \/ work'.pc = "save"
                  \/ work'.pc = "install" /\ seen.spec \notin Invalid
      <3>1. work'.base.deleting = FALSE
        BY <1>0, <2>4 DEF Buses
      <3>2. work'.copy.finalizer = ~work'.base.deleting
        BY <2>4, <3>1
      <3>3. bus.exists
        BY <2>4 DEF AgeInv
      <3>4. CASE work'.pc = "save"
        BY <1>0, <2>1, <2>4, <3>1, <3>2, <3>3, <3>4 DEF AgeInv
      <3>5. CASE work'.pc = "install" /\ seen.spec \notin Invalid
        BY <1>0, <2>1, <2>4, <3>1, <3>3, <3>5 DEF AgeInv
      <3> QED
        BY <2>4, <3>4, <3>5
    <2> QED
      BY <1>2, <2>2, <2>3, <2>4, ReconcileFields
  <1>3. CASE OneCall \/ OneCallFails
    <2>1. CASE work'.pc = work.pc /\ work'.copy = work.copy
      <3>1. UNCHANGED <<bus, seen>> /\ work'.base = work.base
        BY <1>3, CallFields
      <3> QED
        BY <2>1, <3>1 DEF AgeInv
    <2>2. CASE work'.pc = "save"
      <3>1. CASE work.pc = "install"
        BY <1>0, <1>3, <2>2, <3>1, CallFields DEF AgeInv
      <3>2. CASE work.pc = "uninstall"
        BY <1>0, <1>3, <2>2, <3>2, CallFields DEF AgeInv
      <3> QED
        BY <1>3, <3>1, <3>2, CallFields
    <2> QED
      BY <1>3, <2>1, <2>2, CallFields
  <1>4. CASE InstallReturns
    <2>1. UNCHANGED <<bus, seen>>
      BY <1>4 DEF InstallReturns
    <2> QED
      BY <1>0, <1>4, <2>1, ReturnsFields DEF AgeInv
  <1>5. CASE Update
    <2>1. work' = Idle /\ UNCHANGED seen
      BY <1>5 DEF Update
    <2>2. CASE work.copy.finalizer /\ bus' = [bus EXCEPT !.finalizer = TRUE]
      <3>1. /\ bus'.finalizer = TRUE /\ bus'.exists = bus.exists /\ bus'.deleting = bus.deleting
            /\ bus'.spec = bus.spec
        BY <1>0, <2>2 DEF Buses
      <3> QED
        BY <2>1, <3>1, IdleFields DEF AgeInv
    <2>3. CASE ~work.copy.finalizer /\ bus' = Gone
      <3>1. work.pc = "save" /\ work.copy.finalizer # work.base.finalizer
        BY <1>5 DEF Update
      <3>2. work.base.deleting
        BY <2>3, <3>1 DEF AgeInv
      <3> QED
        BY <2>1, <2>3, <3>1, <3>2, IdleFields DEF AgeInv
    <2> QED
      BY <1>5, <2>2, <2>3 DEF Update
  <1>6. CASE StatusUpdate
    <2>1. /\ work' = Idle /\ UNCHANGED seen /\ bus = work.base /\ bus' = work.copy
          /\ work.pc = "save" /\ work.copy.finalizer = work.base.finalizer
      BY <1>6 DEF StatusUpdate
    <2> QED
      BY <1>0, <2>1, IdleFields DEF AgeInv
  <1>7. CASE SaveRefused \/ SaveFails
    <2>1. work' = Idle /\ UNCHANGED <<seen, bus>>
      BY <1>7 DEF SaveRefused, SaveFails
    <2> QED
      BY <2>1, IdleFields DEF AgeInv
  <1>8. CASE WatchBus
    <2>1. seen' = bus /\ UNCHANGED <<bus, work>>
      BY <1>8 DEF WatchBus
    <2> QED
      BY <1>0, <2>1 DEF AgeInv
  <1>9. CASE Crash
    <2>1. seen' = bus /\ work' = Idle /\ UNCHANGED bus
      BY <1>9 DEF Crash
    <2> QED
      BY <1>0, <2>1, IdleFields DEF AgeInv
  <1>10. CASE EditBus
    <2>1. PICK s \in Specs : s > bus.spec /\ bus' = [bus EXCEPT !.spec = s]
      BY <1>10 DEF EditBus
    <2>2. /\ bus'.finalizer = bus.finalizer /\ bus'.exists = bus.exists
          /\ bus'.deleting = bus.deleting /\ bus'.spec = s
      BY <1>0, <2>1 DEF Buses
    <2>3. UNCHANGED <<seen, work>> /\ s \in Nat
      BY <1>10, ConstantsAreNat DEF EditBus, Specs
    <2> QED
      BY <1>0, <2>1, <2>2, <2>3 DEF AgeInv
  <1>11. CASE DeleteBus
    <2>1. /\ bus'.finalizer = bus.finalizer /\ bus'.exists = bus.exists
          /\ bus'.deleting = TRUE /\ bus'.spec = bus.spec /\ bus.finalizer /\ bus.exists
      BY <1>0, <1>11 DEF DeleteBus, Buses
    <2>2. UNCHANGED <<seen, work>>
      BY <1>11 DEF DeleteBus
    <2> QED
      BY <1>0, <2>1, <2>2 DEF AgeInv
  <1> QED
    BY <1>1, <1>2, <1>3, <1>4, <1>5, <1>6, <1>7, <1>8, <1>9, <1>10, <1>11
       DEF Next, vars, busVars, BusStep, Watch, WatchObject, WatchUser, UserStep, ReconcileUser, WriteUser,
       WriteUserFails, CreateUser, EditUser, DeleteUser, Tamper

-----------------------------------------------------------------------------
(* The deletion of a bus                                                   *)

\* The calls that touch the claims, Install's StatefulSet and the end of Uninstall, and
\* what the lists of Uninstall leave on record.
LEMMA CallVolumes ==
    ASSUME TypeOK, TodoInv, OneCall \/ OneCallFails
    PROVE  work.pc = "uninstall" =>
             /\ raced' = raced \/ raced' = user.exists
             /\ volumes' => (volumes /\ (UNCHANGED overlooked \/ overlooked'))
             /\ work'.pc = "uninstall" =>
                 \/ /\ work.todo = <<"linked", "volumes">> /\ work'.todo = <<"volumes">>
                    /\ raced' = user.exists
                 \/ /\ work.todo = <<"volumes">> /\ work'.todo = <<>>
                    /\ UNCHANGED raced /\ (volumes' => overlooked')
  <1>0. work.todo \in Seq(Calls) /\ volumes \in BOOLEAN /\ user.exists \in BOOLEAN
    BY DEF TypeOK, Works, Users
  <1> SUFFICES ASSUME work.pc = "uninstall"
               PROVE  /\ raced' = raced \/ raced' = user.exists
                      /\ volumes' => (volumes /\ (UNCHANGED overlooked \/ overlooked'))
                      /\ work'.pc = "uninstall" =>
                          \/ /\ work.todo = <<"linked", "volumes">> /\ work'.todo = <<"volumes">>
                             /\ raced' = user.exists
                          \/ /\ work.todo = <<"volumes">> /\ work'.todo = <<>>
                             /\ UNCHANGED raced /\ (volumes' => overlooked')
    OBVIOUS
  <1>1. work.todo # <<>>
    BY CallFields
  <1>2. work.todo = <<"linked", "volumes">> \/ work.todo = <<"volumes">>
    BY <1>1 DEF TodoInv
  <1>3. Head(work.todo) = "linked" \/ Head(work.todo) = "volumes"
    BY <1>2
  <1>4. ASSUME NEW c, c = Head(work.todo), NEW list \in BOOLEAN, Effect(c, list)
        PROVE  \/ c = "linked" /\ UNCHANGED volumes
               \/ c = "volumes" /\ volumes' = (volumes /\ ~list)
    <2>1. c \notin DOMAIN SecretOf /\ c \notin {"configmap", "service", "statefulset"}
      BY <1>3, <1>4 DEF SecretOf
    <2> QED
      BY <1>4, <2>1 DEF Effect, uninstallPVCs
  <1>5. CASE OneCallFails
    <2>1. UNCHANGED <<raced, overlooked>> /\ Abandon
      BY <1>5 DEF OneCallFails, history
    <2>2. volumes' => volumes
      BY <1>4, <1>5 DEF OneCallFails
    <2>3. work'.pc = "save"
      BY <2>1, AbandonFields
    <2> QED
      BY <2>1, <2>2, <2>3
  <1>6. CASE OneCall
    <2> DEFINE c == Head(work.todo)
    <2>1. c # "secrets"
      BY <1>3
    <2>2. PICK list \in BOOLEAN :
             /\ IF accepted(c) THEN Effect(c, list) /\ Continue(Tail(work.todo))
                ELSE Abandon /\ UNCHANGED <<secrets, objects, volumes>>
             /\ Looks(c, list)
      BY <1>6, <2>1 DEF OneCall
    <2>3. CASE ~accepted(c)
      <3>1. UNCHANGED <<raced, overlooked>>
        BY <2>2, <2>3 DEF Looks
      <3>2. Abandon /\ UNCHANGED volumes
        BY <2>2, <2>3
      <3> QED
        BY <3>1, <3>2, AbandonFields
    <2>4. CASE accepted(c)
      <3>1. Effect(c, list) /\ Continue(Tail(work.todo))
        BY <2>2, <2>4
      <3>2. work'.todo = Tail(work.todo)
        <4>1. Tail(work.todo) \in Seq(Calls)
          BY <1>0, <1>1, TailSteps
        <4> QED
          BY <3>1, <4>1, ContinueFields
      <3>3. CASE work.todo = <<"linked", "volumes">>
        <4>1. c = "linked" /\ work'.todo = <<"volumes">>
          BY <3>2, <3>3
        <4>2. ~listed
          BY <2>4, <4>1 DEF accepted, linkedEventSources
        <4>3. raced' = user.exists /\ UNCHANGED overlooked
          BY <1>0, <2>2, <2>4, <4>1, <4>2 DEF Looks
        <4>4. UNCHANGED volumes
          BY <1>4, <3>1, <4>1
        <4> QED
          BY <3>3, <4>1, <4>3, <4>4
      <3>4. CASE work.todo = <<"volumes">>
        <4>1. c = "volumes" /\ work'.todo = <<>>
          BY <3>2, <3>4
        <4>2. UNCHANGED raced /\ overlooked' = (volumes /\ ~list)
          BY <2>2, <2>4, <4>1 DEF Looks
        <4>3. volumes' = (volumes /\ ~list)
          BY <1>4, <3>1, <4>1
        <4>4. volumes' => volumes /\ overlooked'
          BY <4>2, <4>3
        <4> QED
          BY <3>4, <4>1, <4>2, <4>4
      <3> QED
        BY <1>2, <3>3, <3>4
    <2> QED
      BY <2>3, <2>4
  <1> QED
    BY <1>5, <1>6

\* Only Uninstall, its end, the creation of an EventSource and the end of a bus matter here.
LEMMA ExistsSteps ==
    ASSUME TypeOK, [Next]_vars
    PROVE  /\ \/ CreateUser \/ OneCall
              \/ UNCHANGED raced /\ (user'.exists => user.exists)
           /\ UNCHANGED <<volumes, overlooked>> \/ OneCall \/ OneCallFails
  <1>1. CASE ReconcileUser \/ WriteUser \/ WriteUserFails \/ EditUser
    <2>1. UNCHANGED <<raced, overlooked, volumes>>
      BY <1>1 DEF ReconcileUser, WriteUser, WriteUserFails, EditUser, busVars, history
    <2> QED
      BY <1>1, <2>1, UserTypes
  <1>2. CASE DeleteUser
    <2>1. UNCHANGED <<raced, overlooked, volumes>> /\ user' = [NoUser EXCEPT !.status = "deleted"]
      BY <1>2 DEF DeleteUser, busVars, history
    <2> QED
      BY <2>1 DEF NoUser
  <1>3. CASE CreateUser
    BY <1>3 DEF CreateUser, busVars
  <1>4. CASE UNCHANGED <<user, raced>>
    BY <1>4 DEF Next, vars, busVars, history, BusStep, Reconcile, InstallReturns, Update,
       StatusUpdate, SaveRefused, SaveFails, Watch, WatchBus, WatchObject, WatchUser, Crash, UserStep,
       ReconcileUser, WriteUser, WriteUserFails, EditBus, DeleteBus, CreateUser, EditUser,
       DeleteUser, Tamper
  <1> QED
    BY <1>1, <1>2, <1>3, <1>4
       DEF Next, vars, busVars, userVars, history, BusStep, Reconcile, OneCall, OneCallFails,
       InstallReturns, Update, StatusUpdate, SaveRefused, SaveFails, Watch, WatchBus, WatchObject, WatchUser,
       Crash, UserStep, EditBus, DeleteBus, Tamper

\* Every step keeps what Uninstall found out.
LEMMA UninstallStep ==
    ASSUME TypeOK, TodoInv, AgeInv, UninstallInv, [Next]_vars
    PROVE  UninstallInv'
  <1> DEFINE Looked == work.pc = "uninstall" /\ ~Ahead("linked")
             Cleared == work.pc = "uninstall" /\ work.todo = <<>>
             Released == work.pc = "save" /\ ~work.copy.finalizer /\ work.base.finalizer
  <1>0. /\ Looked \/ Released => (user.exists => raced)
        /\ Cleared \/ Released => (volumes => overlooked)
    BY DEF UninstallInv
  <1>g. ASSUME /\ Looked' \/ Released' => (user'.exists => raced')
               /\ Cleared' \/ Released' => (volumes' => overlooked')
        PROVE  UninstallInv'
    BY <1>g DEF UninstallInv
  <1>1. CASE UNCHANGED work /\ CreateUser
    <2>1. Looked => raced'
      <3> SUFFICES ASSUME Looked PROVE Head(work.todo \o <<"return">>) # "linked"
        BY <1>1 DEF CreateUser
      <3>1. work.todo = <<"linked", "volumes">> => Ahead("linked")
        <4> SUFFICES ASSUME work.todo = <<"linked", "volumes">> PROVE Ahead("linked")
          OBVIOUS
        <4>1. work.todo[1] = "linked" /\ 1 \in 1 .. Len(work.todo)
          OBVIOUS
        <4> QED
          BY <4>1 DEF Ahead
      <3>2. work.todo = <<"volumes">> \/ work.todo = <<>>
        BY <3>1 DEF TodoInv
      <3> QED
        BY <3>2
    <2>2. Released => raced'
      <3>1. Released => work.base.deleting
        BY DEF AgeInv, TypeOK, Works, Buses
      <3> QED
        BY <1>1, <3>1 DEF CreateUser
    <2>3. UNCHANGED <<volumes, overlooked>>
      BY <1>1 DEF CreateUser, busVars
    <2> QED
      BY <1>0, <1>1, <1>g, <2>1, <2>2, <2>3 DEF Ahead
  <1>2. CASE UNCHANGED work /\ ~CreateUser /\ ~OneCall /\ ~OneCallFails
    BY <1>0, <1>2, <1>g, ExistsSteps DEF Ahead
  <1>3. CASE work' = Idle
    BY <1>3, <1>g, IdleFields
  <1>4. CASE Reconcile
    <2>1. CASE work'.pc = "uninstall" /\ work'.todo = <<"linked", "volumes">>
      <3>1. work'.todo[1] = "linked" /\ 1 \in 1 .. Len(work'.todo) /\ work'.todo # <<>>
        BY <2>1
      <3>2. Ahead("linked")'
        BY <3>1 DEF Ahead
      <3> QED
        BY <1>g, <2>1, <3>1, <3>2
    <2>2. CASE work' = Idle
      BY <1>3, <2>2
    <2>3. CASE work'.pc \in {"save", "install"} /\ work'.copy.finalizer = TRUE
      BY <1>g, <2>3
    <2> QED
      BY <1>4, <2>1, <2>2, <2>3, ReconcileFields
  <1>5. CASE OneCall \/ OneCallFails
    <2>1. CASE work'.pc = "save"
      <3>1. ~Released'
        <4>1. CASE work.pc = "install"
          BY <1>5, <4>1, CallFields DEF AgeInv
        <4>2. CASE work.pc = "uninstall"
          BY <1>5, <4>2, CallFields DEF AgeInv
        <4> QED
          BY <1>5, <4>1, <4>2, CallFields
      <3> QED
        BY <1>g, <2>1, <3>1
    <2>2. CASE work'.pc = work.pc /\ work.pc = "install"
      BY <1>g, <2>2
    <2>3. CASE work'.pc = work.pc /\ work.pc = "uninstall"
      <3>1. UNCHANGED user
        BY <1>5, CallFields
      <3>2. CASE /\ work.todo = <<"linked", "volumes">> /\ work'.todo = <<"volumes">>
                 /\ raced' = user.exists
        <4>1. ~Cleared' /\ ~Released'
          BY <2>3, <3>2
        <4> QED
          BY <1>g, <3>1, <3>2, <4>1
      <3>3. CASE /\ work.todo = <<"volumes">> /\ work'.todo = <<>>
                 /\ UNCHANGED raced /\ (volumes' => overlooked')
        <4>1. Looked
          BY <2>3, <3>3 DEF Ahead
        <4> QED
          BY <1>0, <1>g, <3>1, <3>3, <4>1
      <3> QED
        BY <1>5, <2>3, <3>2, <3>3, CallVolumes
    <2> QED
      BY <1>5, <2>1, <2>2, <2>3, CallFields
  <1>6. CASE InstallReturns
    <2>1. UNCHANGED <<user, raced, overlooked, volumes>> /\ work.todo = <<>>
      BY <1>6 DEF InstallReturns, userVars, history
    <2>2. CASE work.pc = "install"
      BY <1>6, <1>g, <2>2, ReturnsFields DEF AgeInv
    <2>3. CASE work.pc = "uninstall"
      <3>1. Looked /\ Cleared
        BY <2>1, <2>3 DEF Ahead
      <3> QED
        BY <1>0, <1>g, <2>1, <3>1
    <2> QED
      BY <1>6, <2>2, <2>3, ReturnsFields
  <1> QED
    BY <1>1, <1>2, <1>3, <1>4, <1>5, <1>6, WorkSteps

\* Every step keeps DeletedWhenUnused.
LEMMA DeletedStep ==
    ASSUME TypeOK, TodoInv, AgeInv, UninstallInv, DeletedWhenUnused, [Next]_vars
    PROVE  DeletedWhenUnused'
  <1> SUFFICES ASSUME ~bus'.exists PROVE (volumes' => overlooked') /\ (user'.exists => raced')
    BY DEF DeletedWhenUnused
  <1>1. CASE ~bus.exists
    <2>0. (volumes => overlooked) /\ (user.exists => raced)
      BY <1>1 DEF DeletedWhenUnused
    <2>1. CASE CreateUser
      <3>1. raced' /\ UNCHANGED <<volumes, overlooked>>
        BY <1>1, <2>1 DEF CreateUser, busVars
      <3> QED
        BY <2>0, <3>1
    <2>2. CASE OneCall \/ OneCallFails
      <3>1. work.pc = "uninstall"
        BY <1>1, <2>2, CallFields DEF AgeInv
      <3>2. UNCHANGED user
        BY <2>2, CallFields
      <3>3. /\ raced' = raced \/ raced' = user.exists
            /\ volumes' => (volumes /\ (UNCHANGED overlooked \/ overlooked'))
        BY <2>2, <3>1, CallVolumes
      <3> QED
        BY <2>0, <3>2, <3>3
    <2>3. CASE ~CreateUser /\ ~OneCall /\ ~OneCallFails
      BY <2>0, <2>3, ExistsSteps
    <2> QED
      BY <2>1, <2>2, <2>3
  <1>2. CASE bus.exists
    <2>0. bus \in Buses
      BY DEF TypeOK
    <2>1. Update \/ StatusUpdate
      <3>1. ~EditBus /\ ~DeleteBus
        BY <1>2, <2>0 DEF EditBus, DeleteBus, Buses
      <3> QED
        BY <1>2, <3>1 DEF Next, vars, busVars, BusStep, Reconcile, OneCall, OneCallFails,
           InstallReturns, SaveRefused, SaveFails, Watch, WatchBus, WatchObject, WatchUser, Crash, UserStep,
           ReconcileUser, WriteUser, WriteUserFails, CreateUser, EditUser, DeleteUser, Tamper
    <2>2. ~StatusUpdate
      BY DEF StatusUpdate, AgeInv
    <2>3. /\ work.pc = "save" /\ work.copy.finalizer # work.base.finalizer
          /\ UNCHANGED <<volumes, user, raced, overlooked>>
      BY <2>1, <2>2 DEF Update, userVars, history
    <2>4. ~work.copy.finalizer
      BY <1>2, <2>0, <2>1, <2>2 DEF Update, Buses
    <2>5. work.base.finalizer
      BY <2>3, <2>4 DEF TypeOK, Works, Buses
    <2> QED
      BY <2>3, <2>4, <2>5 DEF UninstallInv
  <1>3. bus.exists \in BOOLEAN
    BY DEF TypeOK, Buses
  <1> QED
    BY <1>1, <1>2

-----------------------------------------------------------------------------
(* A quiet controller                                                      *)

\* The calls of Install that write an object, and what an accepted one leaves.
LEMMA EffectObjects ==
    ASSUME TypeOK, TodoInv, NEW c \in Calls \ {"secrets"}, IsNext(c), accepted(c), Takes(c)
    PROVE  \/ c \notin Resources /\ UNCHANGED objects
           \/ /\ c \in Resources /\ work.pc = "install" /\ UNCHANGED secrets
              /\ \/ cached[c] = hash(c, work.copy.spec) /\ UNCHANGED objects
                 \/ /\ cached[c] # hash(c, work.copy.spec) /\ objects[c] = cached[c]
                    /\ objects' = [objects EXCEPT ![c] = hash(c, work.copy.spec)]
  <1>1. CASE c \in Resources
    <2>1. WriteObject(c)
      BY <1>1 DEF Effect, Takes, Resources, SecretOf, createConfigMap, createService, createStatefulSet
    <2>2. work.pc = "install"
      <3>1. work.pc \in {"install", "uninstall"} /\ work.todo # <<>>
        BY DEF IsNext, TypeOK
      <3>2. work.pc # "uninstall"
        <4> SUFFICES ASSUME work.pc = "uninstall" PROVE FALSE
          OBVIOUS
        <4>1. work.todo = <<"linked", "volumes">> \/ work.todo = <<"volumes">>
          BY <3>1 DEF TodoInv
        <4>2. c = "linked" \/ c = "volumes"
          BY <4>1 DEF IsNext
        <4> QED
          BY <1>1, <4>2 DEF Resources
      <3> QED
        BY <3>1, <3>2
    <2> QED
      BY <1>1, <2>1, <2>2 DEF WriteObject, accepted
  <1>2. CASE c \notin Resources
    BY <1>2 DEF Effect, Takes, Resources, WriteSecret, uninstallPVCs
  <1> QED
    BY <1>1, <1>2

\* Every call as one that changes the objects or not.
LEMMA CallObjects ==
    ASSUME TypeOK, TodoInv, OneCall \/ OneCallFails
    PROVE  \/ UNCHANGED objects
           \/ \E r \in Resources :
                 /\ work.pc = "install" /\ objects[r] = cached[r]
                 /\ cached[r] # hash(r, work.copy.spec)
                 /\ objects' = [objects EXCEPT ![r] = hash(r, work.copy.spec)]
  <1>1. ASSUME NEW c \in Calls \ {"secrets"}, IsNext(c), accepted(c), Takes(c)
        PROVE  \/ UNCHANGED objects
               \/ \E r \in Resources :
                     /\ work.pc = "install" /\ objects[r] = cached[r]
                     /\ cached[r] # hash(r, work.copy.spec)
                     /\ objects' = [objects EXCEPT ![r] = hash(r, work.copy.spec)]
    BY <1>1, EffectObjects
  <1>2. CASE OneCall
    BY <1>1, <1>2, CallSteps, GetSecretsFields
  <1>3. CASE OneCallFails
    <2>1. work.todo \in Seq(Calls) /\ work.todo # <<>>
      BY <1>3 DEF TypeOK, Works, OneCallFails
    <2>2. Head(work.todo) \in Calls /\ IsNext(Head(work.todo))
      BY <2>1, TailSteps DEF IsNext
    <2> QED
      BY <1>1, <1>3, <2>2 DEF OneCallFails, Takes
  <1> QED
    BY <1>2, <1>3

\* Every step keeps the objects no newer than the specification in the cache.
LEMMA ObjectsStep ==
    ASSUME TypeOK, TodoInv, AgeInv, ObjectsInv, [Next]_vars
    PROVE  ObjectsInv'
  <1>0. /\ objects \in [Resources -> 0 .. MaxSpec] /\ cached \in [Resources -> 0 .. MaxSpec]
        /\ bus \in Buses /\ seen \in Buses
        /\ bus.spec \in Nat /\ seen.spec \in Nat /\ work.base.spec \in Nat /\ work.copy.spec \in Specs
        /\ MaxSpec \in Nat
    BY ConstantsAreNat DEF TypeOK, Works, Buses, Specs
  <1>1. CASE /\ UNCHANGED <<objects, cached, seen>> /\ bus'.exists = bus.exists
             /\ work'.pc = "install" => work.pc = "install" /\ work'.copy.spec = work.copy.spec
    BY <1>1 DEF ObjectsInv
  <1>2. CASE Reconcile
    <2>1. UNCHANGED <<objects, cached, seen, bus>>
      BY <1>2 DEF Reconcile
    <2>2. work'.pc = "install" => seen.exists /\ work'.copy.spec = seen.spec
      BY <1>2, ReconcileFields, IdleFields
    <2> QED
      BY <2>1, <2>2 DEF ObjectsInv
  <1>3. CASE OneCall \/ OneCallFails
    <2>1. /\ UNCHANGED <<bus, seen, cached>>
          /\ work'.pc = "install" => work.pc = "install"
          /\ work'.copy.spec = work.copy.spec
      BY <1>3, CallFields
    <2>2. CASE UNCHANGED objects
      BY <1>1, <2>1, <2>2
    <2>3. ASSUME NEW r \in Resources,
                 work.pc = "install" /\ objects[r] = cached[r],
                 objects' = [objects EXCEPT ![r] = hash(r, work.copy.spec)]
          PROVE  ObjectsInv'
      <3>1. /\ bus.exists /\ work.copy.spec \in Nat /\ work.copy.spec = work.base.spec
            /\ seen.exists /\ work.base.spec <= seen.spec
        BY <1>0, <2>3 DEF AgeInv, Specs
      <3>2. objects'[r] = hash(r, work.copy.spec) /\ \A q \in Resources \ {r} : objects'[q] = objects[q]
        BY <1>0, <2>3
      <3>3. CASE r = "service"
        <4>1. objects'[r] = 1 /\ cached[r] \in {0, 1}
          BY <3>2, <3>3 DEF hash, ObjectsInv
        <4> QED
          BY <2>1, <3>1, <3>2, <3>3, <4>1 DEF ObjectsInv
      <3>4. CASE r # "service"
        <4>1. objects'[r] = work.copy.spec /\ cached[r] <= work.copy.spec
          BY <2>3, <3>2, <3>4 DEF hash, ObjectsInv
        <4> QED
          BY <1>0, <2>1, <3>1, <3>2, <3>4, <4>1 DEF ObjectsInv
      <3> QED
        BY <3>3, <3>4
    <2> QED
      BY <1>3, <2>2, <2>3, CallObjects
  <1>4. CASE Update
    <2>1. work'.pc = "idle" /\ UNCHANGED <<seen, cached>>
      BY <1>4, IdleFields DEF Update
    <2>2. CASE UNCHANGED objects /\ bus' = [bus EXCEPT !.finalizer = TRUE]
      <3>1. bus'.exists = bus.exists
        BY <1>0, <2>2 DEF Buses
      <3> QED
        BY <1>1, <2>1, <2>2, <3>1
    <2>3. CASE objects' = [r \in Resources |-> 0]
      <3>1. \A r \in Resources : objects'[r] = 0
        BY <2>3
      <3>2. seen.exists => seen.spec >= 0
        BY <1>0
      <3> QED
        BY <2>1, <3>1, <3>2 DEF ObjectsInv
    <2> QED
      BY <1>4, <2>2, <2>3 DEF Update
  <1>5. CASE StatusUpdate
    <2>1. work'.pc = "idle" /\ UNCHANGED <<objects, seen, cached>>
      BY <1>5, IdleFields DEF StatusUpdate
    <2>2. bus'.exists /\ bus.exists
      BY <1>5 DEF StatusUpdate, AgeInv
    <2> QED
      BY <2>1, <2>2 DEF ObjectsInv
  <1>6. CASE InstallReturns \/ SaveRefused \/ SaveFails
    <2>1. UNCHANGED <<objects, seen, cached, bus>>
      BY <1>6 DEF InstallReturns, SaveRefused, SaveFails
    <2>2. work'.pc # "install"
      BY <1>6, ReturnsFields, IdleFields DEF SaveRefused, SaveFails
    <2> QED
      BY <1>1, <2>1, <2>2
  <1>7. CASE WatchBus \/ Crash
    <2>1. seen' = bus /\ UNCHANGED <<objects, bus>> /\ (UNCHANGED cached \/ cached' = objects)
          /\ (UNCHANGED work \/ work' = Idle)
      BY <1>7 DEF WatchBus, Crash
    <2>2. \A r \in Resources : objects[r] \in Nat /\ cached[r] \in Nat
      BY <1>0
    <2>3. bus.exists => seen.exists /\ seen.spec <= bus.spec
      BY DEF AgeInv
    <2>4. CASE UNCHANGED cached
      BY <1>0, <2>1, <2>2, <2>3, <2>4, IdleFields DEF ObjectsInv
    <2>5. CASE cached' = objects
      BY <1>0, <2>1, <2>2, <2>3, <2>5, IdleFields DEF ObjectsInv
    <2> QED
      BY <2>1, <2>4, <2>5
  <1>8. ASSUME NEW r \in Resources, WatchObject(r)
        PROVE  ObjectsInv'
    <2>1. UNCHANGED <<objects, bus, seen, work>> /\ cached' = [cached EXCEPT ![r] = objects[r]]
      BY <1>8 DEF WatchObject
    <2>2. cached'[r] = objects[r] /\ \A q \in Resources \ {r} : cached'[q] = cached[q]
      BY <1>0, <2>1
    <2>3. objects[r] \in Nat
      BY <1>0
    <2> QED
      BY <2>1, <2>2, <2>3 DEF ObjectsInv
  <1>9. CASE EditBus \/ DeleteBus
    <2>1. UNCHANGED <<objects, cached, seen, work>>
      BY <1>9 DEF EditBus, DeleteBus
    <2>2. bus'.exists = bus.exists
      BY <1>0, <1>9 DEF EditBus, DeleteBus, Buses
    <2> QED
      BY <1>1, <2>1, <2>2
  <1>10. CASE Tamper
    <2>1. UNCHANGED <<cached, seen, bus, work>>
      BY <1>10 DEF Tamper
    <2>2. CASE UNCHANGED objects
      BY <1>1, <2>1, <2>2
    <2>3. ASSUME NEW r \in Resources, objects' = [objects EXCEPT ![r] = 0]
          PROVE  ObjectsInv'
      <3>1. objects'[r] = 0 /\ \A q \in Resources \ {r} : objects'[q] = objects[q]
        BY <1>0, <2>3
      <3>2. 0 <= seen.spec /\ 0 <= work.copy.spec
        BY <1>0 DEF Specs
      <3> QED
        BY <2>1, <3>1, <3>2 DEF ObjectsInv
    <2> QED
      BY <1>10, <2>2, <2>3 DEF Tamper
  <1>11. CASE UNCHANGED busVars
    BY <1>1, <1>11 DEF busVars
  <1> QED
    BY <1>2, <1>3, <1>4, <1>5, <1>6, <1>7, <1>8, <1>9, <1>10, <1>11
       DEF Next, vars, BusStep, Watch, WatchUser, UserStep, ReconcileUser, WriteUser,
       WriteUserFails, CreateUser, EditUser, DeleteUser

\* Deleting an object that the cache has, or updating the cache, leaves it as specified or
\* queues a request.
LEMMA WrittenWatch ==
    ASSUME TypeOK, NEW q \in Resources, NEW spec \in Specs, queued \/ Written(q, spec),
           Tamper \/ \E r \in Resources : WatchObject(r)
    PROVE  queued' \/ Written(q, spec)'
  <1>0. /\ objects \in [Resources -> 0 .. MaxSpec] /\ cached \in [Resources -> 0 .. MaxSpec]
        /\ hash(q, spec) # 0
    BY ConstantsAreNat DEF TypeOK, hash, Specs
  <1>1. CASE Tamper
    <2>1. UNCHANGED <<cached, queued>>
      BY <1>1 DEF Tamper
    <2>2. CASE UNCHANGED objects
      BY <2>1, <2>2 DEF Written
    <2>3. ASSUME NEW r \in Resources, cached[r] = objects[r], objects[r] # 0,
                 objects' = [objects EXCEPT ![r] = 0]
          PROVE  queued' \/ Written(q, spec)'
      <3>1. CASE q = r
        <4>1. objects'[q] = 0 /\ cached'[q] # 0
          BY <1>0, <2>1, <2>3, <3>1
        <4> QED
          BY <4>1 DEF Written
      <3>2. CASE q # r
        <4>1. objects'[q] = objects[q]
          BY <1>0, <2>3, <3>2
        <4> QED
          BY <2>1, <4>1 DEF Written
      <3> QED
        BY <3>1, <3>2
    <2> QED
      BY <1>1, <2>2, <2>3 DEF Tamper
  <1>2. ASSUME NEW r \in Resources, WatchObject(r)
        PROVE  queued' \/ Written(q, spec)'
    <2>1. /\ UNCHANGED objects /\ cached' = [cached EXCEPT ![r] = objects[r]]
          /\ queued' = (queued \/ r # "configmap" \/ 0 \in {cached[r], objects[r]})
      BY <1>2 DEF WatchObject
    <2>2. CASE q = r
      <3>1. CASE objects[q] = hash(q, spec)
        BY <2>1, <3>1 DEF Written
      <3>2. CASE objects[q] # hash(q, spec)
        BY <2>1, <2>2, <3>2 DEF Written
      <3> QED
        BY <3>1, <3>2
    <2>3. CASE q # r
      <3>1. cached'[q] = cached[q]
        BY <1>0, <2>1, <2>3
      <3> QED
        BY <2>1, <3>1 DEF Written
    <2> QED
      BY <2>2, <2>3
  <1> QED
    BY <1>1, <1>2

\* An Install call that is accepted leaves its object as specified, or its watch will queue a
\* request: a cache that has the specification's hash can only be behind a deletion.
LEMMA CallWrites ==
    ASSUME TypeOK, TodoInv, AgeInv, ObjectsInv, UNCHANGED cached,
           NEW c \in Resources, IsNext(c), accepted(c), Takes(c)
    PROVE  /\ \/ objects'[c] = hash(c, work.copy.spec)
              \/ cached'[c] # objects'[c] /\ 0 \in {cached'[c], objects'[c]}
           /\ \A q \in Resources \ {c} : objects'[q] = objects[q]
  <1>0. /\ objects \in [Resources -> 0 .. MaxSpec] /\ cached \in [Resources -> 0 .. MaxSpec]
        /\ work.copy.spec \in Specs /\ MaxSpec \in Nat
        /\ hash(c, work.copy.spec) # 0
    BY ConstantsAreNat DEF TypeOK, Works, Buses, hash, Specs
  <1>1. c \in Calls \ {"secrets"}
    BY DEF Calls, Resources
  <1>2. CASE objects' = [objects EXCEPT ![c] = hash(c, work.copy.spec)]
    BY <1>0, <1>2
  <1>3. CASE work.pc = "install" /\ cached[c] = hash(c, work.copy.spec) /\ UNCHANGED objects
    <2>1. objects[c] = 0 \/ objects[c] = hash(c, work.copy.spec)
      <3>1. CASE c = "service"
        BY <1>3, <3>1 DEF ObjectsInv, hash
      <3>2. CASE c # "service"
        BY <1>0, <1>3, <3>2 DEF ObjectsInv, hash, Specs
      <3> QED
        BY <3>1, <3>2
    <2> QED
      BY <1>0, <1>3, <2>1
  <1> QED
    BY <1>1, <1>2, <1>3, EffectObjects

\* A call of Install that succeeds leaves its object done.
LEMMA InstallObjects ==
    ASSUME TypeOK, TodoInv, AgeInv, ObjectsInv, ObjectsDone, OneCall, work'.pc = "install"
    PROVE  ObjectsDone'
  <1>0. /\ UNCHANGED <<cached, queued>> /\ work'.copy.spec = work.copy.spec
        /\ work.todo \in Seq(Calls) /\ work.todo # <<>>
    BY CallFields DEF TypeOK, Works
  <1> SUFFICES ASSUME NEW r \in Resources
               PROVE  Ahead(r)' \/ queued' \/ Written(r, work.copy.spec)'
    BY DEF ObjectsDone
  <1>1. CASE IsNext("secrets") /\ GetSecrets
    <2>1. UNCHANGED objects
      BY <1>1 DEF GetSecrets
    <2>2. Ahead(r) => Ahead(r)'
      BY <1>1, PlanAhead DEF Resources
    <2> QED
      BY <1>0, <2>1, <2>2 DEF ObjectsDone, Written
  <1>2. ASSUME NEW c \in Calls \ {"secrets"}, IsNext(c), accepted(c), Takes(c),
               Continue(Tail(work.todo))
        PROVE  Ahead(r)' \/ queued' \/ Written(r, work.copy.spec)'
    <2>1. work'.todo = Tail(work.todo)
      BY <1>0, <1>2, TailSteps, ContinueFields
    <2>2. CASE r = c
      <3>1. \/ objects'[r] = hash(r, work'.copy.spec)
            \/ cached'[r] # objects'[r] /\ 0 \in {cached'[r], objects'[r]}
        BY <1>0, <1>2, <2>2, CallWrites
      <3> QED
        BY <3>1 DEF Written
    <2>3. CASE r # c
      <3>1. Ahead(r) => Ahead(r)'
        <4>1. ~IsNext(r)
          BY <1>2, <2>3 DEF IsNext
        <4> QED
          BY <1>0, <2>1, <4>1, TailAhead
      <3>2. objects'[r] = objects[r]
        BY <1>0, <1>2, <2>3, CallWrites, EffectObjects
      <3> QED
        BY <1>0, <3>1, <3>2 DEF ObjectsDone, Written
    <2> QED
      BY <2>2, <2>3
  <1>3. ~Abandon
    BY AbandonFields
  <1> QED
    BY <1>1, <1>2, <1>3, CallSteps

\* A call of Install that succeeds leaves both Secrets, or the call that makes the last one
\* is still ahead.
LEMMA InstallSecrets ==
    ASSUME TypeOK, TodoInv, CredentialsInv, SecretsDone, ~tampered, OneCall,
           work'.pc = "install"
    PROVE  SecretsDone'
  <1>0. work.todo \in Seq(Calls) /\ work.todo # <<>> /\ work.token # 0
    BY CallFields DEF TypeOK, Works, Tokens
  <1>1. CASE IsNext("secrets") /\ GetSecrets
    <2>1. UNCHANGED secrets
      BY <1>1 DEF GetSecrets
    <2>2. CASE secrets.server = 0 \/ secrets.client = 0
      BY <1>1, <2>2, PlanAhead DEF SecretsDone
    <2>3. CASE secrets.server # 0 /\ secrets.client # 0
      <3>1. ~IsNext("deleteServer")' /\ ~IsNext("deleteClient")'
        <4>1. secrets \in Credentials /\ createSecrets(secrets) = <<>>
          BY <2>3, SecretsPlan DEF TypeOK, createSecrets, jetStreamSecrets, natsSecrets
        <4>2. work'.todo = Tail(work.todo)
          <5>1. work'.todo = createSecrets(secrets) \o Tail(work.todo)
            BY <1>1, GetSecretsFields
          <5>2. Tail(work.todo) \in Seq(Calls)
            BY <1>0, TailSteps
          <5> QED
            BY <4>1, <5>1, <5>2
        <4>3. \A e \in {"deleteServer", "deleteClient"} : IsNext(e)' => "secrets" \in Before(e)
          BY <1>1, <4>2, NextAfter DEF SecretCalls, Calls
        <4> QED
          BY <4>3 DEF Before, ToServer, ToClient
      <3> QED
        BY <2>1, <2>3, <3>1 DEF SecretsDone
    <2> QED
      BY <2>2, <2>3
  <1>2. ASSUME NEW c \in Calls \ {"secrets"}, IsNext(c), Takes(c), Continue(Tail(work.todo))
        PROVE  SecretsDone'
    <2>1. work'.todo = Tail(work.todo)
      BY <1>0, <1>2, TailSteps, ContinueFields
    <2>2. ~IsNext("deleteServer")' /\ ~IsNext("deleteClient")'
      <3>1. \A e \in {"deleteServer", "deleteClient"} : IsNext(e)' => c \in Before(e)
        BY <1>2, <2>1, NextAfter DEF SecretCalls
      <3> QED
        BY <3>1 DEF Before, ToServer, ToClient
    <2>3. c \in SecretCalls => WriteSecret(c)
      BY <1>2 DEF Effect, Takes, SecretCalls, ToServer, ToClient
    <2>4. c \notin SecretCalls => UNCHANGED secrets
      BY <1>2, SecretCallsDef DEF Effect, Takes, createConfigMap, createService, createStatefulSet,
         WriteObject, uninstallPVCs
    <2>5. CASE c \in ToClient
      <3>1. secrets'.client = work.token /\ secrets'.server = secrets.server
        BY <2>3, <2>5, SecretWritten DEF SecretCalls
      <3>2. secrets.server = work.token
        BY <1>2, <2>5 DEF CredentialsInv
      <3> QED
        BY <1>0, <2>2, <3>1, <3>2 DEF SecretsDone
    <2>6. CASE c \notin ToClient /\ \E e \in ToClient \cup {"secrets"} : Ahead(e)
      <3>1. PICK e \in ToClient \cup {"secrets"} : Ahead(e)
        BY <2>6
      <3>2. ~IsNext(e)
        BY <1>2, <2>6 DEF IsNext
      <3>3. Ahead(e)'
        BY <1>0, <2>1, <3>1, <3>2, TailAhead
      <3> QED
        BY <3>3 DEF SecretsDone
    <2>7. CASE /\ c \notin ToClient /\ 0 \notin {secrets.server, secrets.client}
               /\ ~IsNext("deleteServer") /\ ~IsNext("deleteClient")
      <3>1. c \notin {"deleteServer", "deleteClient"}
        BY <1>2, <2>7
      <3>2. 0 \notin {secrets'.server, secrets'.client}
        <4>1. CASE c \in ToServer
          BY <1>0, <2>3, <2>7, <4>1, SecretWritten DEF SecretCalls
        <4>2. CASE c \notin SecretCalls
          BY <2>4, <2>7, <4>2
        <4> QED
          BY <2>7, <3>1, <4>1, <4>2 DEF SecretCalls
      <3> QED
        BY <2>2, <3>2 DEF SecretsDone
    <2> QED
      BY <2>5, <2>6, <2>7 DEF SecretsDone
  <1>3. ~Abandon
    BY AbandonFields
  <1> QED
    BY <1>1, <1>2, <1>3, CallSteps

\* Steps of others leave what an Install under way has done.
LEMMA InstallWatched ==
    ASSUME TypeOK, InstallInv, UNCHANGED <<work, kind>>,
           \/ UNCHANGED <<objects, cached, secrets, tampered>> /\ (queued => queued')
           \/ Tamper
           \/ \E r \in Resources : WatchObject(r)
    PROVE  InstallInv'
  <1>0. work.copy.spec \in Specs
    BY DEF TypeOK, Works, Buses
  <1>1. UNCHANGED busConfig(work.copy.spec)
    BY DEF busConfig
  <1>2. \A r \in Resources : UNCHANGED Ahead(r)
    BY DEF Ahead
  <1>3. ASSUME ObjectsDone PROVE ObjectsDone'
    <2> SUFFICES ASSUME NEW r \in Resources, ~Ahead(r)
                 PROVE  queued' \/ Written(r, work.copy.spec)'
      BY <1>2 DEF ObjectsDone
    <2>1. queued \/ Written(r, work.copy.spec)
      BY <1>3 DEF ObjectsDone
    <2>2. CASE UNCHANGED <<objects, cached>> /\ (queued => queued')
      BY <2>1, <2>2 DEF Written
    <2>3. CASE Tamper \/ \E q \in Resources : WatchObject(q)
      <3> DEFINE spec == work.copy.spec
      <3>1. spec \in Specs /\ spec' = spec
        BY <1>0
      <3>2. queued' \/ objects'[r] = hash(r, spec)
            \/ (cached'[r] # objects'[r] /\ (r # "configmap" \/ 0 \in {cached'[r], objects'[r]}))
        <4> HIDE DEF spec
        <4>1. queued \/ Written(r, spec)
          BY <2>1 DEF spec
        <4> QED
          BY <2>3, <3>1, <4>1, WrittenWatch DEF Written
      <3> QED
        BY <3>1, <3>2 DEF Written
    <2> QED
      BY <2>2, <2>3
  <1>4. ASSUME SecretsDone, ~tampered' PROVE SecretsDone' /\ ~tampered
    <2>1. UNCHANGED <<secrets, tampered>>
      BY <1>4 DEF Tamper, WatchObject, history
    <2> QED
      BY <1>4, <2>1 DEF SecretsDone, Ahead, IsNext
  <1>5. ~tampered' => ~tampered
    BY DEF Tamper, WatchObject, history
  <1> QED
    BY <1>1, <1>3, <1>4, <1>5 DEF InstallInv, Installing, Native

\* Every step keeps InstallInv.
LEMMA InstallStep ==
    ASSUME TypeOK, TodoInv, CredentialsInv, AgeInv, ObjectsInv, InstallInv, [Next]_vars
    PROVE  InstallInv'
  <1>1. ASSUME work' = Idle PROVE InstallInv'
    BY <1>1, IdleFields DEF InstallInv, Installing
  <1>2. CASE Reconcile
    <2>1. CASE work' = Idle
      BY <1>1, <2>1
    <2>2. CASE work'.pc = "uninstall" \/ (work'.pc = "save" /\ work'.err = TRUE)
      BY <2>2 DEF InstallInv, Installing
    <2>3. CASE work'.pc = "install" /\ work'.todo = calls
      <3>0. UNCHANGED kind
        BY <1>2 DEF Reconcile
      <3>1. Native => /\ \A r \in Resources \cup {"secrets"} : Ahead(r)'
        <4> SUFFICES ASSUME Native, NEW r \in Resources \cup {"secrets"} PROVE Ahead(r)'
          OBVIOUS
        <4>1. CASE calls = <<"secrets", "configmap", "service", "statefulset">>
          <5>1. /\ Len(work'.todo) = 4 /\ work'.todo[1] = "secrets" /\ work'.todo[2] = "configmap"
                /\ work'.todo[3] = "service" /\ work'.todo[4] = "statefulset"
            BY <2>3, <4>1
          <5>2. \E i \in 1 .. 4 : work'.todo[i] = r
            BY <5>1 DEF Resources
          <5> QED
            BY <5>1, <5>2 DEF Ahead
        <4>2. CASE calls = <<"service", "configmap", "secrets", "statefulset">>
          <5>1. /\ Len(work'.todo) = 4 /\ work'.todo[1] = "service" /\ work'.todo[2] = "configmap"
                /\ work'.todo[3] = "secrets" /\ work'.todo[4] = "statefulset"
            BY <2>3, <4>2
          <5>2. \E i \in 1 .. 4 : work'.todo[i] = r
            BY <5>1 DEF Resources
          <5> QED
            BY <5>1, <5>2 DEF Ahead
        <4> QED
          BY <4>1, <4>2, FirstCalls
      <3>2. Native' => ObjectsDone' /\ SecretsDone'
        BY <3>0, <3>1 DEF ObjectsDone, SecretsDone, Native
      <3> QED
        BY <2>3, <3>2 DEF InstallInv, Installing
    <2> QED
      BY <1>2, <2>1, <2>2, <2>3, ReconcileFields
  <1>3. CASE OneCall \/ OneCallFails
    <2>1. CASE work'.pc = "save" /\ work'.err
      BY <2>1 DEF InstallInv, Installing
    <2>2. CASE work'.pc = work.pc /\ work.pc = "uninstall"
      BY <2>2 DEF InstallInv, Installing
    <2>3. CASE work'.pc = work.pc /\ work.pc = "install"
      <3>1. OneCall
        BY <1>3, <2>3, AbandonFields DEF OneCallFails
      <3>2. UNCHANGED <<kind, tampered>> /\ work'.base = work.base /\ work'.err = work.err
            /\ ~work.err
        BY <1>3, <2>3, CallFields
      <3>3. Installing /\ work'.pc # "save"
        BY <2>3, <3>2 DEF Installing, AgeInv
      <3>4. Native => ObjectsDone'
        BY <2>3, <3>1, <3>3, InstallObjects DEF InstallInv
      <3>5. Native /\ ~tampered => SecretsDone'
        BY <2>3, <3>1, <3>3, InstallSecrets DEF InstallInv
      <3> QED
        BY <3>2, <3>3, <3>4, <3>5 DEF InstallInv, Native
    <2> QED
      BY <1>3, <2>1, <2>2, <2>3, CallFields
  <1>4. CASE InstallReturns
    <2>0. /\ UNCHANGED <<kind, objects, cached, queued, secrets, tampered>>
          /\ work.todo = <<>> /\ work'.todo = <<>>
      BY <1>4, ReturnsFields DEF InstallReturns, history
    <2>1. CASE work.pc = "uninstall"
      BY <1>4, <2>1, ReturnsFields DEF InstallInv, Installing, AgeInv
    <2>2. CASE work.pc = "install"
      <3>1. Installing /\ ~work.base.deleting /\ work'.base = work.base /\ work.copy.spec \notin Invalid
        BY <1>4, <2>2, ReturnsFields DEF Installing, AgeInv, TypeOK
      <3>2. /\ work'.copy.spec = work.copy.spec /\ work'.copy.status = "deployed"
            /\ work'.copy.config = busConfig(work.copy.spec)' /\ work'.pc = "save"
        BY <1>4, <2>0, <2>2, ReturnsFields DEF busConfig
      <3>3. ObjectsDone => ObjectsDone'
        BY <2>0, <3>2 DEF ObjectsDone, Ahead, Written
      <3>4. SecretsDone => SecretsDone'
        BY <2>0 DEF SecretsDone, Ahead, IsNext
      <3> QED
        BY <2>0, <3>1, <3>2, <3>3, <3>4 DEF InstallInv, Native
    <2> QED
      BY <1>4, <2>1, <2>2, ReturnsFields
  <1>5. CASE \/ EditBus \/ DeleteBus \/ CreateUser \/ EditUser \/ DeleteUser \/ UserStep
             \/ WriteUserFails \/ WatchBus \/ WatchUser \/ UNCHANGED vars
    <2>1. UNCHANGED <<work, kind, objects, cached, secrets, tampered>>
      BY <1>5 DEF EditBus, DeleteBus, CreateUser, EditUser, DeleteUser, UserStep, ReconcileUser,
         WriteUser, WriteUserFails, WatchBus, WatchUser, vars, busVars, history
    <2>2. queued => queued'
      <3>1. CASE WatchBus
        BY <3>1 DEF WatchBus
      <3>2. CASE UNCHANGED queued
        BY <3>2
      <3> QED
        BY <1>5, <3>1, <3>2 DEF EditBus, DeleteBus, CreateUser, EditUser, DeleteUser, UserStep,
           ReconcileUser, WriteUser, WriteUserFails, WatchUser, vars, busVars
    <2> QED
      BY <2>1, <2>2, InstallWatched
  <1>6. CASE Tamper \/ \E r \in Resources : WatchObject(r)
    <2>1. UNCHANGED <<work, kind>>
      BY <1>6 DEF Tamper, WatchObject
    <2> QED
      BY <1>6, <2>1, InstallWatched
  <1>7. CASE Update \/ StatusUpdate \/ SaveRefused \/ SaveFails \/ Crash
    BY <1>1, <1>7 DEF Update, StatusUpdate, SaveRefused, SaveFails, Crash
  <1> QED
    BY <1>2, <1>3, <1>4, <1>5, <1>6, <1>7 DEF Next, BusStep, Watch

\* Every step keeps QuietInv.
LEMMA QuietStep ==
    ASSUME TypeOK, AgeInv, InstallInv, QuietInv, [Next]_vars
    PROVE  QuietInv'
  <1> SUFFICES ASSUME Quiet'
               PROVE  /\ ~bus'.deleting /\ bus'.spec \notin Invalid
                      /\ bus'.status = "deployed" /\ bus'.config = busConfig(bus.spec)'
                      /\ Native' => \A r \in Resources : Written(r, bus.spec)'
                      /\ Native' /\ ~tampered' => 0 \notin {secrets'.server, secrets'.client}
    BY DEF QuietInv
  <1>0. /\ bus \in Buses /\ seen \in Buses /\ bus.spec \in Nat /\ seen.spec \in Nat
        /\ bus.spec \in Specs
        /\ queued \in BOOLEAN /\ work.pc \in {"idle", "install", "uninstall", "save"}
    BY ConstantsAreNat DEF TypeOK, Works, Buses, Specs
  <1>q. /\ work'.pc = "idle" /\ ~queued' /\ bus'.exists
        /\ seen'.spec = bus'.spec /\ seen'.deleting = bus'.deleting /\ seen'.exists = bus'.exists
    BY DEF Quiet
  <1>1. ASSUME UNCHANGED <<kind, bus, objects, cached, secrets, tampered>>, Quiet
        PROVE  /\ ~bus'.deleting /\ bus'.spec \notin Invalid
               /\ bus'.status = "deployed" /\ bus'.config = busConfig(bus.spec)'
               /\ Native' => \A r \in Resources : Written(r, bus.spec)'
               /\ Native' /\ ~tampered' => 0 \notin {secrets'.server, secrets'.client}
    BY <1>1 DEF QuietInv, Native, busConfig, Written
  <1>2. ~Reconcile
    <2> SUFFICES ASSUME Reconcile PROVE FALSE
      OBVIOUS
    <2>1. ~seen.exists /\ UNCHANGED bus
      BY <1>q, ReconcileFields DEF Reconcile
    <2> QED
      BY <1>q, <2>1 DEF AgeInv
  <1>3. ~OneCall /\ ~OneCallFails /\ ~InstallReturns
    BY <1>q, CallFields, ReturnsFields
  <1>4. ~Update /\ ~SaveRefused /\ ~SaveFails
    BY <1>q DEF Update, SaveRefused, SaveFails
  <1>5. ~Crash
    BY <1>q DEF Crash
  <1>6. ~EditBus
    <2> SUFFICES ASSUME EditBus PROVE FALSE
      OBVIOUS
    <2>1. PICK s \in Specs : s > bus.spec /\ bus' = [bus EXCEPT !.spec = s]
      BY DEF EditBus
    <2>2. seen'.spec = s /\ UNCHANGED seen /\ s \in Nat /\ bus.exists
      BY <1>0, <1>q, <2>1, ConstantsAreNat DEF EditBus, Buses, Specs
    <2> QED
      BY <1>0, <2>1, <2>2 DEF AgeInv
  <1>7. ~DeleteBus
    <2> SUFFICES ASSUME DeleteBus PROVE FALSE
      OBVIOUS
    <2>1. bus'.deleting = TRUE /\ UNCHANGED seen /\ bus.exists /\ ~bus.deleting
      BY <1>0 DEF DeleteBus, Buses
    <2> QED
      BY <1>q, <2>1 DEF AgeInv
  <1>8. CASE StatusUpdate
    <2>1. /\ work.pc = "save" /\ work.copy.finalizer = work.base.finalizer /\ bus' = work.copy
          /\ UNCHANGED <<kind, objects, cached, secrets, tampered>>
      BY <1>8 DEF StatusUpdate, history
    <2>2. ~queued /\ ~work.err
      BY <1>8, <1>q DEF StatusUpdate
    <2>3. ~work.base.deleting
      BY <2>1, <2>2 DEF InstallInv, AgeInv
    <2>4. Installing /\ work.todo = <<>> /\ work.copy.deleting = work.base.deleting
      BY <2>1, <2>2, <2>3 DEF Installing, TypeOK, AgeInv
    <2>5. Native => \A r \in Resources : Written(r, work.copy.spec)
      BY <2>2, <2>4 DEF InstallInv, ObjectsDone, Ahead
    <2>6. Native /\ ~tampered => 0 \notin {secrets.server, secrets.client}
      BY <2>4 DEF InstallInv, SecretsDone, Ahead
    <2>7. bus'.status = "deployed" /\ bus'.config = busConfig(bus.spec)' /\ bus'.spec \notin Invalid
      BY <2>1, <2>4 DEF InstallInv, busConfig
    <2> QED
      BY <2>1, <2>3, <2>4, <2>5, <2>6, <2>7 DEF Written, Native
  <1>9. CASE WatchBus
    <2>1. /\ UNCHANGED <<kind, bus, objects, cached, secrets, tampered, work>> /\ ~queued
          /\ seen.spec = bus.spec /\ seen.deleting = bus.deleting /\ seen.exists = bus.exists
      BY <1>9, <1>q DEF WatchBus, history
    <2>2. Quiet
      BY <1>q, <2>1 DEF Quiet
    <2> QED
      BY <1>1, <2>1, <2>2
  <1>10. CASE Tamper \/ \E r \in Resources : WatchObject(r)
    <2>1. UNCHANGED <<kind, bus, seen, work>>
      BY <1>10 DEF Tamper, WatchObject
    <2>2. ~queued
      BY <1>10, <1>q DEF Tamper, WatchObject
    <2>3. Quiet
      BY <1>q, <2>1, <2>2 DEF Quiet
    <2>4. Native => \A r \in Resources : Written(r, bus.spec)'
      <3> SUFFICES ASSUME Native, NEW r \in Resources PROVE Written(r, bus.spec)'
        OBVIOUS
      <3> DEFINE spec == bus.spec
      <3>1. spec \in Specs /\ spec' = spec
        BY <1>0, <2>1
      <3>2. Written(r, spec)
        BY <2>3 DEF QuietInv
      <3>3. \/ objects'[r] = hash(r, spec)
            \/ cached'[r] # objects'[r] /\ (r # "configmap" \/ 0 \in {cached'[r], objects'[r]})
        <4> HIDE DEF spec
        <4> QED
          BY <1>10, <1>q, <3>1, <3>2, WrittenWatch DEF Written
      <3> QED
        BY <3>1, <3>3 DEF Written
    <2>5. ~tampered' => UNCHANGED <<secrets, tampered>>
      BY <1>10 DEF Tamper, WatchObject, history
    <2> QED
      BY <2>1, <2>3, <2>4, <2>5 DEF QuietInv, Native, busConfig
  <1>11. CASE \/ UserStep \/ WriteUserFails \/ CreateUser \/ EditUser \/ DeleteUser \/ WatchUser
              \/ UNCHANGED vars
    <2>1. UNCHANGED <<kind, busVars, tampered>>
      BY <1>11 DEF UserStep, ReconcileUser, WriteUser, WriteUserFails, CreateUser, EditUser,
         DeleteUser, WatchUser, vars, history
    <2>2. Quiet
      BY <1>q, <2>1 DEF Quiet, busVars
    <2> QED
      BY <1>1, <2>1, <2>2 DEF busVars
  <1> QED
    BY <1>2, <1>3, <1>4, <1>5, <1>6, <1>7, <1>8, <1>9, <1>10, <1>11 DEF Next, BusStep, Watch

-----------------------------------------------------------------------------
(* The theorems                                                            *)

\* What a reconcile has done so far, and what it knows.
ControllerInv ==
    /\ TypeOK /\ TodoInv /\ CredentialsInv
    /\ AgeInv /\ UninstallInv /\ DeletedWhenUnused
    /\ ObjectsInv /\ InstallInv /\ QuietInv

\* The inductive invariant holds at first.
LEMMA InvInit == Init => ControllerInv
  <1> SUFFICES ASSUME Init PROVE ControllerInv
    OBVIOUS
  <1>1. work = Idle /\ work.pc = "idle" /\ work.todo = <<>> /\ work.base = Gone
    BY IdleFields DEF Init
  <1>2. bus = [Gone EXCEPT !.exists = TRUE] /\ seen = bus
    BY DEF Init
  <1>3. bus.exists = TRUE /\ bus.deleting = FALSE /\ bus.spec \in Nat
    BY <1>2 DEF Gone
  <1>4. TypeOK
    BY TypeInit
  <1>5. TodoInv
    BY <1>1 DEF TodoInv, Ahead
  <1>6. secrets.server = 0 /\ secrets.client = 0
    BY DEF Init, Idle
  <1>7. CredentialsInv
    BY <1>1, <1>6 DEF CredentialsInv, CredentialsMatch, IsNext
  <1>8. AgeInv
    BY <1>1, <1>2, <1>3, IdleFields DEF AgeInv
  <1>9. UninstallInv /\ DeletedWhenUnused
    BY <1>1, <1>3 DEF UninstallInv, DeletedWhenUnused
  <1>10. \A r \in Resources : objects[r] = 0 /\ cached[r] = 0
    BY DEF Init
  <1>11. ObjectsInv
    BY <1>1, <1>2, <1>3, <1>10 DEF ObjectsInv
  <1>12. InstallInv /\ QuietInv
    BY <1>1 DEF Init, InstallInv, Installing, QuietInv, Quiet
  <1> QED
    BY <1>4, <1>5, <1>7, <1>8, <1>9, <1>11, <1>12 DEF ControllerInv

\* Every step preserves the inductive invariant.
LEMMA InvStep == ControllerInv /\ [Next]_vars => ControllerInv'
  BY TypeStep, TodoStep, CredentialsStep, AgeStep, UninstallStep, DeletedStep,
     ObjectsStep, InstallStep, QuietStep
     DEF ControllerInv

\* The object, its cached copy, the Secrets and the lists of calls that the reconciles build
\* are of their types in every reachable state.
THEOREM TypeCorrect == Spec => []TypeOK
  <1>1. ControllerInv => TypeOK
    BY DEF ControllerInv
  <1> QED
    BY <1>1, InvInit, InvStep, PTL DEF Spec

\* createSecrets (JetStream) and createAuthSecrets (NATS): the server and its clients have the
\* same credentials whenever both have some, wherever a call failed, its answer was lost or the
\* controller crashed, for any number of specifications, edits and faults.
THEOREM CredentialsAgree == Spec => []CredentialsMatch
  <1>1. ControllerInv /\ (kind = "jetstream" \/ ~tampered) => CredentialsMatch
    BY DEF ControllerInv, CredentialsInv
  <1>2. ~(kind = "jetstream" \/ ~tampered) => CredentialsMatch
    BY DEF CredentialsMatch
  <1>3. ControllerInv => CredentialsMatch
    BY <1>1, <1>2
  <1> QED
    BY <1>3, InvInit, InvStep, PTL DEF Spec

\* The finalizer of the EventBus controller: a bus goes only after Uninstall has deleted the
\* claims and found no user, except for those that the cached client did not list yet and a
\* user created after the look; failed calls, crashes and stale copies add no exception.
THEOREM DeletedOnlyUnused == Spec => []DeletedWhenUnused
  <1>1. ControllerInv => DeletedWhenUnused
    BY DEF ControllerInv
  <1> QED
    BY <1>1, InvInit, InvStep, PTL DEF Spec

\* A controller with nothing queued, running or on its way has done its work: no edit, deleted
\* object, refused write, failed call or crash is forgotten by Reconcile and its watches.
THEOREM NothingForgotten == Spec => []QuietMeansDone
  <1>1. ControllerInv => QuietMeansDone
    <2> SUFFICES ASSUME ControllerInv, work.pc = "idle", ~queued, seen = bus, cached = objects,
                        bus.exists
                 PROVE  /\ ~bus.deleting
                        /\ bus.spec \notin Invalid
                        /\ bus.status = "deployed" /\ bus.config = busConfig(bus.spec)
                        /\ Native => AsSpecified
                        /\ Native /\ ~tampered => 0 \notin {secrets.server, secrets.client}
      BY DEF QuietMeansDone
    <2>1. Quiet /\ QuietInv
      BY DEF Quiet, ControllerInv
    <2>2. Native => AsSpecified
      BY <2>1 DEF QuietInv, Written, AsSpecified
    <2> QED
      BY <2>1, <2>2 DEF QuietInv
  <1> QED
    BY <1>1, InvInit, InvStep, PTL DEF Spec
=============================================================================
