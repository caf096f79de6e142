--------------------------- MODULE ConfigBus_proofs ---------------------------
(***************************************************************************)
(* Proofs, for any settings, any number of snapshots, restarts and         *)
(* callback goroutines, and every failure, of the safety of the hot        *)
(* reload: no setting goes back, no client is built half-way through a     *)
(* merge, and no reload is refused.                                        *)
(***************************************************************************)
EXTENDS ConfigBus, TLAPS

Callback == [at : {"idle", "get", "set", "build"}, read : [Keys -> Nat], left : SUBSET Keys]

\* What the argument needs of the types.
SettingsTyped ==
  /\ file \in [Keys -> {Blank, FromFile}]
  /\ snap \in [Keys -> Nat] /\ env \in [Keys -> Nat]
  /\ updates \in Nat /\ notices \in Nat /\ restarts \in Nat
  /\ pc \in {"pg", "redis", "build", "subscribe", "late", "up", "dead"}
  /\ subscribed \in BOOLEAN
  /\ cb \in [Callbacks -> Callback]

\* At most one callback runs, and only in a process that has subscribed.
OneCallback ==
  /\ \A c \in Callbacks : cb[c].at = "idle" => cb[c] = Idle
  /\ \A c, d \in Callbacks : cb[c].at # "idle" /\ cb[d].at # "idle" => c = d
  /\ \A c \in Callbacks : cb[c].at # "idle" => subscribed
  /\ notices > 0 => subscribed
  /\ subscribed => pc \in {"late", "up"}

\* Where a value may still be overwritten by another, the other is no older:
\* the file before the table, the table before snapshots, a snapshot that was
\* read before the one in Redis.
MergeOrder ==
  /\ pc = "pg" => env = file
  /\ pc = "redis" => \A k \in Keys : env[k] <= FromPG
  /\ \A k \in Keys : env[k] < FirstUpdate + updates
  /\ \A k \in Keys : snap[k] # Blank => FirstUpdate <= snap[k] /\ env[k] <= snap[k]
                                        /\ snap[k] < FirstUpdate + updates
  /\ \A c \in Callbacks : cb[c].at = "set" =>
       /\ cb[c].left \subseteq Effective(cb[c].read)
       /\ \A k \in Effective(cb[c].read) :
            /\ env[k] <= cb[c].read[k]
            /\ cb[c].read[k] < FirstUpdate + updates
            /\ snap[k] # Blank => cb[c].read[k] <= snap[k]

\* A client is only built when no merge is under way.
WholeMerges ==
  /\ ClientWhole
  /\ pc = "build" => env \in wholes
  /\ \A c \in Callbacks : cb[c].at = "build" => env \in wholes

\* A process past the build of its client keeps the settings for one.
ClientReady ==
  pc \in {"subscribe", "late", "up"} => Buildable(env) /\ client # NoClient

ConfigInv == SettingsTyped /\ OneCallback /\ MergeOrder /\ WholeMerges /\ ClientReady
-------------------------------------------------------------------------------
\* The constants are kept folded except where their values matter.
LEMMA Numbers == Blank = 0 /\ FromFile = 1 /\ FromPG = 2 /\ FirstUpdate = 3
BY DEF Blank, FromFile, FromPG, FirstUpdate

LEMMA IdleTyped == Idle \in Callback /\ Idle.at = "idle"
BY Numbers DEF Idle, Callback, Unset

\* A client is built from at least one setting.
LEMMA BuiltIsClient == ASSUME NEW e PROVE Built(e) # NoClient
<1>1. PICK k : k \in ClientKeys BY KeysAssumption
<1>2. DOMAIN Built(e) = ClientKeys BY DEF Built, Restrict
<1>3. DOMAIN NoClient = {} BY DEF NoClient
<1> QED BY <1>1, <1>2, <1>3

\* A merge keeps the type and unsets nothing.
LEMMA ApplyMapFacts ==
  ASSUME NEW e \in [Keys -> Nat], NEW m \in [Keys -> Nat]
  PROVE  /\ ApplyMap(e, m) \in [Keys -> Nat]
         /\ \A k \in Keys : ApplyMap(e, m)[k] = IF m[k] # Blank THEN m[k] ELSE e[k]
BY DEF ApplyMap, Effective

\* The rows of sys_core_settings as a map.
LEMMA RowsTyped ==
  ASSUME NEW ks PROVE [k \in Keys |-> IF k \in ks THEN FromPG ELSE Blank] \in [Keys -> Nat]
BY Numbers

\* A step of a callback leaves the other callbacks alone.
LEMMA CallbackMoves ==
  ASSUME SettingsTyped, NEW c \in Callbacks, CallbackStep(c)
  PROVE  /\ cb' \in [Callbacks -> Callback]
         /\ \A d \in Callbacks \ {c} : cb'[d] = cb[d]
         /\ cb'[c] \in Callback
<1>0. cb \in [Callbacks -> Callback] /\ cb[c] \in Callback BY DEF SettingsTyped
<1>1. ASSUME NEW new \in Callback, cb' = [cb EXCEPT ![c] = new]
      PROVE  /\ cb' \in [Callbacks -> Callback]
             /\ \A d \in Callbacks \ {c} : cb'[d] = cb[d]
             /\ cb'[c] \in Callback
  BY <1>0, <1>1
<1>2. CASE Deliver(c)
  <2>1. cb' = [cb EXCEPT ![c] = [cb[c] EXCEPT !.at = "get"]] BY <1>2 DEF Deliver
  <2>2. [cb[c] EXCEPT !.at = "get"] \in Callback BY <1>0 DEF Callback
  <2> QED BY <1>1, <2>1, <2>2
<1>3. CASE GetSnapshot(c)
  <2>1. [at |-> "set", read |-> snap, left |-> Effective(snap)] \in Callback
    BY DEF Callback, Effective, SettingsTyped
  <2> QED BY <1>1, <1>3, <2>1 DEF GetSnapshot
<1>4. CASE GetFails(c) \/ Rebuild(c)
  BY <1>1, <1>4, IdleTyped DEF GetFails, Rebuild
<1>5. CASE Merged(c)
  <2>1. [Idle EXCEPT !.at = "build"] \in Callback BY IdleTyped DEF Callback
  <2>2. (IF hot THEN [Idle EXCEPT !.at = "build"] ELSE Idle) \in Callback
    BY <2>1, IdleTyped
  <2> QED BY <1>1, <1>5, <2>2 DEF Merged
<1>6. ASSUME NEW k \in Keys, SetEnv(c, k)
      PROVE  /\ cb' \in [Callbacks -> Callback]
             /\ \A d \in Callbacks \ {c} : cb'[d] = cb[d]
             /\ cb'[c] \in Callback
  <2>1. cb' = [cb EXCEPT ![c] = [cb[c] EXCEPT !.left = @ \ {k}]] BY <1>6 DEF SetEnv
  <2>2. [cb[c] EXCEPT !.left = @ \ {k}] \in Callback BY <1>0 DEF Callback
  <2> QED BY <1>1, <2>1, <2>2
<1> QED BY <1>2, <1>3, <1>4, <1>5, <1>6 DEF CallbackStep
-------------------------------------------------------------------------------
LEMMA InitConfig == Init => ConfigInv
<1> SUFFICES ASSUME Init PROVE ConfigInv
  OBVIOUS
<1> USE Numbers
<1>0. Unset \in [Keys -> Nat] /\ \A k \in Keys : Unset[k] = Blank BY DEF Unset
<1>1. file \in [Keys -> {Blank, FromFile}] BY <1>0 DEF Init, Unset
<1>2. cb \in [Callbacks -> Callback] /\ \A c \in Callbacks : cb[c] = Idle /\ cb[c].at = "idle"
  BY IdleTyped DEF Init
<1>b. subscribed \in BOOLEAN BY Zenon DEF Init
<1>3. SettingsTyped BY <1>0, <1>1, <1>2, <1>b DEF Init, SettingsTyped
<1>4. OneCallback BY <1>2 DEF Init, OneCallback
<1>5. MergeOrder BY <1>0, <1>1, <1>2 DEF Init, MergeOrder
<1>6. WholeMerges BY <1>2 DEF Init, WholeMerges, ClientWhole
<1>7. ClientReady BY DEF Init, ClientReady
<1> QED BY <1>3, <1>4, <1>5, <1>6, <1>7 DEF ConfigInv

\* Types.
LEMMA NextTyped == SettingsTyped /\ [Next]_vars => SettingsTyped'
<1> SUFFICES ASSUME SettingsTyped, [Next]_vars PROVE SettingsTyped'
  OBVIOUS
<1> USE Numbers DEF bus, history
<1>1. CASE Update
  <2>1. snap' \in [Keys -> Nat] BY <1>1 DEF Update, Settings, Values
  <2>2. notices' \in Nat BY <1>1 DEF Update, SettingsTyped
  <2> QED BY <1>1, <2>1, <2>2 DEF Update, SettingsTyped
<1>2. CASE LoseNotice BY <1>2 DEF LoseNotice, SettingsTyped
<1>3. CASE Restart
  <2>1. cb' \in [Callbacks -> Callback] BY <1>3, IdleTyped DEF Restart
  <2>2. env' \in [Keys -> Nat] BY <1>3 DEF Restart, SettingsTyped, Unset
  <2>3. subscribed' \in BOOLEAN BY <1>3, Zenon DEF Restart
  <2> QED BY <1>3, <2>1, <2>2, <2>3 DEF Restart, SettingsTyped
<1>4. CASE MergeCoreSettingsEnv
  <2>1. env' \in [Keys -> Nat]
    BY <1>4, ApplyMapFacts, RowsTyped DEF MergeCoreSettingsEnv, SettingsTyped
  <2> QED BY <1>4, <2>1 DEF MergeCoreSettingsEnv, SettingsTyped
<1>5. CASE Bootstrap
  <2>1. env' \in [Keys -> Nat] BY <1>5, ApplyMapFacts DEF Bootstrap, SettingsTyped
  <2> QED BY <1>5, <2>1 DEF Bootstrap, SettingsTyped
<1>6. CASE BootstrapFails \/ BuildClient \/ BuildClientFails \/ Subscribe \/ NoSubscription \/ Started
  BY <1>6 DEF BootstrapFails, BuildClient, BuildClientFails, Subscribe, NoSubscription,
              Started, SettingsTyped
<1>7. ASSUME NEW c \in Callbacks, CallbackStep(c) PROVE SettingsTyped'
  <2>0. cb' \in [Callbacks -> Callback] BY <1>7, CallbackMoves
  <2>1. CASE Deliver(c) BY <2>0, <2>1 DEF Deliver, SettingsTyped
  <2>2. CASE GetSnapshot(c) \/ GetFails(c) \/ Merged(c) \/ Rebuild(c)
    BY <2>0, <2>2 DEF GetSnapshot, GetFails, Merged, Rebuild, SettingsTyped
  <2>3. ASSUME NEW k \in Keys, SetEnv(c, k) PROVE SettingsTyped'
    <3>1. cb[c].read[k] \in Nat BY DEF SettingsTyped, Callback
    <3>2. env' \in [Keys -> Nat] BY <2>3, <3>1 DEF SetEnv, SettingsTyped
    <3> QED BY <2>0, <2>3, <3>2 DEF SetEnv, SettingsTyped
  <2> QED BY <1>7, <2>1, <2>2, <2>3 DEF CallbackStep
<1>8. CASE UNCHANGED vars BY <1>8 DEF vars, SettingsTyped
<1> QED BY <1>1, <1>2, <1>3, <1>4, <1>5, <1>6, <1>7, <1>8 DEF Next, Main

\* Deliver starts a callback only when all are idle.
LEMMA NextOneCallback ==
  SettingsTyped /\ OneCallback /\ [Next]_vars => OneCallback'
<1> SUFFICES ASSUME SettingsTyped, OneCallback, [Next]_vars PROVE OneCallback'
  OBVIOUS
<1> USE DEF bus, history
<1>1. CASE Restart
  BY <1>1, IdleTyped DEF Restart, OneCallback
<1>2. CASE Update \/ LoseNotice \/ Main
  <2>1. cb' = cb
    BY <1>2 DEF Update, LoseNotice, Main, MergeCoreSettingsEnv, Bootstrap, BootstrapFails,
                BuildClient, BuildClientFails, Subscribe, NoSubscription, Started
  <2>2. CASE Update BY <2>1, <2>2 DEF Update, OneCallback, SettingsTyped
  <2>3. CASE LoseNotice BY <2>1, <2>3 DEF LoseNotice, OneCallback, SettingsTyped
  <2>4. CASE Main
    BY <2>1, <2>4 DEF Main, MergeCoreSettingsEnv, Bootstrap, BootstrapFails,
         BuildClient, BuildClientFails, Subscribe, NoSubscription, Started,
         OneCallback, SettingsTyped
  <2> QED BY <1>2, <2>2, <2>3, <2>4
<1>3. ASSUME NEW c \in Callbacks, CallbackStep(c) PROVE OneCallback'
  <2>0. /\ cb' \in [Callbacks -> Callback]
        /\ \A d \in Callbacks \ {c} : cb'[d] = cb[d]
    BY <1>3, CallbackMoves
  <2>1. CASE Deliver(c)
    <3>1. \A d \in Callbacks \ {c} : cb'[d] = Idle BY <2>0, <2>1 DEF Deliver, Serial
    <3>2. cb'[c].at = "get"
      BY <2>1, IdleTyped DEF Deliver, SettingsTyped, Callback
    <3> QED BY <2>1, <3>1, <3>2, IdleTyped DEF Deliver, OneCallback, SettingsTyped
  <2>2. CASE cb[c].at # "idle" /\ (cb'[c].at = "idle" => cb'[c] = Idle)
             /\ UNCHANGED <<subscribed, notices, pc>>
    BY <2>0, <2>2, IdleTyped DEF OneCallback
  <2>3. CASE GetSnapshot(c)
    BY <2>2, <2>3 DEF GetSnapshot, SettingsTyped
  <2>4. CASE GetFails(c) \/ Rebuild(c)
    BY <2>2, <2>4 DEF GetFails, Rebuild, SettingsTyped
  <2>5. CASE Merged(c)
    <3>1. cb'[c] = Idle \/ cb'[c] = [Idle EXCEPT !.at = "build"]
      BY <2>5 DEF Merged, SettingsTyped
    <3>2. [Idle EXCEPT !.at = "build"].at = "build" BY DEF Idle
    <3> QED BY <2>2, <2>5, <3>1, <3>2 DEF Merged
  <2>6. ASSUME NEW k \in Keys, SetEnv(c, k) PROVE OneCallback'
    <3>1. cb'[c] = [cb[c] EXCEPT !.left = @ \ {k}] BY <2>6 DEF SetEnv, SettingsTyped
    <3>2. cb'[c].at = cb[c].at BY <3>1 DEF SettingsTyped, Callback
    <3> QED BY <2>2, <2>6, <3>2 DEF SetEnv
  <2> QED BY <1>3, <2>1, <2>3, <2>4, <2>5, <2>6 DEF CallbackStep
<1>4. CASE UNCHANGED vars BY <1>4 DEF vars, OneCallback
<1> QED BY <1>1, <1>2, <1>3, <1>4 DEF Next

\* A value never replaces a newer one.
LEMMA NextMergeOrder ==
  SettingsTyped /\ OneCallback /\ MergeOrder /\ [Next]_vars => MergeOrder'
<1> SUFFICES ASSUME SettingsTyped, OneCallback, MergeOrder, [Next]_vars PROVE MergeOrder'
  OBVIOUS
<1> USE Numbers DEF bus, history
<1>1. CASE Update
  <2>1. \A k \in Keys : snap'[k] \in {Blank, snap[k], FirstUpdate + updates}
    BY <1>1 DEF Update
  <2>2. updates' = updates + 1 /\ UNCHANGED <<file, pc, env, cb>> BY <1>1 DEF Update
  <2> QED BY <2>1, <2>2 DEF MergeOrder, SettingsTyped, Callback, Effective
<1>2. CASE UNCHANGED <<file, snap, updates, pc, env, cb>> BY <1>2 DEF MergeOrder
<1>3. ASSUME UNCHANGED <<file, snap, updates, env, cb>>, pc' \notin {"pg", "redis"} PROVE MergeOrder'
  BY <1>3 DEF MergeOrder
<1>4. CASE Restart
  <2>1. \A c \in Callbacks : cb'[c].at = "idle" BY <1>4, IdleTyped DEF Restart
  <2>2. \A k \in Keys : env'[k] \in {Blank, FromFile} BY <1>4 DEF Restart, SettingsTyped
  <2>3. env' = file' /\ pc' = "pg" /\ UNCHANGED <<snap, updates>> BY <1>4 DEF Restart
  <2> QED BY <2>1, <2>2, <2>3 DEF MergeOrder, SettingsTyped
<1>5. CASE MergeCoreSettingsEnv
  <2>1. \A c \in Callbacks : cb'[c].at = "idle" BY <1>5 DEF MergeCoreSettingsEnv, OneCallback
  <2>2. PICK ks : env' = ApplyMap(env, [k \in Keys |-> IF k \in ks THEN FromPG ELSE Blank])
    BY <1>5 DEF MergeCoreSettingsEnv
  <2>3. \A k \in Keys : env'[k] \in Nat /\ env'[k] <= FromPG
    BY <1>5, <2>2, ApplyMapFacts, RowsTyped DEF MergeCoreSettingsEnv, MergeOrder, SettingsTyped
  <2> QED BY <1>5, <2>1, <2>3 DEF MergeCoreSettingsEnv, MergeOrder, SettingsTyped
<1>6. CASE Bootstrap
  <2>1. \A c \in Callbacks : cb'[c].at = "idle" BY <1>6 DEF Bootstrap, OneCallback
  <2>2. \A k \in Keys : env'[k] = IF snap[k] # Blank THEN snap[k] ELSE env[k]
    BY <1>6, ApplyMapFacts DEF Bootstrap, SettingsTyped
  <2> QED BY <1>6, <2>1, <2>2 DEF Bootstrap, MergeOrder, SettingsTyped
<1>7. CASE LoseNotice BY <1>2, <1>7 DEF LoseNotice
<1>8. CASE BootstrapFails \/ BuildClient \/ BuildClientFails \/ Subscribe \/ NoSubscription \/ Started
  BY <1>3, <1>8 DEF BootstrapFails, BuildClient, BuildClientFails, Subscribe, NoSubscription, Started
<1>9. ASSUME NEW c \in Callbacks, CallbackStep(c) PROVE MergeOrder'
  <2>0. /\ cb' \in [Callbacks -> Callback]
        /\ \A d \in Callbacks \ {c} : cb'[d] = cb[d]
    BY <1>9, CallbackMoves
  <2>1. ASSUME UNCHANGED <<file, snap, updates, pc, env>>, cb'[c].at # "set" PROVE MergeOrder'
    BY <2>0, <2>1 DEF MergeOrder
  <2>2. CASE Deliver(c) BY <2>1, <2>2 DEF Deliver, SettingsTyped, Callback
  <2>3. CASE GetFails(c) \/ Rebuild(c) BY <2>1, <2>3, IdleTyped DEF GetFails, Rebuild, SettingsTyped
  <2>4. CASE Merged(c)
    <3>1. cb'[c] = Idle \/ cb'[c] = [Idle EXCEPT !.at = "build"]
      BY <2>4 DEF Merged, SettingsTyped
    <3>2. [Idle EXCEPT !.at = "build"].at = "build" BY DEF Idle
    <3> QED BY <2>1, <2>4, <3>1, <3>2, IdleTyped DEF Merged
  <2>5. CASE GetSnapshot(c)
    <3>1. cb'[c].left = Effective(snap) /\ cb'[c].read = snap
      BY <2>5 DEF GetSnapshot, SettingsTyped
    <3>2. UNCHANGED <<file, snap, updates, pc, env>> BY <2>5 DEF GetSnapshot
    <3> QED BY <2>0, <3>1, <3>2 DEF MergeOrder, Effective, SettingsTyped
  <2>6. ASSUME NEW k \in Keys, SetEnv(c, k) PROVE MergeOrder'
    <3>1. cb'[c] = [cb[c] EXCEPT !.left = @ \ {k}] BY <2>6 DEF SetEnv, SettingsTyped
    <3>2. /\ cb'[c].at = "set" /\ cb'[c].left = cb[c].left \ {k}
          /\ cb'[c].read = cb[c].read /\ cb[c].read \in [Keys -> Nat]
      BY <2>6, <3>1 DEF SetEnv, SettingsTyped, Callback
    <3>3. /\ k \in Effective(cb[c].read)
          /\ env' = [env EXCEPT ![k] = cb[c].read[k]]
          /\ UNCHANGED <<file, snap, updates, pc>>
      BY <2>6 DEF SetEnv, MergeOrder
    <3>4. \A d \in Callbacks \ {c} : cb'[d].at # "set" BY <2>0, <2>6 DEF SetEnv, OneCallback
    <3>5. pc' \notin {"pg", "redis"} BY <2>6 DEF SetEnv, OneCallback
    <3>6. \A j \in Effective(cb[c].read) : env'[j] \in Nat /\ env'[j] <= cb[c].read[j]
      BY <2>6, <3>2, <3>3 DEF SetEnv, MergeOrder, SettingsTyped, Effective
    <3>7. \A j \in Keys : /\ env'[j] < FirstUpdate + updates
                           /\ snap[j] # Blank => env'[j] <= snap[j]
      BY <2>6, <3>2, <3>3 DEF SetEnv, MergeOrder, SettingsTyped
    <3> QED BY <2>6, <3>2, <3>3, <3>4, <3>5, <3>6, <3>7 DEF SetEnv, MergeOrder
  <2> QED BY <1>9, <2>2, <2>3, <2>4, <2>5, <2>6 DEF CallbackStep
<1>10. CASE UNCHANGED vars BY <1>2, <1>10 DEF vars
<1> QED BY <1>1, <1>4, <1>5, <1>6, <1>7, <1>8, <1>9, <1>10 DEF Next, Main

\* A client is built only from an environment that a merge has left.
LEMMA NextWholeMerges ==
  SettingsTyped /\ OneCallback /\ WholeMerges /\ [Next]_vars => WholeMerges'
<1> SUFFICES ASSUME SettingsTyped, OneCallback, WholeMerges, [Next]_vars PROVE WholeMerges'
  OBVIOUS
<1> USE DEF bus, history, ClientWhole
<1>1. CASE UNCHANGED <<env, client, wholes, cb>> /\ pc' # "build"
  BY <1>1 DEF WholeMerges
<1>2. CASE UNCHANGED <<env, client, wholes, cb, pc>>
  BY <1>2 DEF WholeMerges
<1>3. CASE Update \/ LoseNotice BY <1>2, <1>3 DEF Update, LoseNotice
<1>4. CASE Restart BY <1>4, IdleTyped DEF Restart, WholeMerges
<1>5. CASE MergeCoreSettingsEnv
  BY <1>5 DEF MergeCoreSettingsEnv, WholeMerges, OneCallback
<1>6. CASE Bootstrap \/ BootstrapFails
  BY <1>6 DEF Bootstrap, BootstrapFails, WholeMerges, OneCallback
<1>7. CASE BuildClient BY <1>7 DEF BuildClient, WholeMerges
<1>8. CASE BuildClientFails \/ Subscribe \/ NoSubscription \/ Started
  BY <1>1, <1>8 DEF BuildClientFails, Subscribe, NoSubscription, Started
<1>9. ASSUME NEW c \in Callbacks, CallbackStep(c) PROVE WholeMerges'
  <2>0. /\ cb' \in [Callbacks -> Callback]
        /\ \A d \in Callbacks \ {c} : cb'[d] = cb[d]
    BY <1>9, CallbackMoves
  <2>1. ASSUME UNCHANGED <<env, client, wholes, pc>>, cb'[c].at # "build" PROVE WholeMerges'
    BY <2>0, <2>1 DEF WholeMerges
  <2>2. CASE Deliver(c) BY <2>1, <2>2 DEF Deliver, SettingsTyped, Callback
  <2>3. CASE GetFails(c) BY <2>1, <2>3, IdleTyped DEF GetFails, SettingsTyped
  <2>4. CASE GetSnapshot(c) BY <2>1, <2>4 DEF GetSnapshot, SettingsTyped
  <2>5. CASE Merged(c) BY <2>0, <2>5 DEF Merged, WholeMerges
  <2>6. CASE Rebuild(c)
    <3>1. cb'[c].at = "idle" BY <2>6, IdleTyped DEF Rebuild, SettingsTyped
    <3>2. client' = client \/ (client' = Built(env) /\ env \in wholes)
      BY <2>6 DEF Rebuild, Stored, WholeMerges
    <3> QED BY <2>0, <2>6, <3>1, <3>2 DEF Rebuild, WholeMerges
  <2>7. ASSUME NEW k \in Keys, SetEnv(c, k) PROVE WholeMerges'
    <3>1. cb'[c] = [cb[c] EXCEPT !.left = @ \ {k}] BY <2>7 DEF SetEnv, SettingsTyped
    <3>2. cb'[c].at = "set" BY <2>7, <3>1 DEF SetEnv, SettingsTyped, Callback
    <3>3. \A d \in Callbacks : cb'[d].at # "build"
      BY <2>0, <2>7, <3>2 DEF SetEnv, OneCallback
    <3>4. pc' # "build" BY <2>7 DEF SetEnv, OneCallback
    <3> QED BY <2>7, <3>3, <3>4 DEF SetEnv, WholeMerges
  <2> QED BY <1>9, <2>2, <2>3, <2>4, <2>5, <2>6, <2>7 DEF CallbackStep
<1>10. CASE UNCHANGED vars BY <1>2, <1>10 DEF vars
<1> QED BY <1>3, <1>4, <1>5, <1>6, <1>7, <1>8, <1>9, <1>10 DEF Next, Main

\* A reload sets no blank value, so what sufficed for a client still does.
LEMMA NextClientReady ==
  SettingsTyped /\ OneCallback /\ MergeOrder /\ ClientReady /\ [Next]_vars => ClientReady'
<1> SUFFICES ASSUME SettingsTyped, OneCallback, MergeOrder, ClientReady, [Next]_vars
             PROVE  ClientReady'
  OBVIOUS
<1> USE DEF bus, history
<1>1. CASE pc' \notin {"subscribe", "late", "up"} BY <1>1 DEF ClientReady
<1>2. CASE UNCHANGED <<env, client>> /\ pc \in {"subscribe", "late", "up"}
  BY <1>2 DEF ClientReady, Buildable
<1>3. CASE UNCHANGED <<env, client, pc>> BY <1>3 DEF ClientReady, Buildable
<1>4. CASE Update \/ LoseNotice \/ UNCHANGED vars
  BY <1>3, <1>4 DEF Update, LoseNotice, vars
<1>5. CASE Restart \/ MergeCoreSettingsEnv \/ Bootstrap \/ BootstrapFails \/ BuildClientFails
  BY <1>1, <1>5 DEF Restart, MergeCoreSettingsEnv, Bootstrap, BootstrapFails, BuildClientFails
<1>6. CASE BuildClient BY <1>6, BuiltIsClient DEF BuildClient, ClientReady, Buildable
<1>7. CASE Subscribe \/ NoSubscription \/ Started
  BY <1>2, <1>7 DEF Subscribe, NoSubscription, Started
<1>8. ASSUME NEW c \in Callbacks, CallbackStep(c) PROVE ClientReady'
  <2>1. CASE Deliver(c) \/ GetFails(c) \/ GetSnapshot(c) \/ Merged(c)
    BY <1>3, <2>1 DEF Deliver, GetFails, GetSnapshot, Merged
  <2>2. CASE Rebuild(c)
    BY <2>2, BuiltIsClient DEF Rebuild, Stored, ClientReady, Buildable
  <2>3. ASSUME NEW k \in Keys, SetEnv(c, k) PROVE ClientReady'
    <3>1. cb[c].read[k] # Blank BY <2>3 DEF SetEnv, MergeOrder, Effective
    <3>2. \A j \in Keys : env[j] # Blank => env'[j] # Blank
      BY <2>3, <3>1 DEF SetEnv, SettingsTyped
    <3>3. Required \subseteq Keys BY KeysAssumption DEF Keys
    <3> QED BY <2>3, <3>2, <3>3 DEF SetEnv, ClientReady, Buildable
  <2> QED BY <1>8, <2>1, <2>2, <2>3 DEF CallbackStep
<1> QED BY <1>4, <1>5, <1>6, <1>7, <1>8 DEF Next, Main

\* ConfigInv is an inductive invariant.
LEMMA ConfigInvariant == Spec => []ConfigInv
<1>1. ConfigInv /\ [Next]_vars => ConfigInv'
  BY NextTyped, NextOneCallback, NextMergeOrder, NextWholeMerges, NextClientReady
  DEF ConfigInv
<1> QED BY InitConfig, <1>1, PTL DEF Spec
-------------------------------------------------------------------------------
\* No client is ever built from a half-applied snapshot (main.go 203-218): a
\* callback builds only after the loop of ApplyMap has ended, and NATS does not
\* start the next one before it returns.
THEOREM ClientWholeAlways == Spec => []ClientWhole
BY ConfigInvariant, PTL DEF ConfigInv, WholeMerges

\* No reload is refused for a missing setting and a process that has started
\* always has a client (main.go 209-216, holder.go): blank values are skipped.
THEOREM RebuildSucceedsAlways == Spec => []RebuildSucceeds
<1>1. ConfigInv => RebuildSucceeds
  <2> SUFFICES ASSUME ConfigInv PROVE RebuildSucceeds
    OBVIOUS
  <2>1. ASSUME NEW c \in Callbacks, cb[c].at = "build" PROVE Buildable(env)
    BY <2>1 DEF ConfigInv, OneCallback, ClientReady
  <2> QED BY <2>1 DEF RebuildSucceeds, ConfigInv, ClientReady
<1> QED BY <1>1, ConfigInvariant, PTL

\* Within a process no setting goes back to an older value (main.go 63-95,
\* 203-208): what a merge is about to set is never older than what is there.
THEOREM NeverOlderAlways == Spec => NeverOlder
<1> DEFINE A == restarts' = restarts => \A k \in Keys : env'[k] >= env[k]
<1>1. ConfigInv /\ [Next]_vars => [A]_vars
  <2> SUFFICES ASSUME ConfigInv, Next, restarts' = restarts, NEW k \in Keys
               PROVE  env'[k] >= env[k]
    OBVIOUS
  <2> USE Numbers DEF bus, history
  <2>0. SettingsTyped /\ MergeOrder /\ env[k] \in Nat /\ restarts \in Nat
    BY DEF ConfigInv, SettingsTyped
  <2>1. CASE env' = env BY <2>0, <2>1
  <2>2. ~Restart BY <2>0 DEF Restart
  <2>3. CASE MergeCoreSettingsEnv
    <3>1. PICK ks : env' = ApplyMap(env, [j \in Keys |-> IF j \in ks THEN FromPG ELSE Blank])
      BY <2>3 DEF MergeCoreSettingsEnv
    <3>2. env'[k] = FromPG \/ env'[k] = env[k]
      BY <2>0, <3>1, ApplyMapFacts, RowsTyped DEF SettingsTyped
    <3>3. env[k] <= FromFile
      BY <2>0, <2>3 DEF MergeCoreSettingsEnv, MergeOrder, SettingsTyped
    <3> QED BY <2>0, <3>2, <3>3
  <2>4. CASE Bootstrap
    <3>1. env'[k] = IF snap[k] # Blank THEN snap[k] ELSE env[k]
      BY <2>0, <2>4, ApplyMapFacts DEF Bootstrap, SettingsTyped
    <3> QED BY <2>0, <3>1 DEF MergeOrder, SettingsTyped
  <2>5. ASSUME NEW c \in Callbacks, NEW j \in Keys, SetEnv(c, j) PROVE env'[k] >= env[k]
    <3>1. env[j] <= cb[c].read[j] /\ cb[c].read[j] \in Nat
      BY <2>0, <2>5 DEF SetEnv, MergeOrder, SettingsTyped, Callback
    <3>2. env'[k] = IF k = j THEN cb[c].read[j] ELSE env[k]
      BY <2>0, <2>5 DEF SetEnv, SettingsTyped
    <3> QED BY <2>0, <3>1, <3>2
  <2>6. CASE Update \/ LoseNotice \/ BootstrapFails \/ BuildClient \/ BuildClientFails
             \/ Subscribe \/ NoSubscription \/ Started
    BY <2>1, <2>6 DEF Update, LoseNotice, BootstrapFails, BuildClient, BuildClientFails,
                      Subscribe, NoSubscription, Started
  <2>7. ASSUME NEW c \in Callbacks, CallbackStep(c) PROVE env'[k] >= env[k]
    BY <2>1, <2>5, <2>7 DEF CallbackStep, Deliver, GetSnapshot, GetFails, Merged, Rebuild
  <2> QED BY <2>2, <2>3, <2>4, <2>6, <2>7 DEF Next, Main
<1> HIDE DEF A
<1>2. Spec => [][A]_vars BY <1>1, ConfigInvariant, PTL DEF Spec
<1> QED BY <1>2 DEF NeverOlder, A

===============================================================================
