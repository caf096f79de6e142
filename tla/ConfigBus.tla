------------------------------ MODULE ConfigBus ------------------------------
(***************************************************************************)
(* How settings reach the server: the process environment, the table       *)
(* sys_core_settings and the Redis snapshot merged at start, and the hot    *)
(* reload that a NATS notice triggers (main, configbus.MergeFromRedis,      *)
(* configenv.ApplyMap, llm.BuildClientFromEnv, llm.Holder).                 *)
(* The value of a setting is the number of the change that gave it, so      *)
(* that old and new values can be told apart.                               *)
(***************************************************************************)
EXTENDS Integers, FiniteSets, Functions

CONSTANTS
  ClientKeys,   \* settings the LLM client is built from
  Required,     \* those of them it cannot be built without
  OtherKeys,    \* other settings of the white list
  Callbacks,    \* goroutines that may run the callback of the subscription
  Faults,       \* whether Redis, NATS and the process may fail
  MaxUpdates,   \* bound on the snapshots the control plane writes
  MaxRestarts   \* bound on restarts

\* A client needs at least its base URL.
ASSUME KeysAssumption == Required \subseteq ClientKeys /\ Required # {}
ASSUME BoundsAssumption ==
  Faults \in BOOLEAN /\ MaxUpdates \in Nat /\ MaxRestarts \in Nat

Keys == ClientKeys \cup OtherKeys

Blank == 0
FromFile == 1
FromPG == 2
FirstUpdate == 3
Values == Blank..(FirstUpdate + MaxUpdates - 1)

Settings == [Keys -> Values]
Unset == [k \in Keys |-> Blank]

VARIABLES
  file,        \* the environment the process is started with
  hot,         \* CORE_CONFIG_HOT_LLM
  snap,        \* the snapshot in Redis; Unset when there is none
  updates,     \* number of snapshots written
  notices,     \* notices delivered to the subscription and not yet handled
  \* the process:
  pc,          \* "pg", "redis", "build", "subscribe", "late", "up" or "dead"
  subscribed,
  env,         \* os.Environ
  client,      \* settings of the client in the holder, or NoClient
  cb,          \* per callback: where it is, the snapshot it read, and the keys
               \* it has still to set
  restarts,
  \* history:
  wholes,      \* the environment as each merge of this process left it
  missed       \* whether the last change was one the process could not see

bus == <<file, hot, snap, updates>>
history == <<wholes, missed>>
vars == <<bus, notices, pc, subscribed, env, client, cb, restarts, history>>

NoClient == [k \in {} |-> Blank]

Idle == [at |-> "idle", read |-> Unset, left |-> {}]

EffectiveWithBlanks(m) == Keys

\* The keys ApplyMap sets: blank values are skipped. A key that is not on the
\* white list has no effect and is in no snapshot here.
Effective(m) == {k \in Keys : m[k] # Blank}

\* The environment e after ApplyMap(m).
ApplyMap(e, m) == [k \in Keys |-> IF k \in Effective(m) THEN m[k] ELSE e[k]]

Buildable(e) == \A k \in Required : e[k] # Blank

\* BuildClientFromEnv.
Built(e) == Restrict(e, ClientKeys)

Init ==
  /\ file \in {[k \in Keys |-> FromFile], Unset}
  /\ hot \in BOOLEAN
  /\ snap = Unset /\ updates = 0 /\ notices = 0
  /\ pc = "pg" /\ subscribed = FALSE
  /\ env = file /\ client = NoClient
  /\ cb = [c \in Callbacks |-> Idle]
  /\ restarts = 0
  /\ wholes = {} /\ missed = FALSE
-------------------------------------------------------------------------------
\* The control plane.

\* It writes a snapshot, in which any key may be new, as before or gone, and
\* publishes a notice, which only a subscriber gets.
Update ==
  /\ updates < MaxUpdates
  /\ snap' \in {s \in Settings : \A k \in Keys :
                  s[k] \in {Blank, snap[k], FirstUpdate + updates}}
  /\ \E k \in Keys : snap'[k] = FirstUpdate + updates
  /\ updates' = updates + 1
  /\ IF subscribed THEN notices' = notices + 1 /\ UNCHANGED missed
     ELSE /\ missed' = (missed \/ pc \notin {"pg", "redis"})
          /\ UNCHANGED notices
  /\ UNCHANGED <<file, hot, pc, subscribed, env, client, cb, restarts, wholes>>

\* NATS delivers at most once.
LoseNotice ==
  /\ Faults /\ notices > 0
  /\ notices' = notices - 1 /\ missed' = TRUE
  /\ UNCHANGED <<bus, pc, subscribed, env, client, cb, restarts, wholes>>
-------------------------------------------------------------------------------
\* main.

\* CORE_CONFIG_FROM_PG: the rows of sys_core_settings, if there are any.
MergeCoreSettingsEnv ==
  /\ pc = "pg" /\ pc' = "redis"
  /\ \E ks \in SUBSET Keys :
       env' = ApplyMap(env, [k \in Keys |-> IF k \in ks THEN FromPG ELSE Blank])
  /\ UNCHANGED <<bus, notices, subscribed, client, cb, restarts, history>>

\* The bootstrap merge. Nothing else runs yet, so its steps are one.
Bootstrap ==
  /\ pc = "redis" /\ pc' = "build"
  /\ env' = ApplyMap(env, snap)
  /\ wholes' = wholes \cup {env'}
  /\ missed' = FALSE
  /\ UNCHANGED <<bus, notices, subscribed, client, cb, restarts>>

\* No REDIS_URL, or the snapshot cannot be read: main goes on without it.
BootstrapFails ==
  /\ Faults /\ pc = "redis" /\ pc' = "build"
  /\ wholes' = wholes \cup {env}
  /\ missed' = TRUE
  /\ UNCHANGED <<bus, notices, subscribed, env, client, cb, restarts>>

\* The client stands for all that main makes of the settings it reads before it
\* subscribes.
BuildClient ==
  /\ pc = "build" /\ Buildable(env)
  /\ pc' = "subscribe"
  /\ client' = Built(env)
  /\ UNCHANGED <<bus, notices, subscribed, env, cb, restarts, history>>

\* log.Fatalf: a process without a client does not start.
BuildClientFails ==
  /\ pc = "build" /\ ~Buildable(env)
  /\ pc' = "dead"
  /\ UNCHANGED <<bus, notices, subscribed, env, client, cb, restarts, history>>

Subscribe ==
  /\ pc = "subscribe" /\ pc' = "late"
  /\ subscribed' = TRUE
  /\ UNCHANGED <<bus, notices, env, client, cb, restarts, history>>

\* No NATS connection, no session Redis, or an error of Subscribe.
NoSubscription ==
  /\ Faults /\ pc = "subscribe" /\ pc' = "late"
  /\ missed' = TRUE
  /\ UNCHANGED <<bus, notices, subscribed, env, client, cb, restarts, wholes>>

\* The settings main reads once the subscription is up; no callback changes what
\* is made of them.
Started ==
  /\ pc = "late"
  /\ pc' = "up"
  /\ UNCHANGED <<bus, notices, subscribed, env, client, cb, restarts, history>>

\* A process that stopped, crashed or was killed is started again.
Restart ==
  /\ Faults /\ restarts < MaxRestarts /\ restarts' = restarts + 1
  /\ pc' = "pg" /\ subscribed' = FALSE /\ notices' = 0
  /\ env' = file /\ client' = NoClient
  /\ cb' = [c \in Callbacks |-> Idle]
  /\ wholes' = {} /\ missed' = FALSE
  /\ UNCHANGED bus
-------------------------------------------------------------------------------
\* The callback of the subscription.

AnyTime == TRUE

\* NATS runs the callback of a subscription for one message at a time.
Serial == \A c \in Callbacks : cb[c] = Idle

Deliver(c) ==
  /\ notices > 0 /\ cb[c] = Idle /\ Serial
  /\ notices' = notices - 1
  /\ cb' = [cb EXCEPT ![c].at = "get"]
  /\ UNCHANGED <<bus, pc, subscribed, env, client, restarts, wholes, missed>>

\* MergeFromRedis: the snapshot is read ...
GetSnapshot(c) ==
  /\ cb[c].at = "get"
  /\ cb' = [cb EXCEPT ![c] = [at |-> "set", read |-> snap, left |-> Effective(snap)]]
  /\ missed' = FALSE
  /\ UNCHANGED <<bus, notices, pc, subscribed, env, client, restarts, wholes>>

\* ... or not: an error, a timeout or a snapshot that is no JSON object.
GetFails(c) ==
  /\ Faults /\ cb[c].at = "get"
  /\ cb' = [cb EXCEPT ![c] = Idle]
  /\ missed' = TRUE
  /\ UNCHANGED <<bus, notices, pc, subscribed, env, client, restarts, wholes>>

\* ... and its values are set one by one, in the random order of a Go map.
SetEnv(c, k) ==
  /\ cb[c].at = "set" /\ k \in cb[c].left
  /\ env' = [env EXCEPT ![k] = cb[c].read[k]]
  /\ cb' = [cb EXCEPT ![c].left = @ \ {k}]
  /\ UNCHANGED <<bus, notices, pc, subscribed, client, restarts, history>>

Merged(c) ==
  /\ cb[c].at = "set" /\ cb[c].left = {}
  /\ cb' = [cb EXCEPT ![c] = IF hot THEN [Idle EXCEPT !.at = "build"] ELSE Idle]
  /\ wholes' = wholes \cup {env}
  /\ UNCHANGED <<bus, notices, pc, subscribed, env, client, restarts, missed>>

StoredNever(e) == client

\* Holder.Store of a client built from e; without one the old client stays.
Stored(e) == IF Buildable(e) THEN Built(e) ELSE client

Rebuild(c) ==
  /\ cb[c].at = "build"
  /\ client' = Stored(env)
  /\ cb' = [cb EXCEPT ![c] = Idle]
  /\ UNCHANGED <<bus, notices, pc, subscribed, env, restarts, history>>
-------------------------------------------------------------------------------
Main ==
  \/ MergeCoreSettingsEnv \/ Bootstrap \/ BootstrapFails
  \/ BuildClient \/ BuildClientFails \/ Subscribe \/ NoSubscription \/ Started

CallbackStep(c) ==
  \/ Deliver(c) \/ GetSnapshot(c) \/ GetFails(c) \/ Merged(c) \/ Rebuild(c)
  \/ \E k \in Keys : SetEnv(c, k)

Next ==
  \/ Update \/ LoseNotice \/ Restart
  \/ Main
  \/ \E c \in Callbacks : CallbackStep(c)

Spec == Init /\ [][Next]_vars

\* main runs on, notices in the client library's queue are handled, and every
\* Redis call has a deadline.
Fairness == WF_vars(Main) /\ \A c \in Callbacks : WF_vars(CallbackStep(c))

FairSpec == Spec /\ Fairness
-------------------------------------------------------------------------------
\* A client is never built half-way through a merge: its settings are the
\* environment as some whole merge left it, although the values are set one by
\* one while notices keep coming. They need not be of one snapshot: a key that a
\* later snapshot leaves out or blank keeps its older value (apply.go:63).
ClientWhole == client # NoClient => \E e \in wholes : client = Built(e)

\* Blank values of a snapshot unset nothing, so once a process has started its
\* settings always suffice for a client and no hot reload is refused (the error
\* branch of the callback is never taken); and it always has a client, so that
\* Bridge.inner never returns nil to a call of the model.
RebuildSucceeds ==
  /\ \A c \in Callbacks : cb[c].at = "build" => Buildable(env)
  /\ pc \in {"subscribe", "late", "up"} => client # NoClient

\* Within a process no setting goes back to an older value: tables are merged
\* before the snapshot, and a later notice never applies an earlier snapshot.
NeverOlder == [][restarts' = restarts => \A k \in Keys : env'[k] >= env[k]]_vars

InSync ==
  /\ \A k \in Keys : snap[k] # Blank => env[k] = snap[k]
  /\ hot => client = Built(env)

\* Unless a change was missed (its notice lost or sent when nobody was
\* subscribed, or the snapshot not readable), environment and client end up
\* with the values of the last snapshot.
EventuallyInSync == <>[](InSync \/ missed \/ pc = "dead")
==============================================================================
