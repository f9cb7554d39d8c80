------------------------- MODULE ClusterMembership -------------------------
(***************************************************************************)
(* Service discovery of the disaggregated server over its HTTP storage:    *)
(* the worker processes (DisaggClusterWorker), the key store with expiring *)
(* keys (HttpClusterStorageServer), the watcher (DisaggClusterManager) and *)
(* the server lists of the two routers.                                    *)
(*                                                                         *)
(* A worker here is one process: its key contains the start time and the   *)
(* pid, so a restarted server is another worker with the same host:port.   *)
(***************************************************************************)
EXTENDS Integers, Sequences, FiniteSets

CONSTANTS
    Workers,        \* worker ids
    Servers,        \* (role, host:port) pairs
    Deployments,    \* the pairs the workers may register with
    Fragile,        \* workers whose servers' preparation may raise
    Python310,      \* workers that run on Python 3.10
    MaxPending,     \* bound: events not yet handled when a key lapses
    NoWorker

ASSUME MembershipAssumption ==
    /\ Deployments \subseteq [Workers -> Servers]
    /\ Fragile \subseteq Workers /\ Python310 \subseteq Workers
    /\ MaxPending \in Nat
    /\ NoWorker \notin Workers
    /\ IsFiniteSet(Workers)

VARIABLES
    address,    \* the pair each worker registers with
    process,    \* the life of each worker process
    late,       \* workers whose abandoned set call may still arrive
    storage,    \* keys of _storage
    lapsed,     \* those of them whose expire_time has passed
    events,     \* the drained batch followed by the watch queue
    drained,    \* the length of that batch
    adding,     \* the worker whose server add_server is preparing
    current,    \* _current_ctx_workers and _current_gen_workers
    servers,    \* _servers of the two routers
    skipped,    \* history: workers whose events were dropped since the restart
    doubled     \* history: servers that had two known processes, likewise

worker == <<address, process, late>>
store == <<storage, lapsed>>
manager == <<drained, adding, current, servers>>
history == <<skipped, doubled>>
vars == <<worker, store, events, manager, history>>

Set(w) == [type |-> "SET", id |-> w]
Delete(w) == [type |-> "DELETE", id |-> w]

Init ==
    /\ address \in Deployments
    /\ process = [w \in Workers |-> "off"]
    /\ late = {} /\ storage = {} /\ lapsed = {}
    /\ events = << >> /\ drained = 0 /\ adding = NoWorker
    /\ current = {} /\ servers = {}
    /\ skipped = {} /\ doubled = {}

-----------------------------------------------------------------------------
(* The storage.  No handler waits while it holds the lock, so each one is  *)
(* a single step of the event loop, its notification included.             *)

\* Mutant: a new key is not announced.
SetKeySilently(w) ==
    /\ storage' = storage \cup {w}
    /\ UNCHANGED <<lapsed, events>>

\* _set without overwrite_if_exists
SetKey(w) ==
    IF w \in storage
    THEN UNCHANGED <<store, events>>
    ELSE /\ storage' = storage \cup {w}
         /\ UNCHANGED lapsed
         /\ events' = Append(events, Set(w))

\* expire refreshes whatever is stored, a lapsed key too.
ExpireKey(w) == lapsed' = lapsed \ {w}

\* delete
DeleteKey(w) ==
    /\ storage' = storage \ {w}
    /\ lapsed' = lapsed \ {w}
    /\ events' = IF w \in storage THEN Append(events, Delete(w)) ELSE events

\* The time to live of a key passes.
Lapse(w) ==
    /\ w \in storage \ lapsed
    /\ Len(events) < MaxPending
    /\ lapsed' = lapsed \cup {w}
    /\ UNCHANGED <<worker, storage, events, manager, history>>

\* Mutant: expired keys are dropped without a notification.
CheckExpiredSilently ==
    /\ lapsed # {}
    /\ storage' = storage \ lapsed
    /\ lapsed' = {}
    /\ UNCHANGED <<worker, events, manager, history>>

\* The orders in which a dictionary with the n keys S may list them.
Orders(S, n) ==
    {f \in [1..n -> S] : /\ \A w \in S : \E i \in 1..n : f[i] = w
                        /\ \A i, j \in 1..n : f[i] = f[j] => i = j}

\* _check_expired: one pass drops the expired keys and announces each.
CheckExpired ==
    /\ lapsed # {}
    /\ \E n \in 1..Cardinality(Workers) : \E order \in Orders(lapsed, n) :
          events' = events \o [i \in 1..n |-> Delete(order[i])]
    /\ storage' = storage \ lapsed
    /\ lapsed' = {}
    /\ UNCHANGED <<worker, manager, history>>

\* A set call that its client no longer waits for reaches the server.
LateSet(w) ==
    /\ w \in late
    /\ SetKey(w)
    /\ late' = late \ {w}
    /\ UNCHANGED <<address, process, manager, history>>

-----------------------------------------------------------------------------
(* A worker process.  "register" is the call in the server's lifespan,     *)
(* "reregister" the one in the heartbeat task, and a "mute" process serves *)
(* on after an exception has ended its heartbeat task.                     *)

\* The process registers, or its heartbeat task runs.
Beats(w) == process[w] \in {"register", "run", "reregister"}

Alive(w) == Beats(w) \/ process[w] = "mute"

\* DisaggClusterWorker is created when the server starts; a host:port is
\* bound by one process at a time.
Start(w) ==
    /\ process[w] = "off"
    /\ \A v \in Workers : address[v] = address[w] => ~Alive(v)
    /\ process' = [process EXCEPT ![w] = "register"]
    /\ UNCHANGED <<address, late, store, events, manager, history>>

Registering(w) == process[w] \in {"register", "reregister"}

\* register_worker repeats the call until it succeeds.
AfterSet(w, success) == IF success THEN "run" ELSE process[w]

\* register_worker, the answer of the storage arrives
RegisterWorker(w) ==
    /\ Registering(w)
    /\ SetKey(w)
    /\ process' = [process EXCEPT ![w] = AfterSet(w, w \notin storage)]
    /\ UNCHANGED <<address, late, manager, history>>

\* The client catches ClientError and OSError.  The TimeoutError of asyncio
\* is neither in Python 3.10, so that it ends the heartbeat task.
TimesOut(w) ==
    /\ w \in Python310
    /\ process' = [process EXCEPT ![w] = "mute"]

\* register_worker, the answer is lost or the client gives up first.  In the
\* lifespan a timeout ends the start of the server (Crash).
RegisterFails(w) ==
    /\ Registering(w)
    /\ \/ process' = [process EXCEPT ![w] = AfterSet(w, FALSE)]
       \/ process[w] = "reregister" /\ TimesOut(w)
    /\ \/ SetKey(w) /\ UNCHANGED late
       \/ late' = late \cup {w} /\ UNCHANGED <<store, events>>
    /\ UNCHANGED <<address, manager, history>>

\* Mutant: a failed heartbeat is only logged.
AfterExpireLogged(success) == "run"

\* _heartbeat registers the worker again when expire fails.
AfterExpire(success) == IF success THEN "run" ELSE "reregister"

\* _heartbeat, the answer of the storage arrives
Heartbeat(w) ==
    /\ process[w] = "run"
    /\ ExpireKey(w)
    /\ process' = [process EXCEPT ![w] = AfterExpire(w \in storage)]
    /\ UNCHANGED <<address, late, storage, events, manager, history>>

\* _heartbeat, the request or the answer is lost
HeartbeatFails(w) ==
    /\ process[w] = "run"
    /\ ExpireKey(w) \/ UNCHANGED lapsed
    /\ process' = [process EXCEPT ![w] = AfterExpire(FALSE)] \/ TimesOut(w)
    /\ UNCHANGED <<address, late, storage, events, manager, history>>

\* deregister_worker cancels the heartbeat task, which may have a set call
\* under way, and deletes the key; the delete call may be lost.
DeregisterWorker(w) ==
    /\ process[w] \in {"run", "reregister", "mute"}
    /\ process' = [process EXCEPT ![w] = "gone"]
    /\ \/ process[w] = "reregister" /\ late' = late \cup {w}
       \/ UNCHANGED late
    /\ DeleteKey(w) \/ UNCHANGED <<store, events>>
    /\ UNCHANGED <<address, manager, history>>

\* The process dies, perhaps with a set call under way.
Crash(w) ==
    /\ Alive(w)
    /\ process' = [process EXCEPT ![w] = "gone"]
    /\ \/ Registering(w) /\ late' = late \cup {w}
       \/ UNCHANGED late
    /\ UNCHANGED <<address, store, events, manager, history>>

-----------------------------------------------------------------------------
(* DisaggClusterManager.watch_workers and _on_worker_event.                *)

\* WatchEventQueue.drain
Drain ==
    /\ adding = NoWorker /\ drained = 0 /\ events # << >>
    /\ drained' = Len(events)
    /\ UNCHANGED <<worker, store, events, adding, current, servers, history>>

\* Mutant: the batch does not get shorter.
NextEventUncounted(e) ==
    /\ adding = NoWorker /\ drained > 0
    /\ e = Head(events)
    /\ events' = Tail(events)
    /\ UNCHANGED drained

\* The event loop takes the next event e of the batch.
NextEvent(e) ==
    /\ adding = NoWorker /\ drained > 0
    /\ e = Head(events)
    /\ events' = Tail(events)
    /\ drained' = drained - 1

\* The except clause of worker_event_loop gives up the rest of the batch.
DropBatch ==
    /\ events' = SubSeq(events, drained + 1, Len(events))
    /\ drained' = 0
    /\ skipped' = skipped \cup {events[i].id : i \in 1..drained}
                           \cup ({adding} \ {NoWorker})

\* _parse_worker_info of a SET event, then add_server up to the preparation
SetEvent(w) ==
    /\ NextEvent(Set(w))
    /\ current' = current \cup {w}
    /\ adding' = IF address[w] \in servers THEN NoWorker ELSE w
    /\ doubled' = IF \E v \in current \ {w} : address[v] = address[w]
                  THEN doubled \cup {address[w]} ELSE doubled
    /\ UNCHANGED <<worker, store, servers, skipped>>

\* add_server after the preparation
AddServer ==
    /\ adding # NoWorker
    /\ servers' = servers \cup {address[adding]}
    /\ adding' = NoWorker
    /\ UNCHANGED <<worker, store, events, drained, current, history>>

\* _prepare_server raises.
PrepareRaises ==
    /\ adding \in Fragile
    /\ adding' = NoWorker
    /\ DropBatch
    /\ UNCHANGED <<worker, store, current, servers, doubled>>

\* Mutant: the router is not told.
DeleteEventKept(w) ==
    /\ NextEvent(Delete(w))
    /\ w \in current
    /\ current' = current \ {w}
    /\ UNCHANGED <<worker, store, adding, servers, history>>

\* _parse_worker_info of a DELETE event, then remove_server
DeleteEvent(w) ==
    /\ NextEvent(Delete(w))
    /\ w \in current
    /\ current' = current \ {w}
    /\ servers' = servers \ {address[w]}
    /\ UNCHANGED <<worker, store, adding, history>>

\* _get_workers_by_id raises for a worker the manager does not know.
UnknownWorker(w) ==
    /\ adding = NoWorker /\ drained > 0
    /\ Head(events) = Delete(w)
    /\ w \notin current
    /\ DropBatch
    /\ UNCHANGED <<worker, store, adding, current, servers, doubled>>

\* The disaggregated server restarts: storage, manager and routers are new,
\* and watch_workers finds no key.
Restart ==
    /\ storage' = {} /\ lapsed' = {}
    /\ events' = << >> /\ drained' = 0 /\ adding' = NoWorker
    /\ current' = {} /\ servers' = {} /\ skipped' = {} /\ doubled' = {}
    /\ UNCHANGED worker

-----------------------------------------------------------------------------
EventLoop ==
    \/ Drain \/ AddServer \/ PrepareRaises
    \/ \E w \in Workers : SetEvent(w) \/ DeleteEvent(w) \/ UnknownWorker(w)

Next ==
    \/ EventLoop \/ CheckExpired \/ Restart
    \/ \E w \in Workers :
          \/ Start(w) \/ RegisterWorker(w) \/ RegisterFails(w)
          \/ Heartbeat(w) \/ HeartbeatFails(w)
          \/ DeregisterWorker(w) \/ Crash(w)
          \/ Lapse(w) \/ LateSet(w)

(* The tasks of the disaggregated server run; a worker that is alive gets  *)
(* its calls through from time to time; the key of a worker that sends no  *)
(* heartbeat lapses.  Lapse is strongly fair only because of the bound     *)
(* MaxPending in its guard: time does not wait for the event queue.        *)
Fairness ==
    /\ WF_vars(EventLoop) /\ WF_vars(CheckExpired)
    /\ \A w \in Workers :
          /\ WF_vars(RegisterWorker(w)) /\ WF_vars(Heartbeat(w))
          /\ SF_vars(process[w] # "run" /\ Lapse(w))

Spec == Init /\ [][Next]_vars /\ Fairness

-----------------------------------------------------------------------------
(* Types; in particular the drained batch is a prefix of the events that   *)
(* are left, and only stored keys lapse.                                   *)
TypeOK ==
    /\ address \in Deployments
    /\ process \in [Workers -> {"off", "register", "run", "reregister", "mute",
                            "gone"}]
    /\ late \subseteq Workers
    /\ storage \subseteq Workers /\ lapsed \subseteq storage
    /\ events \in Seq([type : {"SET", "DELETE"}, id : Workers])
    /\ drained \in 0..Len(events)
    /\ adding \in Workers \cup {NoWorker}
    /\ current \subseteq Workers
    /\ servers \subseteq Servers
    /\ skipped \subseteq Workers /\ doubled \subseteq Servers

Pending(w) == \E i \in 1..Len(events) : events[i].id = w

(* The event at i is the last one about its worker.                        *)
IsLast(i) == \A j \in i+1..Len(events) : events[j].id # events[i].id

(* Whatever the watcher has still to hear about a worker ends with what    *)
(* the storage now says of it: _set, delete and _check_expired notify in   *)
(* the order in which they change _storage, and an exception in            *)
(* worker_event_loop takes no event out of the queue.                      *)
PendingAgrees ==
    \A i \in 1..Len(events) :
        IsLast(i) => (events[i].type = "SET" <=> events[i].id \in storage)

(* The processes that register with the host:port s.                       *)
At(s) == {w \in Workers : address[w] = s}

(* No exception dropped an event about s.                                  *)
Unharmed(s) == At(s) \cap skipped = {}

(* Nor was a process announced at s while another one was known there.     *)
Clean(s) == Unharmed(s) /\ s \notin doubled

(* When nothing about a host:port is pending and it is not being prepared, *)
(* a router lists it only if a process registered with it has its key in   *)
(* the storage, through lost calls, late calls and restarts.  If the       *)
(* processes there followed one another, each after the key of the one     *)
(* before was gone, it is listed exactly then.  The excepted cases are the *)
(* code's: an exception in the event loop drops what its batch said, and   *)
(* add_server ignores a listed address, which the expiry of the key of the *)
(* former process then takes away from the present one.                    *)
RouterFollowsStorage ==
    \A s \in Servers :
        Unharmed(s) /\ adding \notin At(s) /\ (\A w \in At(s) : ~Pending(w)) =>
            /\ s \in servers => At(s) \cap storage # {}
            /\ s \notin doubled /\ At(s) \cap storage # {} => s \in servers

(* A worker process whose heartbeat task runs is served again and again:   *)
(* after a lost heartbeat, an expired key or a restart of the              *)
(* disaggregated server it is registered again and the router hears of it, *)
(* a process restarted at the address of a former one included once the    *)
(* key of that one was gone.  The exceptions are those of                  *)
(* RouterFollowsStorage, and the process whose heartbeat task a timeout    *)
(* ended: it is alive and nobody registers it again.  Nothing is promised  *)
(* by a disaggregated server that restarts for ever.                       *)
EventuallyServed ==
    \A w \in Workers :
        <>[](Beats(w) /\ Clean(address[w])) /\ ~[]<><<Restart>>_vars
            => []<>(address[w] \in servers)

(* A host:port whose processes are gone, or no longer send heartbeats,     *)
(* leaves the router for good, even when a set call that was under way     *)
(* arrives after the key was deleted, and whatever order its processes     *)
(* registered in, unless an exception dropped an event about it.           *)
EventuallyForgotten ==
    \A s \in Servers :
        <>[](Unharmed(s) /\ \A w \in At(s) : ~Beats(w) /\ w \notin late)
            => <>[](s \notin servers)
=============================================================================
