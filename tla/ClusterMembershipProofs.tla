---------------------- MODULE ClusterMembershipProofs ----------------------
(***************************************************************************)
(* Proofs about ClusterMembership, for any number of workers, restarts and *)
(* pending events: its types, that the pending events end with what the    *)
(* storage says, and that the routers follow the storage.                  *)
(***************************************************************************)
EXTENDS ClusterMembership, TLAPS

Event == [type : {"SET", "DELETE"}, id : Workers]

IsFirst(i) == \A j \in 1..i-1 : events[j].id # events[i].id

\* Two successive events about one worker are of different types.
Alternate ==
    \A i, j \in 1..Len(events) :
        /\ i < j
        /\ events[i].id = events[j].id
        /\ \A k \in i+1..j-1 : events[k].id # events[i].id
        => events[i].type # events[j].type

\* The next event about a worker is news to the manager.
FirstIsNews ==
    \A i \in 1..Len(events) :
        IsFirst(i) /\ events[i].id \notin skipped => (events[i].type = "SET" <=> events[i].id \notin current)

\* Without events to come, the manager knows the stored workers.
KnowsStored ==
    \A w \in Workers \ skipped :
        ~Pending(w) => (w \in current <=> w \in storage)

\* A router lists only the servers of workers the manager knows, and those
\* of all of them where they were announced one after the other.
Listed ==
    /\ adding # NoWorker => adding \in current
    /\ \A s \in servers : \E w \in current : address[w] = s
    /\ \A w \in current : Clean(address[w]) =>
         /\ address[w] \in servers \/ adding = w
         /\ \A v \in current : address[v] = address[w] => v = w

AgreeInv == TypeOK /\ PendingAgrees
FollowInv == AgreeInv /\ Alternate /\ FirstIsNews /\ KnowsStored /\ Listed

\* The first k events are gone.
Shift(k) ==
    /\ k \in 0..Len(events)
    /\ events' \in Seq(Event)
    /\ Len(events') = Len(events) - k
    /\ \A i \in 1..Len(events') : events'[i] = events[i+k]

\* m events of type t about the workers W, one for each, are new.
Grow(m, t, W) ==
    /\ m \in Nat /\ t \in {"SET", "DELETE"} /\ W \subseteq Workers
    /\ events' \in Seq(Event)
    /\ Len(events') = Len(events) + m
    /\ \A i \in 1..Len(events) : events'[i] = events[i]
    /\ \A i \in Len(events)+1..Len(events)+m :
         events'[i].type = t /\ events'[i].id \in W
    /\ \A w \in W : \E i \in Len(events)+1..Len(events)+m : events'[i].id = w
    /\ \A i, j \in Len(events)+1..Len(events)+m :
         events'[i].id = events'[j].id => i = j
    /\ storage' = IF t = "SET" THEN storage \cup W ELSE storage \ W
    /\ IF t = "SET" THEN W \cap storage = {} ELSE W \subseteq storage

(* Taking events from the front leaves the last ones.                      *)
LEMMA AgreesShift ==
  ASSUME AgreeInv, NEW k, Shift(k), storage' = storage
  PROVE  PendingAgrees'
  <1>. SUFFICES ASSUME NEW i \in 1..Len(events'), IsLast(i)'
                PROVE  events'[i].type = "SET" <=> events'[i].id \in storage
    BY DEF PendingAgrees
  <1>0. Len(events) \in Nat /\ k \in Nat /\ Len(events') \in Nat
    BY DEF AgreeInv, TypeOK, Shift
  <1>1. i + k \in 1..Len(events) /\ events'[i] = events[i+k]
    BY <1>0 DEF Shift
  <1>2. IsLast(i + k)
    <2>. SUFFICES ASSUME NEW j \in i+k+1..Len(events)
                  PROVE  events[j].id # events[i+k].id
      BY DEF IsLast
    <2>1. j - k \in i+1..Len(events') /\ events'[j-k] = events[j]
      BY <1>0, <1>1 DEF Shift
    <2>. QED
      BY <2>1, <1>1 DEF IsLast
  <1>. QED
    BY <1>1, <1>2 DEF AgreeInv, PendingAgrees

(* New events change the storage as they say.                              *)
LEMMA AgreesGrow ==
  ASSUME AgreeInv, NEW m, NEW t, NEW W, Grow(m, t, W)
  PROVE  PendingAgrees'
  <1>. SUFFICES ASSUME NEW i \in 1..Len(events'), IsLast(i)'
                PROVE  events'[i].type = "SET" <=> events'[i].id \in storage'
    BY DEF PendingAgrees
  <1>0. Len(events) \in Nat /\ m \in Nat /\ Len(events') = Len(events) + m
    BY DEF AgreeInv, TypeOK, Grow
  <1>1. CASE i > Len(events)
    BY <1>0, <1>1 DEF Grow
  <1>2. CASE i <= Len(events)
    <2>1. events'[i] = events[i]
      BY <1>0, <1>2 DEF Grow
    <2>2. IsLast(i)
      BY <1>0, <1>2, <2>1 DEF Grow, IsLast
    <2>3. events'[i].id \notin W
      BY <1>0, <1>2 DEF Grow, IsLast
    <2>. QED
      BY <1>0, <1>2, <2>1, <2>2, <2>3 DEF AgreeInv, PendingAgrees, Grow
  <1>. QED
    BY <1>0, <1>1, <1>2

(* New events alternate with the pending ones and are news.                *)
LEMMA FollowsGrow ==
  ASSUME FollowInv, NEW m, NEW t, NEW W, Grow(m, t, W),
         UNCHANGED <<current, skipped>>
  PROVE  Alternate' /\ FirstIsNews' /\ KnowsStored'
  <1>. USE DEF FollowInv, AgreeInv
  <1>0. /\ Len(events) \in Nat /\ m \in Nat /\ Len(events') = Len(events) + m
        /\ events \in Seq(Event)
    BY DEF TypeOK, Grow, Event
  <1>1. Alternate'
    <2>. SUFFICES ASSUME NEW i \in 1..Len(events'), NEW j \in 1..Len(events'),
                         i < j, events'[i].id = events'[j].id,
                         \A k \in i+1..j-1 : events'[k].id # events'[i].id
                  PROVE  events'[i].type # events'[j].type
      BY DEF Alternate
    <2>1. CASE j <= Len(events)
      <3>1. /\ i \in 1..Len(events) /\ j \in 1..Len(events)
            /\ \A k \in i..j : events'[k] = events[k]
        BY <1>0, <2>1 DEF Grow
      <3>2. \A k \in i+1..j-1 : events[k].id # events[i].id
        BY <3>1
      <3>. QED
        BY <3>1, <3>2 DEF Alternate
    <2>2. CASE j > Len(events)
      <3>1. i <= Len(events)
        BY <1>0, <2>2 DEF Grow
      <3>2. events'[i] = events[i] /\ events'[j].type = t /\ events'[j].id \in W
        BY <1>0, <2>2, <3>1 DEF Grow
      <3>3. IsLast(i)
        <4>. SUFFICES ASSUME NEW k \in i+1..Len(events)
                      PROVE  events[k].id # events[i].id
          BY DEF IsLast
        <4>1. k \in i+1..j-1 /\ events'[k] = events[k]
          BY <1>0, <2>2, <3>1 DEF Grow
        <4>. QED
          BY <3>2, <4>1
      <3>4. events[i].type = "SET" <=> events[i].id \in storage
        BY <1>0, <3>1, <3>3 DEF PendingAgrees
      <3>5. t \in {"SET", "DELETE"} /\ events[i].type \in {"SET", "DELETE"}
        <4>1. events[i] \in Event
          BY <1>0, <3>1
        <4>. QED
          BY <4>1 DEF Grow, Event
      <3>. QED
        BY <3>2, <3>4, <3>5 DEF Grow
    <2>. QED
      BY <1>0, <2>1, <2>2
  <1>2. FirstIsNews'
    <2>. SUFFICES ASSUME NEW i \in 1..Len(events'), IsFirst(i)',
                         events'[i].id \notin skipped
                  PROVE  events'[i].type = "SET" <=> events'[i].id \notin current
      BY DEF FirstIsNews
    <2>1. CASE i <= Len(events)
      <3>1. events'[i] = events[i] /\ IsFirst(i)
        BY <1>0, <2>1 DEF IsFirst, Grow
      <3>. QED
        BY <1>0, <2>1, <3>1 DEF FirstIsNews
    <2>2. CASE i > Len(events)
      <3>1. events'[i].type = t /\ events'[i].id \in W /\ events'[i].id \in Workers
        BY <1>0, <2>2 DEF Grow
      <3>2. ~Pending(events'[i].id)
        BY <1>0, <2>2 DEF IsFirst, Pending, Grow
      <3>3. events'[i].id \in current <=> events'[i].id \in storage
        BY <3>1, <3>2 DEF KnowsStored
      <3>. QED
        BY <3>1, <3>3 DEF Grow
    <2>. QED
      BY <1>0, <2>1, <2>2
  <1>3. KnowsStored'
    <2>. SUFFICES ASSUME NEW w \in Workers \ skipped, ~Pending(w)'
                  PROVE  w \in current <=> w \in storage'
      BY DEF KnowsStored
    <2>1. ~Pending(w) /\ w \notin W
      BY <1>0 DEF Pending, Grow
    <2>. QED
      BY <2>1 DEF KnowsStored, Grow
  <1>. QED
    BY <1>1, <1>2, <1>3

(* The manager takes the first event, about w, and follows it.             *)
LEMMA FollowsShift ==
  ASSUME FollowInv, Shift(1), NEW w \in Workers, events[1].id = w,
         UNCHANGED <<storage, skipped>>,
         current' = IF events[1].type = "SET" THEN current \cup {w}
                                              ELSE current \ {w}
  PROVE  Alternate' /\ FirstIsNews' /\ KnowsStored'
  <1>. USE DEF FollowInv, AgreeInv
  <1>0. /\ Len(events) \in Nat \ {0} /\ Len(events') = Len(events) - 1
        /\ \A i \in 1..Len(events') : events'[i] = events[i+1]
        /\ events \in Seq(Event)
        /\ \A i \in 1..Len(events) : events[i] \in Event
    <2>1. events \in Seq(Event) /\ Len(events) \in Nat
      BY DEF TypeOK, Event
    <2>2. \A i \in 1..Len(events) : events[i] \in Event
      BY <2>1
    <2>. QED
      BY <2>1, <2>2 DEF Shift
  <1>1. Alternate'
    <2>. SUFFICES ASSUME NEW i \in 1..Len(events'), NEW j \in 1..Len(events'),
                         i < j, events'[i].id = events'[j].id,
                         \A k \in i+1..j-1 : events'[k].id # events'[i].id
                  PROVE  events'[i].type # events'[j].type
      BY DEF Alternate
    <2>1. \A k \in (i+1)+1..(j+1)-1 : events[k].id # events[i+1].id
      <3>. TAKE k \in (i+1)+1..(j+1)-1
      <3>1. k-1 \in i+1..j-1 /\ events'[k-1] = events[k]
        BY <1>0
      <3>. QED
        BY <1>0, <3>1
    <2>2. events[i+1].type # events[j+1].type
      <3>1. /\ i+1 \in 1..Len(events) /\ j+1 \in 1..Len(events) /\ i+1 < j+1
            /\ events[i+1].id = events[j+1].id
        BY <1>0
      <3>. QED
        BY <2>1, <3>1 DEF Alternate
    <2>. QED
      BY <1>0, <2>2
  <1>2. FirstIsNews'
    <2>. SUFFICES ASSUME NEW i \in 1..Len(events'), IsFirst(i)',
                         events'[i].id \notin skipped
                  PROVE  events'[i].type = "SET" <=> events'[i].id \notin current'
      BY DEF FirstIsNews
    <2>0. /\ i+1 \in 1..Len(events) /\ events'[i] = events[i+1]
          /\ \A k \in 2..i : events[k].id # events[i+1].id
      <3>1. i+1 \in 1..Len(events) /\ events'[i] = events[i+1]
        BY <1>0
      <3>2. ASSUME NEW k \in 2..i PROVE events[k].id # events[i+1].id
        <4>1. k-1 \in 1..i-1 /\ events'[k-1] = events[k]
          BY <1>0
        <4>. QED
          BY <3>1, <4>1 DEF IsFirst
      <3>. QED
        BY <3>1, <3>2
    <2>1. CASE events[i+1].id = w
      <3>1. events[1].type # events[i+1].type
        BY <1>0, <2>0, <2>1 DEF Alternate
      <3>2. {events[1].type, events[i+1].type} \subseteq {"SET", "DELETE"}
        BY <1>0, <2>0 DEF Event
      <3>. QED
        BY <2>0, <2>1, <3>1, <3>2
    <2>2. CASE events[i+1].id # w
      <3>1. IsFirst(i+1)
        BY <1>0, <2>0, <2>2 DEF IsFirst
      <3>. QED
        BY <2>0, <2>2, <3>1 DEF FirstIsNews
    <2>. QED
      BY <2>1, <2>2
  <1>3. KnowsStored'
    <2>. SUFFICES ASSUME NEW v \in Workers \ skipped, ~Pending(v)'
                  PROVE  v \in current' <=> v \in storage
      BY DEF KnowsStored
    <2>1. \A k \in 2..Len(events) : events[k].id # v
      <3>. TAKE k \in 2..Len(events)
      <3>1. k-1 \in 1..Len(events') /\ events'[k-1] = events[k]
        BY <1>0
      <3>. QED
        BY <3>1 DEF Pending
    <2>2. CASE v = w
      <3>1. IsLast(1)
        BY <1>0, <2>1, <2>2 DEF IsLast
      <3>. QED
        BY <1>0, <2>2, <3>1 DEF PendingAgrees
    <2>3. CASE v # w
      <3>1. ~Pending(v)
        BY <1>0, <2>1, <2>3 DEF Pending
      <3>. QED
        BY <2>3, <3>1 DEF KnowsStored
    <2>. QED
      BY <2>2, <2>3
  <1>. QED
    BY <1>1, <1>2, <1>3

(* The workers of a batch that is given up are skipped, and nothing is     *)
(* lost about the others.                                                  *)
LEMMA FollowsDrop ==
  ASSUME FollowInv, Shift(drained), DropBatch, UNCHANGED <<storage, current>>
  PROVE  Alternate' /\ FirstIsNews' /\ KnowsStored'
  <1>. USE DEF FollowInv, AgreeInv
  <1>0. /\ Len(events) \in Nat /\ drained \in 0..Len(events)
        /\ Len(events') = Len(events) - drained
        /\ \A i \in 1..Len(events') : events'[i] = events[i+drained]
        /\ \A i \in 1..drained : events[i].id \in skipped'
        /\ skipped \subseteq skipped'
    BY DEF TypeOK, Shift, DropBatch
  <1> HIDE DEF FollowInv, AgreeInv
  <1>1. Alternate'
    <2>. SUFFICES ASSUME NEW i \in 1..Len(events'), NEW j \in 1..Len(events'),
                         i < j, events'[i].id = events'[j].id,
                         \A k \in i+1..j-1 : events'[k].id # events'[i].id
                  PROVE  events'[i].type # events'[j].type
      BY DEF Alternate
    <2>1. /\ i+drained \in 1..Len(events) /\ j+drained \in 1..Len(events)
          /\ events'[i] = events[i+drained] /\ events'[j] = events[j+drained]
          /\ i+drained < j+drained
      BY <1>0
    <2>2. ASSUME NEW k \in i+drained+1..j+drained-1
          PROVE  events[k].id # events[i+drained].id
      <3>1. k-drained \in i+1..j-1 /\ k-drained \in 1..Len(events')
            /\ (k-drained)+drained = k
        BY <1>0
      <3>2. events'[k-drained] = events[k]
        BY <1>0, <3>1
      <3>. QED
        BY <2>1, <3>1, <3>2
    <2>. QED
      BY <1>0, <2>1, <2>2 DEF Alternate, FollowInv
  <1>2. FirstIsNews'
    <2>. SUFFICES ASSUME NEW i \in 1..Len(events'), IsFirst(i)',
                         events'[i].id \notin skipped'
                  PROVE  events'[i].type = "SET" <=> events'[i].id \notin current
      BY DEF FirstIsNews
    <2>1. i+drained \in 1..Len(events) /\ events'[i] = events[i+drained]
      BY <1>0
    <2>2. ASSUME NEW k \in 1..i+drained-1
          PROVE  events[k].id # events[i+drained].id
      <3>1. CASE k <= drained
        BY <1>0, <2>1, <3>1
      <3>2. CASE k > drained
        <4>1. k-drained \in 1..i-1 /\ k-drained \in 1..Len(events')
              /\ (k-drained)+drained = k
          BY <1>0, <3>2
        <4>2. events'[k-drained] = events[k]
          BY <1>0, <4>1
        <4>. QED
          BY <2>1, <4>1, <4>2 DEF IsFirst
      <3>. QED
        BY <1>0, <3>1, <3>2
    <2>3. IsFirst(i+drained)
      BY <1>0, <2>1, <2>2 DEF IsFirst
    <2>. QED
      BY <1>0, <2>1, <2>3 DEF FirstIsNews, FollowInv
  <1>3. KnowsStored'
    <2>. SUFFICES ASSUME NEW w \in Workers \ skipped', ~Pending(w)'
                  PROVE  w \in current <=> w \in storage
      BY DEF KnowsStored
    <2>1. ASSUME NEW k \in 1..Len(events) PROVE events[k].id # w
      <3>1. CASE k <= drained
        BY <1>0, <3>1
      <3>2. CASE k > drained
        <4>1. k-drained \in 1..Len(events') /\ (k-drained)+drained = k
          BY <1>0, <3>2
        <4>2. events'[k-drained] = events[k]
          BY <1>0, <4>1
        <4>. QED
          BY <4>1, <4>2 DEF Pending
      <3>. QED
        BY <1>0, <3>1, <3>2
    <2>. QED
      BY ZenonT(60), <1>0, <2>1 DEF Pending, KnowsStored, FollowInv
  <1>. QED
    BY <1>1, <1>2, <1>3

(* What the operations of the storage do to the events.                    *)
LEMMA SetKeyShape ==
  ASSUME TypeOK, NEW w \in Workers, SetKey(w)
  PROVE  \/ UNCHANGED <<storage, lapsed, events>>
         \/ Grow(1, "SET", {w}) /\ lapsed' = lapsed
  <1>1. CASE w \in storage
    BY <1>1 DEF SetKey, store
  <1>2. CASE w \notin storage
    <2>1. events' = Append(events, Set(w)) /\ Set(w) \in Event
      BY <1>2 DEF SetKey, Set, Event
    <2>2. events \in Seq(Event) /\ Len(events) \in Nat
      BY DEF TypeOK, Event
    <2>3. /\ events' \in Seq(Event) /\ Len(events') = Len(events) + 1
          /\ events'[Len(events) + 1] = Set(w)
          /\ \A i \in 1..Len(events) : events'[i] = events[i]
      BY <2>1, <2>2
    <2>. QED
      BY <1>2, <2>2, <2>3 DEF Grow, SetKey, Set
  <1>. QED
    BY <1>1, <1>2

(* The same for delete.                                                    *)
LEMMA DeleteKeyShape ==
  ASSUME TypeOK, NEW w \in Workers, DeleteKey(w)
  PROVE  \/ UNCHANGED <<storage, events>> /\ w \notin storage
         \/ Grow(1, "DELETE", {w})
  <1>1. CASE w \notin storage
    BY <1>1 DEF DeleteKey
  <1>2. CASE w \in storage
    <2>1. events' = Append(events, Delete(w)) /\ Delete(w) \in Event
      BY <1>2 DEF DeleteKey, Delete, Event
    <2>2. events \in Seq(Event) /\ Len(events) \in Nat
      BY DEF TypeOK, Event
    <2>3. /\ events' \in Seq(Event) /\ Len(events') = Len(events) + 1
          /\ events'[Len(events) + 1] = Delete(w)
          /\ \A i \in 1..Len(events) : events'[i] = events[i]
      BY <2>1, <2>2
    <2>. QED
      BY <1>2, <2>2, <2>3 DEF Grow, DeleteKey, Delete
  <1>. QED
    BY <1>1, <1>2

(* The same for _check_expired.                                            *)
LEMMA CheckExpiredShape ==
  ASSUME TypeOK, CheckExpired
  PROVE  \E m \in Nat : Grow(m, "DELETE", lapsed)
  <1>0. PICK m \in 1..Cardinality(Workers) : \E order \in Orders(lapsed, m) :
          events' = events \o [i \in 1..m |-> Delete(order[i])]
    BY ZenonT(60) DEF CheckExpired
  <1>1. PICK order \in Orders(lapsed, m) :
          events' = events \o [i \in 1..m |-> Delete(order[i])]
    BY <1>0
  <1> DEFINE new == [i \in 1..m |-> Delete(order[i])]
  <1>2. m \in Nat
    OBVIOUS
  <1>3. /\ order \in [1..m -> lapsed]
        /\ \A w \in lapsed : \E i \in 1..m : order[i] = w
        /\ \A i, j \in 1..m : order[i] = order[j] => i = j
    BY DEF Orders
  <1>4. new \in Seq(Event) /\ Len(new) = m
    <2>1. new \in [1..m -> Event]
      BY <1>3 DEF Delete, Event, TypeOK
    <2>. QED
      BY <1>2, <2>1
  <1>5. \A i \in 1..m : new[i].type = "DELETE" /\ new[i].id = order[i]
    BY DEF Delete
  <1> HIDE DEF new
  <1>6. events \in Seq(Event) /\ Len(events) \in Nat /\ events' = events \o new
    BY <1>1 DEF TypeOK, Event, new
  <1>7. /\ events' \in Seq(Event) /\ Len(events') = Len(events) + m
        /\ \A i \in 1..Len(events) + m :
             events'[i] = IF i <= Len(events) THEN events[i]
                                              ELSE new[i - Len(events)]
    <2>1. new \in Seq(Event) /\ events \in Seq(Event)
      BY <1>4, <1>6
    <2>2. events \o new \in Seq(Event)
      BY <2>1
    <2>3. Len(events \o new) = Len(events) + Len(new)
      BY <2>1
    <2>4. \A i \in 1..Len(events) + Len(new) :
             (events \o new)[i] = IF i <= Len(events) THEN events[i]
                                              ELSE new[i - Len(events)]
      BY <2>1
    <2>. QED
      BY <1>4, <1>6, <2>2, <2>3, <2>4
  <1>8. \A i \in 1..m : /\ i + Len(events) \in Len(events)+1..Len(events)+m
                        /\ events'[i + Len(events)] = new[i]
    BY <1>2, <1>6, <1>7
  <1>9. \A i \in Len(events)+1..Len(events)+m :
           i - Len(events) \in 1..m /\ events'[i] = new[i - Len(events)]
    BY <1>2, <1>6, <1>7
  <1>10. \A i \in Len(events)+1..Len(events)+m :
           events'[i].type = "DELETE" /\ events'[i].id = order[i - Len(events)]
    BY <1>5, <1>9
  <1>11. ASSUME NEW w \in lapsed
         PROVE  \E i \in Len(events)+1..Len(events)+m : events'[i].id = w
    <2>1. PICK i \in 1..m : order[i] = w
      BY <1>3
    <2>. QED
      BY <1>5, <1>8, <2>1
  <1>12. ASSUME NEW i \in Len(events)+1..Len(events)+m,
                NEW j \in Len(events)+1..Len(events)+m,
                events'[i].id = events'[j].id
         PROVE  i = j
    <2>1. i - Len(events) = j - Len(events)
      BY <1>3, <1>9, <1>10, <1>12
    <2>. QED
      BY <1>6, <2>1, <1>2
  <1>13. \A i \in Len(events)+1..Len(events)+m : events'[i].id \in lapsed
    BY <1>3, <1>9, <1>10
  <1>14. \A i \in 1..Len(events) : events'[i] = events[i]
    BY <1>2, <1>6, <1>7
  <1>15. storage' = storage \ lapsed /\ lapsed \subseteq storage /\ lapsed \subseteq Workers
    BY DEF CheckExpired, TypeOK
  <1>16. Grow(m, "DELETE", lapsed)
    BY <1>2, <1>7, <1>10, <1>11, <1>12, <1>13, <1>14, <1>15 DEF Grow
  <1>. QED
    BY <1>2, <1>16

(* What the event loop does to them.                                       *)
LEMMA NextEventShape ==
  ASSUME TypeOK, NEW e, NextEvent(e)
  PROVE  Shift(1) /\ events[1] = e /\ drained' \in 0..Len(events')
  <1>1. events \in Seq(Event) /\ Len(events) \in Nat /\ events # << >>
    BY DEF TypeOK, Event, NextEvent
  <1>2. /\ events' \in Seq(Event) /\ Len(events') = Len(events) - 1
        /\ \A i \in 1..Len(events') : events'[i] = events[i+1]
    BY <1>1 DEF NextEvent
  <1>. QED
    BY <1>1, <1>2 DEF Shift, NextEvent, TypeOK

(* An exception drops the batch and keeps the queue.                       *)
LEMMA DropBatchShape ==
  ASSUME TypeOK, DropBatch
  PROVE  /\ Shift(drained) /\ drained' \in 0..Len(events')
         /\ skipped' \subseteq Workers
  <1>1. events \in Seq(Event) /\ Len(events) \in Nat /\ drained \in 0..Len(events)
    BY DEF TypeOK, Event
  <1>2. \A i \in 1..Len(events) : events[i] \in Event
    BY <1>1
  <1>3. /\ events' \in Seq(Event) /\ Len(events') = Len(events) - drained
        /\ \A i \in 1..Len(events') : events'[i] = events[i+drained]
    <2>1. \A i \in drained+1..Len(events) : events[i] \in Event
      BY <1>1, <1>2
    <2>. QED
      BY <1>1, <2>1 DEF DropBatch
  <1>4. \A i \in 1..drained : events[i].id \in Workers
    BY <1>1, <1>2 DEF Event
  <1>5. skipped' \subseteq Workers
    BY <1>4 DEF DropBatch, TypeOK
  <1>. QED
    BY <1>1, <1>3, <1>5 DEF Shift, DropBatch

\* The steps, told apart by what they do to the events.
Announces ==
    /\ \E m, t, W : Grow(m, t, W)
    /\ UNCHANGED <<address, adding, current, servers, skipped, doubled>>
Quiet == UNCHANGED <<address, storage, events, adding, current, servers,
                     skipped, doubled>>
Follows(w) ==
    /\ Shift(1) /\ UNCHANGED <<address, storage, skipped>>
    /\ \/ SetEvent(w) /\ events[1] = Set(w)
       \/ DeleteEvent(w) /\ events[1] = Delete(w)
GivesUp ==
    /\ Shift(drained) /\ DropBatch
    /\ adding' = NoWorker
    /\ UNCHANGED <<address, storage, current, servers, doubled>>

(* A growing queue keeps its type.                                         *)
LEMMA GrowTypes ==
  ASSUME TypeOK, NEW m, NEW t, NEW W, Grow(m, t, W), UNCHANGED drained
  PROVE  /\ events' \in Seq([type : {"SET", "DELETE"}, id : Workers])
         /\ drained' \in 0..Len(events')
         /\ storage' \subseteq Workers
  <1>1. Len(events) \in Nat /\ m \in Nat /\ Len(events') = Len(events) + m
    BY DEF TypeOK, Grow
  <1>. QED
    BY <1>1 DEF TypeOK, Grow, Event

(* Every step keeps the types and is of one of these kinds.                *)
LEMMA Steps ==
  ASSUME TypeOK, [Next]_vars
  PROVE  /\ TypeOK'
         /\ \/ Announces \/ Quiet \/ GivesUp \/ AddServer \/ Restart
            \/ \E w \in Workers : Follows(w)
  <1>. USE DEF vars, worker, store, manager, history
  <1>1. CASE UNCHANGED vars
    BY <1>1 DEF TypeOK, Quiet
  <1>2. CASE Drain
    BY <1>2 DEF Drain, TypeOK, Quiet
  <1>3. CASE AddServer
    BY <1>3, MembershipAssumption DEF AddServer, TypeOK
  <1>4. CASE PrepareRaises
    <2>1. /\ Shift(drained) /\ drained' \in 0..Len(events')
          /\ skipped' \subseteq Workers
      BY <1>4, DropBatchShape DEF PrepareRaises
    <2>. QED
      BY <1>4, <2>1 DEF PrepareRaises, TypeOK, GivesUp, Shift, Event
  <1>5. ASSUME NEW w \in Workers, SetEvent(w)
        PROVE  TypeOK' /\ Follows(w)
    <2>1. Shift(1) /\ events[1] = Set(w) /\ drained' \in 0..Len(events')
      BY <1>5, NextEventShape DEF SetEvent
    <2>2. doubled' \subseteq Servers
      BY <1>5, MembershipAssumption DEF SetEvent, TypeOK
    <2>. QED
      BY <1>5, <2>1, <2>2 DEF SetEvent, TypeOK, Follows, Shift, Event
  <1>6. ASSUME NEW w \in Workers, DeleteEvent(w)
        PROVE  TypeOK' /\ Follows(w)
    <2>1. Shift(1) /\ events[1] = Delete(w) /\ drained' \in 0..Len(events')
      BY <1>6, NextEventShape DEF DeleteEvent
    <2>. QED
      BY <1>6, <2>1 DEF DeleteEvent, TypeOK, Follows, Shift, Event
  <1>7. ASSUME NEW w \in Workers, UnknownWorker(w)
        PROVE  TypeOK' /\ GivesUp
    <2>1. /\ Shift(drained) /\ drained' \in 0..Len(events')
          /\ skipped' \subseteq Workers
      BY <1>7, DropBatchShape DEF UnknownWorker
    <2>. QED
      BY <1>7, <2>1 DEF UnknownWorker, TypeOK, GivesUp, Shift, Event
  <1>8. CASE CheckExpired
    <2>1. PICK m \in Nat : Grow(m, "DELETE", lapsed)
      BY <1>8, CheckExpiredShape
    <2>2. UNCHANGED drained
      BY <1>8 DEF CheckExpired, manager
    <2>. QED
      BY ZenonT(60), <1>8, <2>1, <2>2, GrowTypes
      DEF CheckExpired, TypeOK, Announces, worker, manager, history
  <1>9. CASE Restart
    <2>1. /\ events' \in Seq([type : {"SET", "DELETE"}, id : Workers])
          /\ drained' \in 0..Len(events')
      BY <1>9 DEF Restart
    <2>. QED
      BY <1>9, <2>1 DEF Restart, TypeOK
  <1>10. ASSUME NEW w \in Workers, SetKey(w), UNCHANGED <<address, manager, history>>,
                process' \in [Workers -> {"off", "register", "run",
                                          "reregister", "mute", "gone"}],
                late' \subseteq Workers
         PROVE  TypeOK' /\ (Announces \/ Quiet)
    <2>1. CASE UNCHANGED <<storage, lapsed, events>>
      BY <1>10, <2>1 DEF TypeOK, Quiet
    <2>2. CASE Grow(1, "SET", {w}) /\ lapsed' = lapsed
      <3>1. storage \subseteq storage'
        BY <2>2 DEF Grow
      <3>. QED
        BY ZenonT(60), <1>10, <2>2, <3>1, GrowTypes DEF TypeOK, Announces
    <2>. QED
      BY <1>10, <2>1, <2>2, SetKeyShape
  <1>11. ASSUME NEW w \in Workers,
                \/ Start(w) \/ Heartbeat(w) \/ HeartbeatFails(w)
                \/ Crash(w) \/ Lapse(w)
         PROVE  TypeOK' /\ Quiet
    <2>1. CASE Start(w)
      BY <2>1 DEF Start, TypeOK, Quiet
    <2>2. CASE Heartbeat(w)
      BY <2>2 DEF Heartbeat, AfterExpire, ExpireKey, TypeOK, Quiet
    <2>3. CASE HeartbeatFails(w)
      BY <2>3 DEF HeartbeatFails, AfterExpire, ExpireKey, TimesOut, TypeOK, Quiet
    <2>4. CASE Crash(w)
      BY <2>4 DEF Crash, TypeOK, Quiet
    <2>5. CASE Lapse(w)
      BY <2>5 DEF Lapse, TypeOK, Quiet
    <2>. QED
      BY <1>11, <2>1, <2>2, <2>3, <2>4, <2>5
  <1>12. ASSUME NEW w \in Workers, RegisterWorker(w)
         PROVE  TypeOK' /\ (Announces \/ Quiet)
    <2>1. /\ process' \in [Workers -> {"off", "register", "run",
                                       "reregister", "mute", "gone"}]
          /\ late' \subseteq Workers
      BY <1>12 DEF RegisterWorker, AfterSet, TypeOK
    <2>. QED
      BY <1>10, <1>12, <2>1 DEF RegisterWorker
  <1>13. ASSUME NEW w \in Workers, RegisterFails(w)
         PROVE  TypeOK' /\ (Announces \/ Quiet)
    <2>1. /\ process' \in [Workers -> {"off", "register", "run",
                                       "reregister", "mute", "gone"}]
          /\ late' \subseteq Workers
      BY <1>13 DEF RegisterFails, AfterSet, TimesOut, TypeOK
    <2>2. CASE SetKey(w)
      BY ZenonT(60), <1>10, <1>13, <2>1, <2>2 DEF RegisterFails
    <2>3. CASE UNCHANGED <<store, events>>
      BY ZenonT(60), <1>13, <2>1, <2>3 DEF RegisterFails, TypeOK, Quiet
    <2>. QED
      BY <1>13, <2>2, <2>3 DEF RegisterFails
  <1>14. ASSUME NEW w \in Workers, LateSet(w)
         PROVE  TypeOK' /\ (Announces \/ Quiet)
    <2>1. /\ process' \in [Workers -> {"off", "register", "run",
                                       "reregister", "mute", "gone"}]
          /\ late' \subseteq Workers
      BY <1>14 DEF LateSet, TypeOK
    <2>. QED
      BY <1>10, <1>14, <2>1 DEF LateSet
  <1>15. ASSUME NEW w \in Workers, DeregisterWorker(w)
         PROVE  TypeOK' /\ (Announces \/ Quiet)
    <2>1. /\ process' \in [Workers -> {"off", "register", "run",
                                       "reregister", "mute", "gone"}]
          /\ late' \subseteq Workers
      BY <1>15 DEF DeregisterWorker, TypeOK
    <2>2. CASE UNCHANGED <<store, events>>
      BY <1>15, <2>1, <2>2 DEF DeregisterWorker, TypeOK, Quiet
    <2>3. CASE DeleteKey(w)
      <3>1. storage' = storage \ {w} /\ lapsed' = lapsed \ {w}
        BY <2>3 DEF DeleteKey
      <3>2. CASE UNCHANGED <<storage, events>>
        BY <1>15, <2>1, <3>1, <3>2 DEF DeregisterWorker, TypeOK, Quiet
      <3>3. CASE Grow(1, "DELETE", {w})
        BY ZenonT(60), <1>15, <2>1, <3>1, <3>3, GrowTypes
        DEF DeregisterWorker, TypeOK, Announces
      <3>. QED
        BY <2>3, <3>2, <3>3, DeleteKeyShape
    <2>. QED
      BY <1>15, <2>2, <2>3 DEF DeregisterWorker
  <1>. QED
    BY <1>1, <1>2, <1>3, <1>4, <1>5, <1>6, <1>7, <1>8, <1>9, <1>11, <1>12,
       <1>13, <1>14, <1>15 DEF Next, EventLoop

(* The pending events end with what the storage says: inductive as it is.  *)
THEOREM AgreeInductive == Spec => []AgreeInv
  <1>1. Init => AgreeInv
    BY MembershipAssumption DEF Init, AgreeInv, TypeOK, PendingAgrees
  <1>2. ASSUME AgreeInv, [Next]_vars PROVE AgreeInv'
    <2>1. TypeOK'
      BY <1>2, Steps DEF AgreeInv
    <2>2. CASE Announces
      BY <1>2, <2>1, <2>2, AgreesGrow DEF Announces, AgreeInv
    <2>3. CASE Quiet
      BY <1>2, <2>1, <2>3 DEF Quiet, AgreeInv, PendingAgrees, IsLast
    <2>4. CASE GivesUp
      BY <1>2, <2>1, <2>4, AgreesShift DEF GivesUp, AgreeInv
    <2>5. CASE AddServer
      BY <1>2, <2>1, <2>5 DEF AddServer, AgreeInv, PendingAgrees, IsLast, store
    <2>6. CASE Restart
      BY <2>1, <2>6 DEF Restart, AgreeInv, PendingAgrees
    <2>7. ASSUME NEW w \in Workers, Follows(w) PROVE AgreeInv'
      BY <1>2, <2>1, <2>7, AgreesShift DEF Follows, AgreeInv
    <2>. QED
      BY <1>2, <2>2, <2>3, <2>4, <2>5, <2>6, <2>7, Steps DEF AgreeInv
  <1>. QED
    BY <1>1, <1>2, PTL DEF Spec

(* The state of the workers, the storage, the manager and the routers      *)
(* keeps its type; a drained batch is never longer than what is pending.   *)
THEOREM MembershipTypes == Spec => []TypeOK
  <1>1. AgreeInv => TypeOK
    BY DEF AgreeInv
  <1>. QED
    BY <1>1, AgreeInductive, PTL

(* Whatever happens to batches, the watcher is still to hear the truth     *)
(* about every worker it has pending events for.                           *)
THEOREM PendingIsTrue == Spec => []PendingAgrees
  <1>1. AgreeInv => PendingAgrees
    BY DEF AgreeInv
  <1>. QED
    BY <1>1, AgreeInductive, PTL

(* What SetEvent does to the lists of the routers.                         *)
LEMMA ListedSet ==
  ASSUME FollowInv, NEW w \in Workers, SetEvent(w), events[1] = Set(w),
         UNCHANGED <<address, skipped>>
  PROVE  Listed'
  <1>0. /\ adding = NoWorker /\ servers' = servers
        /\ current' = current \cup {w} /\ current \subseteq Workers
        /\ address' = address /\ skipped' = skipped
        /\ doubled \subseteq doubled'
        /\ adding' = IF address[w] \in servers THEN NoWorker ELSE w
        /\ (\E v \in current \ {w} : address[v] = address[w])
              => address[w] \in doubled'
    BY DEF SetEvent, NextEvent, FollowInv, AgreeInv, TypeOK
  <1>1. adding' # NoWorker => adding' \in current'
    BY <1>0
  <1>2. \A s \in servers' : \E v \in current' : address'[v] = s
    BY <1>0 DEF FollowInv, Listed
  <1>3. \A s : Clean(s)' => Clean(s)
    BY <1>0 DEF Clean, Unharmed, At
  <1>4. ASSUME NEW u \in current', Clean(address[u])'
        PROVE  /\ address[u] \in servers \/ adding' = u
               /\ \A v \in current' : address[v] = address[u] => v = u
    <2>1. Clean(address[u]) /\ address[u] \notin doubled'
      BY <1>3, <1>4 DEF Clean
    <2>2. CASE u = w
      BY <1>0, <2>1, <2>2
    <2>3. CASE u # w
      <3>1. u \in current
        BY <1>0, <2>3
      <3>2. /\ address[u] \in servers
            /\ \A v \in current : address[v] = address[u] => v = u
        BY <1>0, <2>1, <3>1, MembershipAssumption DEF FollowInv, Listed
      <3>3. address[w] # address[u]
        BY <1>0, <2>1, <2>3, <3>1
      <3>. QED
        BY <1>0, <3>2, <3>3
    <2>. QED
      BY <2>2, <2>3
  <1>. QED
    BY <1>0, <1>1, <1>2, <1>4 DEF Listed

(* And what DeleteEvent does.                                              *)
LEMMA ListedDelete ==
  ASSUME FollowInv, NEW w \in Workers, DeleteEvent(w),
         UNCHANGED <<address, skipped>>
  PROVE  Listed'
  <1>0. /\ adding = NoWorker /\ adding' = NoWorker
        /\ w \in current /\ current' = current \ {w}
        /\ servers' = servers \ {address[w]}
        /\ address' = address /\ skipped' = skipped /\ doubled' = doubled
    BY DEF DeleteEvent, NextEvent, history
  <1>1. \A s \in servers' : \E v \in current' : address'[v] = s
    BY <1>0 DEF FollowInv, Listed
  <1>2. \A s : Clean(s)' => Clean(s)
    BY <1>0 DEF Clean, Unharmed, At
  <1>3. ASSUME NEW u \in current', Clean(address[u])
        PROVE  /\ address[u] \in servers'
               /\ \A v \in current' : address[v] = address[u] => v = u
    <2>1. /\ address[u] \in servers \/ adding = u
          /\ \A v \in current : address[v] = address[u] => v = u
      BY <1>0, <1>3 DEF FollowInv, Listed
    <2>2. u # NoWorker
      BY <1>0, MembershipAssumption DEF FollowInv, AgreeInv, TypeOK
    <2>. QED
      BY <1>0, <2>1, <2>2
  <1>. QED
    BY <1>0, <1>1, <1>2, <1>3 DEF Listed

(* Every step keeps FollowInv.                                             *)
LEMMA FollowStep ==
  ASSUME FollowInv, [Next]_vars, AgreeInv'
  PROVE  FollowInv'
  <1>0. TypeOK /\ AgreeInv
    BY DEF FollowInv, AgreeInv
  <1>1. CASE Announces
    <2>1. Alternate' /\ FirstIsNews' /\ KnowsStored'
      BY <1>1, FollowsGrow DEF Announces
    <2>2. Listed'
      BY <1>1 DEF Announces, FollowInv, Listed, Clean, Unharmed, At
    <2>. QED
      BY <2>1, <2>2 DEF FollowInv
  <1>2. CASE Quiet
    <2>1. Alternate' /\ FirstIsNews'
      BY <1>2 DEF FollowInv, Quiet, Alternate, FirstIsNews, IsFirst
    <2>2. KnowsStored'
      BY <1>2 DEF FollowInv, Quiet, KnowsStored, Pending
    <2>3. Listed'
      BY <1>2 DEF FollowInv, Quiet, Listed, Clean, Unharmed, At
    <2>. QED
      BY <2>1, <2>2, <2>3 DEF FollowInv
  <1>3. CASE GivesUp
    <2>1. Alternate' /\ FirstIsNews' /\ KnowsStored'
      BY <1>3, FollowsDrop DEF GivesUp
    <2>2. /\ UNCHANGED <<address, current, servers, doubled>>
          /\ adding' = NoWorker /\ skipped \subseteq skipped'
          /\ adding # NoWorker => adding \in skipped'
      BY <1>3 DEF GivesUp, DropBatch
    <2>3. \A s : Clean(s)' => Clean(s)
      BY <2>2 DEF Clean, Unharmed, At
    <2>4. ASSUME NEW w \in current, Clean(address[w])'
          PROVE  w # adding
      BY <1>0, <2>2, <2>4, MembershipAssumption DEF Clean, Unharmed, At, TypeOK
    <2>5. Listed'
      BY <2>2, <2>3, <2>4 DEF FollowInv, Listed
    <2>. QED
      BY <2>1, <2>5 DEF FollowInv
  <1>4. CASE AddServer
    <2>1. Alternate' /\ FirstIsNews'
      BY <1>4 DEF FollowInv, AddServer, Alternate, FirstIsNews, IsFirst, history
    <2>2. KnowsStored'
      BY <1>4 DEF FollowInv, AddServer, KnowsStored, Pending, store, history
    <2>3. Listed'
      <3>1. /\ adding \in current /\ adding' = NoWorker
            /\ servers' = servers \cup {address[adding]}
            /\ UNCHANGED <<address, current, skipped, doubled>>
        BY <1>4 DEF FollowInv, AddServer, Listed, history, worker
      <3>2. \A s : Clean(s)' => Clean(s)
        BY <3>1 DEF Clean, Unharmed, At
      <3>. QED
        BY <3>1, <3>2 DEF FollowInv, Listed
    <2>. QED
      BY <2>1, <2>2, <2>3 DEF FollowInv
  <1>5. CASE Restart
    <2>1. Alternate' /\ FirstIsNews' /\ KnowsStored'
      BY <1>5 DEF Restart, Alternate, FirstIsNews, KnowsStored
    <2>2. Listed'
      BY <1>5 DEF Restart, Listed
    <2>. QED
      BY <2>1, <2>2 DEF FollowInv
  <1>6. ASSUME NEW w \in Workers, Follows(w) PROVE FollowInv'
    <2>1. CASE SetEvent(w) /\ events[1] = Set(w)
      <3>1. Alternate' /\ FirstIsNews' /\ KnowsStored'
        BY <1>6, <2>1, FollowsShift DEF Follows, SetEvent, Set
      <3>2. Listed'
        BY <1>6, <2>1, ListedSet DEF Follows
      <3>. QED
        BY <3>1, <3>2 DEF FollowInv
    <2>2. CASE DeleteEvent(w) /\ events[1] = Delete(w)
      <3>1. Alternate' /\ FirstIsNews' /\ KnowsStored'
        BY <1>6, <2>2, FollowsShift DEF Follows, DeleteEvent, Delete
      <3>2. Listed'
        BY <1>6, <2>2, ListedDelete DEF Follows
      <3>. QED
        BY <3>1, <3>2 DEF FollowInv
    <2>. QED
      BY <1>6, <2>1, <2>2 DEF Follows
  <1>. QED
    BY <1>0, <1>1, <1>2, <1>3, <1>4, <1>5, <1>6, Steps

(* Once nothing is pending about a host:port, a router lists it only if a  *)
(* process there has its key in the storage, and always does if the        *)
(* processes there were announced one after the other; the servers whose   *)
(* events an exception dropped are excepted.                               *)
THEOREM RoutersFollow == Spec => []RouterFollowsStorage
  <1>1. Init => FollowInv
    <2>. SUFFICES ASSUME Init PROVE FollowInv
      OBVIOUS
    <2>1. AgreeInv
      BY MembershipAssumption DEF Init, AgreeInv, TypeOK, PendingAgrees
    <2>2. Alternate /\ FirstIsNews /\ KnowsStored /\ Listed
      BY DEF Init, Alternate, FirstIsNews, KnowsStored, Listed
    <2>. QED
      BY <2>1, <2>2 DEF FollowInv
  <1>2. FollowInv /\ AgreeInv' /\ [Next]_vars => FollowInv'
    BY FollowStep
  <1>3. FollowInv => RouterFollowsStorage
    <2>. SUFFICES ASSUME FollowInv, NEW s \in Servers, Unharmed(s),
                         adding \notin At(s), \A w \in At(s) : ~Pending(w)
                  PROVE  /\ s \in servers => At(s) \cap storage # {}
                         /\ s \notin doubled /\ At(s) \cap storage # {}
                              => s \in servers
      BY DEF RouterFollowsStorage
    <2>0. current \subseteq Workers
      BY DEF FollowInv, AgreeInv, TypeOK
    <2>1. \A w \in At(s) : w \in current <=> w \in storage
      BY DEF FollowInv, KnowsStored, Unharmed, At
    <2>2. ASSUME s \in servers PROVE At(s) \cap storage # {}
      BY <2>0, <2>1, <2>2 DEF FollowInv, Listed, At
    <2>3. ASSUME s \notin doubled, NEW w \in At(s), w \in storage
          PROVE  s \in servers
      BY <2>1, <2>3 DEF FollowInv, Listed, At, Clean
    <2>. QED
      BY <2>2, <2>3
  <1>. QED
    BY <1>1, <1>2, <1>3, AgreeInductive, PTL DEF Spec
=============================================================================
