-------------------------- MODULE NwcRelays_proofs --------------------------
(***************************************************************************)
(* Theorems about NwcRelays, for any apps, wallets, relay lists and        *)
(* handlers, as long as the ring has room for all relays and one Set is    *)
(* open at a time.                                                         *)
(***************************************************************************)
EXTENDS NwcRelays, FiniteSetTheorems, TLAPS

(* What the theorems about the ring assume.  NwcRelays with Overlap, or    *)
(* with more relays than rows, loses relays.                               *)
RingSuffices == ~Overlap /\ IsFiniteSet(Relays) /\ Cardinality(Relays) <= MaxRelays

Occupied(r) == {i \in Ids : r[i] # None}

(* The used rows are the first n, and no url is in two of them. *)
Ring(r) ==
  /\ \E n \in 0..MaxRelays : \A i \in Ids : r[i] # None <=> i < n
  /\ \A i, j \in Ids : i # j /\ r[i] # None => r[i] # r[j]

Requests ==
  [at : {"idle", "upserted", "linking", "stored"}, app : Apps \cup {None},
   list : Seq(Relays), left : Seq(Relays), byUrl : SUBSET (Relays \X Ids),
   rows : [Ids -> Relays \cup {None}], links : SUBSET (Apps \X Ids)]

Typed ==
  /\ hooks \subseteq Apps
  /\ rows \in [Ids -> Relays \cup {None}]
  /\ links \subseteq hooks \X Occupied(rows)
  /\ subs \in [Wallets -> [apps : SUBSET Apps, relays : SUBSET Relays]]
  /\ latest \in [Apps -> SUBSET Relays] /\ asked \in [Apps -> SUBSET Relays]
  /\ wanted \in [Apps -> SUBSET Relays]
  /\ job \in [Handlers -> Requests]
  /\ \A h \in Handlers : job[h].at # "idle" => job[h].app \in Apps

(* The relays an app will be linked to when the transaction of h commits. *)
Linked(h) ==
  {Seen(h)[i] : i \in {j \in Ids : <<job[h].app, j>> \in links \cup job[h].links}}

(* An open transaction has overwritten no row, sees a ring, has linked     *)
(* what it has taken from its list, and its map says what it sees.         *)
Transaction(h) ==
  /\ \A i \in Ids : rows[i] # None => job[h].rows[i] = None
  /\ Ring(Seen(h))
  /\ job[h].links \subseteq {job[h].app} \X Occupied(Seen(h))
  /\ Linked(h) \cup ToSet(job[h].left) = asked[job[h].app] \cup ToSet(job[h].list)
  /\ job[h].at = "upserted" => job[h].rows = NoRows
  /\ job[h].at = "linking" => job[h].byUrl = {<<Seen(h)[i], i>> : i \in Occupied(Seen(h))}

Tables ==
  /\ \A g, h \in Open : g = h
  /\ Ring(rows)
  /\ \A a \in Apps : StoredRelays(a) = asked[a] /\ latest[a] \subseteq asked[a]
  /\ \A h \in Open : Transaction(h)

(* An app that is not subscribed wants nothing. *)
Subscribed ==
  \A a \in Apps :
    /\ wanted[a] \subseteq subs[WalletOf[a]].relays
    /\ a \notin subs[WalletOf[a]].apps => wanted[a] = {}

Inv == Typed /\ Tables /\ Subscribed

-----------------------------------------------------------------------------
(* Rings and lists *)

LEMMA Size == MaxRelays \in Nat /\ MaxRelays > 0 /\ Ids = 0..(MaxRelays - 1) /\ Ids \subseteq Nat
  BY RelaysAssumption DEF Ids

LEMMA NoneApart == None \notin Relays /\ None \notin Apps
  BY RelaysAssumption

(* Taking the first relay off a list. *)
LEMMA FirstOff ==
  ASSUME NEW l \in Seq(Relays), l # <<>>
  PROVE  /\ Head(l) \in Relays /\ Tail(l) \in Seq(Relays)
         /\ ToSet(l) = {Head(l)} \cup ToSet(Tail(l))
<1>1. /\ Len(l) \in Nat \ {0} /\ DOMAIN l = 1..Len(l) /\ Head(l) = l[1] /\ l[1] \in Relays
      /\ Tail(l) \in Seq(Relays) /\ DOMAIN Tail(l) = 1..(Len(l) - 1)
      /\ \A i \in 1..(Len(l) - 1) : Tail(l)[i] = l[i + 1]
  OBVIOUS
<1>2. \A i \in 1..Len(l) : i = 1 \/ i - 1 \in 1..(Len(l) - 1)
  BY <1>1
<1>3. \A i \in 1..(Len(l) - 1) : i + 1 \in 1..Len(l)
  BY <1>1
<1>4. ASSUME NEW x \in ToSet(l)
      PROVE  x \in {Head(l)} \cup ToSet(Tail(l))
  <2>1. PICK i \in 1..Len(l) : x = l[i]
    BY <1>1, <1>4 DEF ToSet
  <2>2. CASE i = 1
    BY <1>1, <2>1, <2>2
  <2>3. CASE i - 1 \in 1..(Len(l) - 1)
    <3>1. Tail(l)[i - 1] = l[i]
      BY <1>1, <2>3
    <3> QED BY <1>1, <2>1, <2>3, <3>1 DEF ToSet
  <2> QED BY <1>2, <2>2, <2>3
<1>5. ASSUME NEW x \in {Head(l)} \cup ToSet(Tail(l))
      PROVE  x \in ToSet(l)
  BY <1>1, <1>3, <1>5 DEF ToSet
<1> QED BY <1>1, <1>4, <1>5

LEMMA ListOfRelays ==
  ASSUME NEW l \in Seq(Relays)
  PROVE  ToSet(l) \subseteq Relays
  BY DEF ToSet

(* A ring that lacks a relay has room for it in the row after the last,    *)
(* and stays a ring with it.                                               *)
LEMMA RingGrows ==
  ASSUME IsFiniteSet(Relays), Cardinality(Relays) <= MaxRelays,
         NEW rs \in [Ids -> Relays \cup {None}], Ring(rs),
         NEW r \in Relays, \A i \in Ids : rs[i] # r,
         NEW byUrl, byUrl = {<<rs[i], i>> : i \in Occupied(rs)}
  PROVE  /\ NextId(byUrl) \in Ids /\ rs[NextId(byUrl)] = None
         /\ Ring([rs EXCEPT ![NextId(byUrl)] = r])
<1>1. PICK n \in 0..MaxRelays : \A i \in Ids : rs[i] # None <=> i < n
  BY DEF Ring
<1>2. n \in Nat /\ Occupied(rs) = 0..(n - 1)
  BY <1>1, Size DEF Occupied
<1>3. IsFiniteSet(0..(n - 1)) /\ Cardinality(0..(n - 1)) = n
  BY <1>2, FS_Interval
<1>4. Cardinality(byUrl) = n
  <2> DEFINE f == [i \in 0..(n - 1) |-> <<rs[i], i>>]
  <2>1. f \in Bijection(0..(n - 1), byUrl)
    BY <1>2 DEF Bijection, Injection, Surjection, IsInjective
  <2>2. ExistsBijection(0..(n - 1), byUrl)
    BY <2>1 DEF ExistsBijection
  <2> QED BY <1>3, <2>2, FS_Bijection
<1>5. n < MaxRelays
  <2> DEFINE g == [i \in 0..(n - 1) |-> rs[i]]
             others == Relays \ {r}
  <2>1. IsFiniteSet(others) /\ Cardinality(others) = Cardinality(Relays) - 1
    BY FS_RemoveElement
  <2>2. g \in Injection(0..(n - 1), others)
    <3>1. \A i \in 0..(n - 1) : i \in Ids /\ rs[i] \in others
      BY <1>1, <1>2 DEF Occupied
    <3>2. \A i, j \in 0..(n - 1) : rs[i] = rs[j] => i = j
      BY <1>2, <3>1 DEF Ring, Occupied
    <3> QED BY <3>1, <3>2 DEF Injection, IsInjective
  <2>3. n <= Cardinality(others)
    BY <1>3, <2>1, <2>2, FS_Injection
  <2>4. Cardinality(Relays) \in Nat
    BY FS_CardinalityType
  <2> QED BY <1>2, <2>1, <2>3, <2>4, Size
<1>6. NextId(byUrl) = n
  BY <1>2, <1>4, <1>5, Size DEF NextId
<1>7. n \in Ids /\ rs[n] = None
  BY <1>1, <1>2, <1>5, Size
<1>8. Ring([rs EXCEPT ![n] = r])
  <2> DEFINE new == [rs EXCEPT ![n] = r]
  <2>1. \A i \in Ids : new[i] = IF i = n THEN r ELSE rs[i]
    OBVIOUS
  <2>2. n + 1 \in 0..MaxRelays /\ \A i \in Ids : new[i] # None <=> i < n + 1
    BY <1>1, <1>2, <1>5, <2>1, Size, NoneApart
  <2>3. \A i, j \in Ids : i # j /\ new[i] # None => new[i] # new[j]
    BY <2>1 DEF Ring
  <2> HIDE DEF new
  <2>4. Ring(new)
    BY <2>2, <2>3 DEF Ring
  <2> QED BY <2>4 DEF new
<1> QED BY <1>6, <1>7, <1>8

-----------------------------------------------------------------------------
(* Every action preserves the invariant. *)

LEMMA RequestFields ==
  ASSUME Typed, NEW h \in Handlers
  PROVE  /\ job[h] \in Requests
         /\ job[h].at \in {"idle", "upserted", "linking", "stored"}
         /\ job[h].list \in Seq(Relays) /\ job[h].left \in Seq(Relays)
         /\ job[h].byUrl \subseteq Relays \X Ids /\ job[h].links \subseteq Apps \X Ids
         /\ job[h].rows \in [Ids -> Relays \cup {None}]
         /\ job[h].at # "idle" => job[h].app \in Apps
         /\ Seen(h) \in [Ids -> Relays \cup {None}]
<1>1. job[h] \in Requests /\ (job[h].at # "idle" => job[h].app \in Apps)
  BY DEF Typed
<1>2. job[h].rows \in [Ids -> Relays \cup {None}]
  BY <1>1 DEF Requests
<1> QED BY <1>1, <1>2 DEF Requests, Typed, Seen

LEMMA IdleRequest == Idle \in Requests /\ Idle.at = "idle"
<1>1. <<>> \in Seq(Relays) /\ NoRows \in [Ids -> Relays \cup {None}]
  BY DEF NoRows
<1> QED BY <1>1 DEF Idle, Requests

LEMMA InitInv == Init => Inv
<1> SUFFICES ASSUME Init
             PROVE  Inv
  OBVIOUS
<1>1. \A h \in Handlers : job[h] = Idle
  BY DEF Init
<1>2. Open = {}
  BY <1>1, IdleRequest DEF Open
<1>3. Typed
  BY <1>1, IdleRequest DEF Init, Typed, NoSub, NoRows, Occupied
<1>4. Tables
  <2>1. Ring(rows)
    <3>1. 0 \in 0..MaxRelays /\ \A i \in Ids : rows[i] = None /\ ~(i < 0)
      BY Size DEF Init, NoRows
    <3> QED BY <3>1 DEF Ring
  <2>2. \A a \in Apps : StoredRelays(a) = asked[a] /\ latest[a] \subseteq asked[a]
    BY DEF Init, StoredRelays
  <2> QED BY <1>2, <2>1, <2>2 DEF Tables
<1> QED BY <1>3, <1>4 DEF Init, Inv, Subscribed

(* A transaction starts: there is no other. *)
LEMMA RegisterInv ==
  ASSUME RingSuffices, Inv, NEW h \in Handlers, Register(h)
  PROVE  Inv'
<1>1. /\ Open = {} /\ UNCHANGED <<hooks, rows, links, subs, latest, asked, wanted>>
      /\ job[h].at = "idle"
  BY DEF Register, RingSuffices
<1>2. PICK a \in Apps, l \in Lists :
        job' = [job EXCEPT ![h] =
                 [Idle EXCEPT !.at = "upserted", !.app = a, !.list = l, !.left = l]]
  BY DEF Register
<1> DEFINE v == [Idle EXCEPT !.at = "upserted", !.app = a, !.list = l, !.left = l]
<1>3. l \in Seq(Relays)
  BY RelaysAssumption
<1>4. /\ v \in Requests /\ v.at = "upserted" /\ v.app = a /\ v.list = l /\ v.left = l
      /\ v.rows = NoRows /\ v.links = {}
  BY <1>3, IdleRequest DEF Requests, Idle
<1>5. job'[h] = v /\ job' \in [Handlers -> Requests] /\ \A g \in Handlers \ {h} : job'[g] = job[g]
  BY <1>2, <1>4 DEF Inv, Typed
<1> HIDE DEF v
<1>6. Typed'
  BY <1>1, <1>4, <1>5 DEF Inv, Typed
<1>7. Open' \subseteq {h}
  BY <1>1, <1>5 DEF Open
<1>8. Transaction(h)'
  <2>1. Seen(h)' = rows
    BY <1>1, <1>4, <1>5 DEF Seen, Wrote, NoRows, Inv, Typed
  <2>2. Linked(h)' = StoredRelays(a)
    BY <1>1, <1>4, <1>5, <2>1 DEF Linked, StoredRelays
  <2>3. \A i \in Ids : job'[h].rows[i] = None
    BY <1>4, <1>5 DEF NoRows
  <2> QED BY <1>1, <1>4, <1>5, <2>1, <2>2, <2>3 DEF Transaction, Inv, Tables
<1>9. Tables'
  BY <1>1, <1>7, <1>8 DEF Inv, Tables, StoredRelays
<1> QED BY <1>1, <1>6, <1>9 DEF Inv, Subscribed

(* While it is open, its request is the only one in Open. *)
LEMMA OpenStep ==
  ASSUME Inv, NEW h \in Open, NEW v \in Requests, job' = [job EXCEPT ![h] = v]
  PROVE  /\ h \in Handlers /\ job[h].at # "idle" /\ Transaction(h)
         /\ job'[h] = v /\ job' \in [Handlers -> Requests]
         /\ \A g \in Handlers \ {h} : job'[g] = job[g]
         /\ Open' = {h} \cap Open'
<1>1. h \in Handlers /\ job[h].at \in {"upserted", "linking"}
  BY DEF Open
<1> QED BY <1>1 DEF Inv, Typed, Tables, Open

LEMMA ReadInv ==
  ASSUME Inv, NEW h \in Handlers, ReadRelays(h)
  PROVE  Inv'
<1> DEFINE map == {<<rows[i], i>> : i \in {j \in Ids : rows[j] # None}}
           v == [job[h] EXCEPT !.at = "linking", !.byUrl = map]
<1>1. /\ job[h].at = "upserted" /\ UNCHANGED <<hooks, rows, links, subs, latest, asked, wanted>>
      /\ job' = [job EXCEPT ![h] = v]
  BY DEF ReadRelays
<1>2. map \subseteq Relays \X Ids
  BY DEF Inv, Typed
<1>3. job[h] \in Requests /\ job[h].app \in Apps /\ h \in Open
  BY <1>1, RequestFields DEF Inv, Open
<1>4. /\ v \in Requests /\ v.at = "linking" /\ v.byUrl = map
      /\ v.app = job[h].app /\ v.list = job[h].list /\ v.left = job[h].left
      /\ v.rows = job[h].rows /\ v.links = job[h].links
  BY <1>2, <1>3 DEF Requests
<1> HIDE DEF v
<1>5. /\ Transaction(h) /\ job'[h] = v /\ job' \in [Handlers -> Requests]
      /\ \A g \in Handlers \ {h} : job'[g] = job[g]
      /\ Open' \subseteq {h}
  BY <1>1, <1>3, <1>4, OpenStep
<1>6. Typed'
  BY <1>1, <1>3, <1>4, <1>5 DEF Inv, Typed
<1>7. Transaction(h)'
  <2>1. Seen(h) = rows /\ Seen(h)' = Seen(h)
    BY <1>1, <1>4, <1>5 DEF Transaction, Seen, Wrote, NoRows, Inv, Typed
  <2>2. Linked(h)' = Linked(h)
    <3>1. job'[h].app = job[h].app /\ job'[h].links = job[h].links /\ UNCHANGED links
      BY <1>1, <1>4, <1>5
    <3> QED BY <2>1, <3>1 DEF Linked
  <2> QED BY <1>1, <1>4, <1>5, <2>1, <2>2 DEF Transaction, Occupied
<1>8. Tables'
  BY <1>1, <1>5, <1>7 DEF Inv, Tables, StoredRelays
<1> QED BY <1>1, <1>6, <1>8 DEF Inv, Subscribed

(* One relay is linked, in a row it has or in a new one. *)
LEMMA AddRelayInv ==
  ASSUME RingSuffices, Inv, NEW h \in Handlers, AddRelay(h)
  PROVE  Inv'
<1> DEFINE app == job[h].app
           r == Head(job[h].left)
           known == {i \in Ids : <<r, i>> \in job[h].byUrl}
           linked(i) == {<<app, i>>} \ links
           found(i) == [job[h] EXCEPT !.left = Tail(@), !.links = @ \cup linked(i)]
           added(i) == [found(i) EXCEPT !.rows = [@ EXCEPT ![i] = r],
                                        !.byUrl = @ \cup {<<r, i>>}]
<1>1. /\ job[h].at = "linking" /\ job[h].left # <<>>
      /\ UNCHANGED <<hooks, rows, links, subs, latest, asked, wanted>>
  BY DEF AddRelay
<1>2. /\ job[h] \in Requests /\ app \in Apps /\ h \in Open
      /\ job[h].left \in Seq(Relays) /\ job[h].byUrl \subseteq Relays \X Ids
      /\ job[h].links \subseteq Apps \X Ids
      /\ job[h].rows \in [Ids -> Relays \cup {None}]
      /\ Seen(h) \in [Ids -> Relays \cup {None}]
  BY <1>1, RequestFields DEF Inv, Open
<1>3. /\ r \in Relays /\ Tail(job[h].left) \in Seq(Relays)
      /\ ToSet(job[h].left) = {r} \cup ToSet(Tail(job[h].left))
  BY <1>1, <1>2, FirstOff
<1>4. /\ Transaction(h) /\ Ring(Seen(h))
      /\ job[h].byUrl = {<<Seen(h)[i], i>> : i \in Occupied(Seen(h))}
  BY <1>1, <1>2 DEF Inv, Tables, Transaction
<1>5. \/ \E i \in known : job' = [job EXCEPT ![h] = found(i)]
      \/ LET i == NextId(job[h].byUrl) IN
           known = {} /\ job' = [job EXCEPT ![h] = added(i)]
  BY DEF AddRelay, Remembered
<1>6. ASSUME NEW v \in Requests, job' = [job EXCEPT ![h] = v],
             v.at = "linking", v.app = app, v.list = job[h].list, Transaction(h)'
      PROVE  Inv'
  <2>1. /\ job'[h] = v /\ job' \in [Handlers -> Requests]
        /\ \A g \in Handlers \ {h} : job'[g] = job[g]
        /\ Open' \subseteq {h}
    BY <1>2, <1>6, OpenStep
  <2>2. Typed'
    BY <1>1, <1>2, <1>6, <2>1 DEF Inv, Typed
  <2>3. Tables'
    BY <1>1, <1>6, <2>1 DEF Inv, Tables, StoredRelays
  <2> QED BY <1>1, <2>2, <2>3 DEF Inv, Subscribed
<1>7. ASSUME NEW i \in known, job' = [job EXCEPT ![h] = found(i)]
      PROVE  Inv'
  <2> DEFINE v == found(i)
  <2>1. /\ v \in Requests /\ v.at = "linking" /\ v.app = app /\ v.list = job[h].list
        /\ v.left = Tail(job[h].left) /\ v.byUrl = job[h].byUrl /\ v.rows = job[h].rows
        /\ v.links = job[h].links \cup linked(i)
    <3>1. linked(i) \subseteq Apps \X Ids
      BY <1>2
    <3> HIDE DEF linked, r, app
    <3>2. v \in Requests
      BY <1>2, <1>3, <3>1 DEF Requests
    <3> QED BY <1>1, <1>2, <3>2 DEF Requests, app
  <2>2. job'[h] = v
    BY <1>7 DEF Inv, Typed
  <2> HIDE DEF v
  <2>3. i \in Occupied(Seen(h)) /\ Seen(h)[i] = r
    BY <1>4
  <2>4. Seen(h)' = Seen(h)
    BY <1>1, <2>1, <2>2 DEF Seen, Wrote
  <2>5. Linked(h)' = Linked(h) \cup {r}
    BY <1>1, <2>1, <2>2, <2>3, <2>4 DEF Linked, Occupied
  <2>6. Transaction(h)'
    <3>1. Linked(h)' \cup ToSet(v.left) = asked[app] \cup ToSet(job[h].list)
      BY <1>3, <1>4, <2>1, <2>5 DEF Transaction
    <3> QED BY <1>1, <1>4, <2>1, <2>2, <2>3, <2>4, <3>1 DEF Transaction
  <2> QED BY <1>6, <1>7, <2>1, <2>6 DEF v
<1>8. ASSUME known = {}, job' = [job EXCEPT ![h] = added(NextId(job[h].byUrl))]
      PROVE  Inv'
  <2> DEFINE i == NextId(job[h].byUrl)
             v == added(i)
  <2>1. \A j \in Ids : Seen(h)[j] # r
    BY <1>3, <1>4, <1>8, NoneApart DEF Occupied
  <2>2. /\ i \in Ids /\ Seen(h)[i] = None
        /\ Ring([Seen(h) EXCEPT ![i] = r])
    BY <1>2, <1>3, <1>4, <2>1, RingGrows DEF RingSuffices
  <2> HIDE DEF i
  <2>3. /\ v \in Requests /\ v.at = "linking" /\ v.app = app /\ v.list = job[h].list
        /\ v.left = Tail(job[h].left) /\ v.byUrl = job[h].byUrl \cup {<<r, i>>}
        /\ v.rows = [job[h].rows EXCEPT ![i] = r]
        /\ v.links = job[h].links \cup linked(i)
    <3> DEFINE rs == [job[h].rows EXCEPT ![i] = r]
               u == job[h].byUrl \cup {<<r, i>>}
    <3>1. linked(i) \subseteq Apps \X Ids /\ u \subseteq Relays \X Ids
      BY <1>2, <1>3, <2>2
    <3>2. rs \in [Ids -> Relays \cup {None}]
      BY <1>2, <1>3
    <3>3. v = [[job[h] EXCEPT !.left = Tail(@), !.links = @ \cup linked(i)]
                 EXCEPT !.rows = rs, !.byUrl = u]
      BY <1>2 DEF Requests
    <3> HIDE DEF linked, r, app, v, rs, u
    <3>4. v \in Requests
      BY <1>2, <1>3, <3>1, <3>2, <3>3 DEF Requests
    <3>5. /\ v.at = job[h].at /\ v.app = job[h].app /\ v.list = job[h].list
          /\ v.left = Tail(job[h].left) /\ v.byUrl = u /\ v.rows = rs
          /\ v.links = job[h].links \cup linked(i)
      BY <1>2, <3>3 DEF Requests
    <3> QED BY <1>1, <3>4, <3>5 DEF app, rs, u
  <2>4. job'[h] = v
    BY <1>8 DEF Inv, Typed, i
  <2> HIDE DEF v
  <2>5. Seen(h)' = [Seen(h) EXCEPT ![i] = r]
    BY <1>1, <1>2, <1>3, <2>2, <2>3, <2>4, NoneApart DEF Seen, Wrote
  <2>6. Seen(h)'[i] = r /\ \A j \in Ids \ {i} : Seen(h)'[j] = Seen(h)[j]
    BY <1>2, <2>2, <2>5
  <2>7. links \subseteq hooks \X Occupied(rows) /\ job[h].links \subseteq {app} \X Occupied(Seen(h))
    BY <1>4 DEF Inv, Typed, Transaction
  <2>8. rows[i] = None
    BY <1>4, <2>2 DEF Seen, Wrote, Transaction
  <2>9. <<app, i>> \notin links \cup job[h].links
    BY <2>2, <2>7, <2>8 DEF Occupied
  <2>10. Linked(h)' = Linked(h) \cup {r}
    <3>1. Linked(h)' = {Seen(h)'[j] : j \in {k \in Ids : <<app, k>> \in links \cup job[h].links \cup {<<app, i>>}}}
      BY <1>1, <2>3, <2>4, <2>9 DEF Linked
    <3> QED BY <2>2, <2>6, <2>9, <3>1 DEF Linked
  <2>11. Occupied(Seen(h)') = Occupied(Seen(h)) \cup {i}
    BY <1>3, <2>2, <2>6, NoneApart DEF Occupied
  <2>12. Transaction(h)'
    <3>1. Linked(h)' \cup ToSet(v.left) = asked[app] \cup ToSet(job[h].list)
      BY <1>3, <1>4, <2>3, <2>10 DEF Transaction
    <3>2. \A j \in Ids : rows[j] # None => v.rows[j] = None
      BY <1>2, <1>4, <2>3, <2>8 DEF Transaction
    <3>3. v.byUrl = {<<Seen(h)'[j], j>> : j \in Occupied(Seen(h)')}
      <4>1. \A j \in Occupied(Seen(h)) : j # i /\ Seen(h)'[j] = Seen(h)[j]
        BY <2>2, <2>6 DEF Occupied
      <4> QED BY <1>4, <2>3, <2>6, <2>11, <4>1
    <3>4. Ring(Seen(h)')
      <4> DEFINE next == [Seen(h) EXCEPT ![i] = r]
      <4>1. Ring(next) /\ Seen(h)' = next
        BY <2>2, <2>5
      <4> HIDE DEF next
      <4> QED BY <4>1
    <3>5. v.links \subseteq {app} \X Occupied(Seen(h)')
      BY <2>3, <2>7, <2>11
    <3> QED BY <1>1, <2>3, <2>4, <3>1, <3>2, <3>3, <3>4, <3>5 DEF Transaction
  <2> QED BY <1>6, <1>8, <2>3, <2>12 DEF v, i
<1> QED BY <1>5, <1>7, <1>8

LEMMA RollbackInv ==
  ASSUME Inv, NEW h \in Handlers, Rollback(h)
  PROVE  Inv'
<1>1. /\ h \in Open /\ job' = [job EXCEPT ![h] = Idle]
      /\ UNCHANGED <<hooks, rows, links, subs, latest, asked, wanted>>
  BY DEF Rollback
<1>2. /\ job'[h] = Idle /\ job' \in [Handlers -> Requests]
      /\ \A g \in Handlers \ {h} : job'[g] = job[g]
      /\ Open' \subseteq {h}
  BY <1>1, OpenStep, IdleRequest
<1>3. Open' = {}
  BY <1>2, IdleRequest DEF Open
<1>4. Typed'
  BY <1>1, <1>2, IdleRequest DEF Inv, Typed
<1> QED BY <1>1, <1>3, <1>4 DEF Inv, Tables, Subscribed, StoredRelays

LEMMA CommitInv ==
  ASSUME Inv, NEW h \in Handlers, Commit(h)
  PROVE  Inv'
<1> DEFINE app == job[h].app
           v == [Idle EXCEPT !.at = "stored", !.app = app, !.list = job[h].list]
<1>1. /\ job[h].at = "linking" /\ job[h].left = <<>>
      /\ hooks' = hooks \cup {app} /\ rows' = Seen(h) /\ links' = links \cup job[h].links
      /\ latest' = [latest EXCEPT ![app] = ToSet(job[h].list)]
      /\ asked' = [asked EXCEPT ![app] = @ \cup ToSet(job[h].list)]
      /\ job' = [job EXCEPT ![h] = v]
      /\ UNCHANGED <<subs, wanted>>
  BY DEF Commit
<1>2. /\ app \in Apps /\ h \in Open /\ job[h].list \in Seq(Relays)
      /\ Seen(h) \in [Ids -> Relays \cup {None}]
  BY <1>1, RequestFields DEF Inv, Open
<1>3. v \in Requests /\ v.at = "stored" /\ v.app = app
  BY <1>2, IdleRequest DEF Requests, Idle
<1> HIDE DEF v
<1>4. /\ Transaction(h) /\ job'[h] = v /\ job' \in [Handlers -> Requests]
      /\ \A g \in Handlers \ {h} : job'[g] = job[g]
      /\ Open' \subseteq {h}
  BY <1>1, <1>2, <1>3, OpenStep
<1>5. Open' = {}
  BY <1>3, <1>4 DEF Open
<1>6. \A i \in Ids : rows[i] # None => Seen(h)[i] = rows[i]
  BY <1>4 DEF Transaction, Seen, Wrote
<1>7. links' \subseteq hooks' \X Occupied(rows')
  BY <1>1, <1>4, <1>6 DEF Inv, Typed, Transaction, Occupied
<1>8. Typed'
  <2>1. asked' \in [Apps -> SUBSET Relays] /\ latest' \in [Apps -> SUBSET Relays]
    BY <1>1, <1>2, ListOfRelays DEF Inv, Typed
  <2> QED BY <1>1, <1>2, <1>3, <1>4, <1>7, <2>1 DEF Inv, Typed
<1>9. ASSUME NEW a \in Apps
      PROVE  StoredRelays(a)' = asked'[a] /\ latest'[a] \subseteq asked'[a]
  <2>1. CASE a = app
    <3>1. StoredRelays(a)' = Linked(h)
      BY <1>1, <2>1 DEF StoredRelays, Linked
    <3>2. ToSet(job[h].left) = {}
      BY <1>1 DEF ToSet
    <3> QED BY <1>1, <1>2, <1>4, <2>1, <3>1, <3>2 DEF Transaction, Inv, Typed
  <2>2. CASE a # app
    <3>1. \A i \in Ids : <<a, i>> \in links' <=> <<a, i>> \in links
      BY <1>1, <1>4, <2>2 DEF Transaction
    <3>2. \A i \in Ids : <<a, i>> \in links => rows'[i] = rows[i]
      BY <1>1, <1>6 DEF Inv, Typed, Occupied
    <3>3. StoredRelays(a)' = StoredRelays(a)
      BY <3>1, <3>2 DEF StoredRelays
    <3> QED BY <1>1, <2>2, <3>3 DEF Inv, Typed, Tables
  <2> QED BY <2>1, <2>2
<1>10. Ring(rows')
  BY <1>1, <1>4 DEF Transaction
<1>11. Tables'
  BY <1>5, <1>9, <1>10 DEF Tables
<1> QED BY <1>1, <1>8, <1>11 DEF Inv, Subscribed

(* The subscription gains the app and its relays. *)
LEMMA SubscribeInv ==
  ASSUME Inv, NEW h \in Handlers, AddSubscription(h)
  PROVE  Inv'
<1> DEFINE app == job[h].app
           new == ToSet(job[h].list)
           w == WalletOf[app]
           sub == [apps |-> subs[w].apps \cup {app}, relays |-> subs[w].relays \cup new]
<1>1. /\ job[h].at = "stored" /\ UNCHANGED <<hooks, rows, links, latest, asked>>
      /\ subs' = [subs EXCEPT ![w] = sub]
      /\ wanted' = [wanted EXCEPT ![app] = new]
      /\ job' = [job EXCEPT ![h] = Idle]
  BY DEF AddSubscription, MergedRelays
<1>2. app \in Apps /\ new \subseteq Relays /\ w \in Wallets
  BY <1>1, RequestFields, ListOfRelays, RelaysAssumption DEF Inv
<1>3. /\ job'[h] = Idle /\ job' \in [Handlers -> Requests]
      /\ \A g \in Handlers \ {h} : job'[g] = job[g]
  BY <1>1, IdleRequest DEF Inv, Typed
<1>4. Open' = Open /\ \A g \in Open : job'[g] = job[g]
  BY <1>1, <1>3, IdleRequest DEF Open
<1>5. subs[w].apps \subseteq Apps /\ subs[w].relays \subseteq Relays
  BY <1>2 DEF Inv, Typed
<1> HIDE DEF app, new, w
<1>6. Typed'
  BY <1>1, <1>2, <1>3, <1>5, IdleRequest DEF Inv, Typed
<1>7. Tables'
  <2>1. ASSUME NEW g \in Open
        PROVE  Transaction(g)'
    <3>1. job'[g] = job[g] /\ UNCHANGED <<rows, links>>
      BY <1>1, <1>4
    <3>2. Seen(g)' = Seen(g)
      BY <3>1 DEF Seen, Wrote
    <3>3. Linked(g)' = Linked(g)
      BY <3>1, <3>2 DEF Linked
    <3> QED BY <1>1, <3>1, <3>2, <3>3 DEF Inv, Tables, Transaction
  <2> QED BY <1>1, <1>4, <2>1 DEF Inv, Tables, StoredRelays
<1>8. Subscribed'
  <2>1. ASSUME NEW a \in Apps
        PROVE  /\ wanted'[a] \subseteq subs'[WalletOf[a]].relays
               /\ a \notin subs'[WalletOf[a]].apps => wanted'[a] = {}
    <3>1. subs'[w] = sub /\ \A x \in Wallets \ {w} : subs'[x] = subs[x]
      BY <1>1, <1>2 DEF Inv, Typed
    <3>2. /\ subs[WalletOf[a]].relays \subseteq subs'[WalletOf[a]].relays
          /\ subs[WalletOf[a]].apps \subseteq subs'[WalletOf[a]].apps
      BY <3>1, RelaysAssumption
    <3>3. CASE a = app
      BY <1>1, <1>2, <3>1, <3>2, <3>3 DEF Inv, Subscribed, Typed, w
    <3>4. CASE a # app
      BY <1>1, <3>2, <3>4 DEF Inv, Subscribed, Typed
    <3> QED BY <3>3, <3>4
  <2> QED BY <2>1 DEF Subscribed
<1> QED BY <1>6, <1>7, <1>8 DEF Inv

LEMMA UnregisterInv ==
  ASSUME Inv, NEW a \in Apps, Unregister(a)
  PROVE  Inv'
<1> DEFINE w == WalletOf[a]
           rest == subs[w].apps \ {a}
           sub == IF rest = {} THEN NoSub ELSE [subs[w] EXCEPT !.apps = rest]
<1>1. /\ UNCHANGED <<hooks, rows, links, job, latest, asked>>
      /\ subs' = [subs EXCEPT ![w] = sub]
      /\ wanted' = [wanted EXCEPT ![a] = {}]
  BY DEF Unregister
<1>2. w \in Wallets /\ subs[w] \in [apps : SUBSET Apps, relays : SUBSET Relays]
  BY RelaysAssumption DEF Inv, Typed
<1>3. sub \in [apps : SUBSET Apps, relays : SUBSET Relays]
  BY <1>2 DEF NoSub
<1>4. sub.apps = rest /\ (rest # {} => sub.relays = subs[w].relays)
  BY <1>2 DEF NoSub
<1> HIDE DEF w, rest, sub
<1>5. Typed'
  BY <1>1, <1>3 DEF Inv, Typed
<1>6. Tables'
  <2>1. Open' = Open
    BY <1>1 DEF Open
  <2>2. ASSUME NEW g \in Open
        PROVE  Transaction(g)'
    <3>1. Seen(g)' = Seen(g) /\ Linked(g)' = Linked(g)
      BY <1>1 DEF Seen, Wrote, Linked
    <3> QED BY <1>1, <2>2, <3>1 DEF Inv, Tables, Transaction
  <2> QED BY <1>1, <2>1, <2>2 DEF Inv, Tables, StoredRelays
<1>7. Subscribed'
  <2>1. ASSUME NEW b \in Apps
        PROVE  /\ wanted'[b] \subseteq subs'[WalletOf[b]].relays
               /\ b \notin subs'[WalletOf[b]].apps => wanted'[b] = {}
    <3>1. CASE b = a
      BY <1>1, <3>1 DEF Inv, Typed
    <3>2. CASE b # a /\ WalletOf[b] # w
      BY <1>1, <3>2, RelaysAssumption DEF Inv, Typed, Subscribed
    <3>3. CASE b # a /\ WalletOf[b] = w
      <4>1. subs'[w] = sub /\ wanted'[b] = wanted[b]
        BY <1>1, <1>2, <3>3 DEF Inv, Typed
      <4>2. b \in rest <=> b \in subs[w].apps
        BY <3>3 DEF rest
      <4> QED BY <1>4, <3>3, <4>1, <4>2 DEF Inv, Subscribed
    <3> QED BY <3>1, <3>2, <3>3
  <2> QED BY <2>1 DEF Subscribed
<1> QED BY <1>5, <1>6, <1>7 DEF Inv

(* The row and the links of an app go; no transaction is about it. *)
LEMMA ExpireInv ==
  ASSUME Inv, NEW a \in Apps, DeleteExpired(a)
  PROVE  Inv'
<1>1. /\ \A h \in Open : job[h].app # a
      /\ hooks' = hooks \ {a} /\ links' = {l \in links : l[1] # a}
      /\ latest' = [latest EXCEPT ![a] = {}] /\ asked' = [asked EXCEPT ![a] = {}]
      /\ UNCHANGED <<rows, subs, job, wanted>>
  BY DEF DeleteExpired, LinksOfOthers
<1>2. Typed'
  BY <1>1 DEF Inv, Typed, Occupied
<1>3. \A b \in Apps, i \in Ids : <<b, i>> \in links' <=> <<b, i>> \in links /\ b # a
  BY <1>1
<1>4. ASSUME NEW b \in Apps
      PROVE  StoredRelays(b)' = asked'[b] /\ latest'[b] \subseteq asked'[b]
  <2>1. CASE b = a
    <3>1. StoredRelays(b)' = {}
      BY <1>3, <2>1 DEF StoredRelays
    <3> QED BY <1>1, <2>1, <3>1 DEF Inv, Typed
  <2>2. CASE b # a
    <3>1. StoredRelays(b)' = StoredRelays(b)
      BY <1>1, <1>3, <2>2 DEF StoredRelays
    <3> QED BY <1>1, <2>2, <3>1 DEF Inv, Typed, Tables
  <2> QED BY <2>1, <2>2
<1>5. Open' = Open
  BY <1>1 DEF Open
<1>6. ASSUME NEW g \in Open
      PROVE  Transaction(g)'
  <2>1. g \in Handlers /\ job[g].app \in Apps /\ job[g].app # a
    BY <1>1 DEF Inv, Typed, Open
  <2>2. Seen(g)' = Seen(g)
    BY <1>1 DEF Seen, Wrote
  <2>3. Linked(g)' = Linked(g)
    BY <1>1, <1>3, <2>1, <2>2 DEF Linked
  <2>4. asked'[job[g].app] = asked[job[g].app]
    BY <1>1, <2>1 DEF Inv, Typed
  <2> QED BY <1>1, <2>2, <2>3, <2>4 DEF Inv, Tables, Transaction
<1>7. Tables'
  BY <1>1, <1>4, <1>5, <1>6 DEF Inv, Tables
<1> QED BY <1>1, <1>2, <1>7 DEF Inv, Subscribed

(* The subscriptions made from the tables are those that were asked for. *)
LEMMA RestartInv ==
  ASSUME Inv, Restart
  PROVE  Inv'
<1>1. /\ job' = [h \in Handlers |-> Idle]
      /\ subs' = [w \in Wallets |-> Details(w)]
      /\ wanted' = latest /\ UNCHANGED <<hooks, rows, links, latest, asked>>
  BY DEF Restart
<1>2. \A a \in Apps : /\ StoredRelays(a) = asked[a] /\ asked[a] \subseteq Relays
                     /\ latest[a] \subseteq asked[a]
  BY DEF Inv, Tables, Typed
<1>3. ASSUME NEW w \in Wallets
      PROVE  Details(w) \in [apps : SUBSET Apps, relays : SUBSET Relays]
  BY <1>2 DEF Details, Inv, Typed
<1>4. Typed'
  <2>1. subs' \in [Wallets -> [apps : SUBSET Apps, relays : SUBSET Relays]]
    BY <1>1, <1>3
  <2> QED BY <1>1, <2>1, IdleRequest DEF Inv, Typed
<1>5. Open' = {}
  BY <1>1, IdleRequest DEF Open
<1>6. Tables'
  BY <1>1, <1>5 DEF Inv, Tables, StoredRelays
<1>7. Subscribed'
  <2>1. ASSUME NEW a \in Apps
        PROVE  /\ latest[a] \subseteq Details(WalletOf[a]).relays
               /\ a \notin Details(WalletOf[a]).apps => latest[a] = {}
    <3>1. CASE a \in hooks
      BY <1>2, <3>1 DEF Details
    <3>2. CASE a \notin hooks
      <4>1. StoredRelays(a) = {}
        BY <3>2 DEF StoredRelays, Inv, Typed
      <4> QED BY <1>2, <4>1
    <3> QED BY <3>1, <3>2
  <2> QED BY <1>1, <2>1, RelaysAssumption DEF Subscribed
<1> QED BY <1>4, <1>6, <1>7 DEF Inv

LEMMA NextInv == RingSuffices /\ Inv /\ [Next]_vars => Inv'
<1> SUFFICES ASSUME RingSuffices, Inv, [Next]_vars
             PROVE  Inv'
  OBVIOUS
<1>1. CASE UNCHANGED vars
  <2>1. UNCHANGED <<hooks, rows, links, subs, job, latest, asked, wanted>>
    BY <1>1 DEF vars
  <2>2. Open' = Open
    BY <2>1 DEF Open
  <2>3. ASSUME NEW g \in Open
        PROVE  Transaction(g)'
    <3>1. Seen(g)' = Seen(g) /\ Linked(g)' = Linked(g)
      BY <2>1 DEF Seen, Wrote, Linked
    <3> QED BY <2>1, <3>1 DEF Inv, Tables, Transaction
  <2>4. Tables'
    BY <2>1, <2>2, <2>3 DEF Inv, Tables, StoredRelays
  <2>5. Typed' /\ Subscribed'
    BY <2>1 DEF Inv, Typed, Subscribed
  <2> QED BY <2>4, <2>5 DEF Inv
<1>2. ASSUME NEW h \in Handlers,
             \/ Register(h) \/ ReadRelays(h) \/ AddRelay(h)
             \/ Rollback(h) \/ Commit(h) \/ AddSubscription(h)
      PROVE  Inv'
  BY <1>2, RegisterInv, ReadInv, AddRelayInv, RollbackInv, CommitInv, SubscribeInv
<1>3. ASSUME NEW a \in Apps, Unregister(a) \/ DeleteExpired(a)
      PROVE  Inv'
  BY <1>3, UnregisterInv, ExpireInv
<1>4. CASE Restart
  BY <1>4, RestartInv
<1> QED BY <1>1, <1>2, <1>3, <1>4 DEF Next

LEMMA Invariant ==
  ASSUME RingSuffices
  PROVE  Spec => []Inv
<1>1. Inv /\ [Next]_vars => Inv'
  BY NextInv
<1> QED BY InitInv, <1>1, PTL DEF Spec

-----------------------------------------------------------------------------
(* TypeCorrect: the tables keep their keys and references: ids are         *)
(* computed from what was read, and still no url has two rows and no link  *)
(* joins what is not there (TypeOK).                                       *)
THEOREM TypeCorrect ==
  ASSUME RingSuffices
  PROVE  Spec => []TypeOK
<1>1. Inv => TypeOK
  BY DEF Inv, Typed, Tables, Ring, Occupied, TypeOK
<1> QED BY <1>1, Invariant, PTL

(* KeepsItsRelays: the tables give back every relay of an app's last       *)
(* registration, and no relay that it never asked for (RelaysKept).        *)
THEOREM KeepsItsRelays ==
  ASSUME RingSuffices
  PROVE  Spec => []RelaysKept
<1>1. Inv => RelaysKept
  BY DEF Inv, Typed, Tables, RelaysKept
<1> QED BY <1>1, Invariant, PTL

(* AllHeard: a wallet listens to every relay its apps were last registered *)
(* with, across merged registrations, clean-ups and restarts (Listening).  *)
THEOREM AllHeard ==
  ASSUME RingSuffices
  PROVE  Spec => []Listening
<1>1. Inv => Listening
  BY DEF Inv, Subscribed, Listening
<1> QED BY <1>1, Invariant, PTL

=============================================================================
