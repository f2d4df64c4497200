---------------------------- MODULE TrainsProofs ----------------------------
(***************************************************************************)
(* Every message an endpoint accepts travels once, and waits no longer than *)
(* its times and the lag of the io thread allow: for any timings, limits    *)
(* and methods, and however sends, timer handlers and writes interleave.    *)
(***************************************************************************)
EXTENDS Trains, FiniteSetTheorems, WellFoundedInduction, TLAPS

\* A message in a train, a train, and the state.
Passenger == [n : Nat, method : UNION {Methods(c) : c \in Configurations}, at : Nat]

Train == [buffer_ : Seq(Passenger), minimal_debounce_time_ : Nat,
          minimal_max_retention_time_ : Nat, departure_ : Nat]

TrainTypes ==
    /\ configuration_ \in Configurations /\ now \in Nat /\ admitted \in Nat
    /\ train_ \in Train /\ dispatched_trains_ \in Seq(Train)
    /\ last_departure_ \in SUBSET Nat /\ departed \in Seq(Nat)

\* The numbers of the messages in a buffer, in their order.
Order(b) == [i \in DOMAIN b |-> b[i].n]

Numbers(b) == {b[i].n : i \in 1..Len(b)}

\* They are different.
Distinct(b) == \A i, j \in 1..Len(b) : b[i].n = b[j].n => i = j

\* No number has departed twice.
Once(dep) == \A i, j \in 1..Len(dep) : dep[i] = dep[j] => i = j

Has(dep, x) == \E i \in 1..Len(dep) : dep[i] = x

\* None of a buffer has departed.
Clear(dep, b) == \A x : Has(dep, x) => x \notin Numbers(b)

\* The messages up to adm, with b the buffer of the current train, trains dispatched and
\* dep departed: each one is in one place.
Apart(b, trains, dep) ==
    /\ Distinct(b) /\ \A k \in 1..Len(trains) : Distinct(trains[k].buffer_)
    /\ Once(dep) /\ Clear(dep, b)
    /\ \A k \in 1..Len(trains) : /\ Clear(dep, trains[k].buffer_)
                                 /\ Numbers(trains[k].buffer_) \cap Numbers(b) = {}
    /\ \A k, l \in 1..Len(trains) :
          k # l => Numbers(trains[k].buffer_) \cap Numbers(trains[l].buffer_) = {}

Somewhere(x, b, trains, dep) ==
    \/ x \in Numbers(b)
    \/ \E k \in 1..Len(trains) : x \in Numbers(trains[k].buffer_)
    \/ Has(dep, x)

\* Trains that wait have messages and are sorted by their departure.
InLine(trains) ==
    \A i, j \in 1..Len(trains) : /\ trains[i].buffer_ # <<>>
                                 /\ i < j => trains[i].departure_ <= trains[j].departure_

Travel(b, trains, dep, adm) ==
    /\ Apart(b, trains, dep) /\ InLine(trains)
    /\ \A x : Somewhere(x, b, trains, dep) <=> x \in 1..adm

TravelInv == TrainTypes /\ Travel(train_.buffer_, dispatched_trains_, departed, admitted)

-----------------------------------------------------------------------------

\* A message enters the current train (STEPS 9 to 9.2 of send).
LEMMA Boarded ==
    ASSUME NEW b \in Seq(Passenger), NEW trains \in Seq(Train), NEW dep \in Seq(Nat), NEW adm \in Nat,
           NEW m \in Passenger, m.n = adm + 1, Travel(b, trains, dep, adm)
    PROVE  Travel(Append(b, m), trains, dep, adm + 1)
<1> DEFINE c == Append(b, m)
<1>1. c \in Seq(Passenger) /\ Len(c) = Len(b) + 1 /\ c[Len(b) + 1] = m /\ \A i \in 1..Len(b) : c[i] = b[i]
  OBVIOUS
<1>2. Len(b) \in Nat
  OBVIOUS
<1> HIDE DEF c
<1>3. \A x : x \in Numbers(c) <=> x \in Numbers(b) \/ x = adm + 1
  <2>1. \A i : i \in 1..Len(c) <=> i \in 1..Len(b) \/ i = Len(b) + 1
    BY <1>1, <1>2
  <2> QED
    BY <1>1, <2>1 DEF Numbers
<1>4. adm + 1 \notin 1..adm /\ \A x : x \in 1..(adm + 1) <=> x \in 1..adm \/ x = adm + 1
  OBVIOUS
<1>5. /\ adm + 1 \notin Numbers(b)
      /\ \A k \in 1..Len(trains) : adm + 1 \notin Numbers(trains[k].buffer_)
      /\ ~Has(dep, adm + 1)
  BY <1>4 DEF Travel, Somewhere
<1>6. Distinct(c)
  <2>1. Distinct(b) /\ \A i \in 1..Len(b) : b[i].n # adm + 1
    BY <1>5 DEF Travel, Apart, Numbers
  <2>2. \A i \in 1..Len(c) : i \in 1..Len(b) \/ i = Len(b) + 1
    BY <1>1, <1>2
  <2> SUFFICES ASSUME NEW i \in 1..Len(c), NEW j \in 1..Len(c), c[i].n = c[j].n
               PROVE  i = j
    BY DEF Distinct
  <2>3. CASE i \in 1..Len(b) /\ j \in 1..Len(b)
    BY <1>1, <2>1, <2>3 DEF Distinct
  <2>4. CASE i = Len(b) + 1 \/ j = Len(b) + 1
    BY <1>1, <2>1, <2>2, <2>4
  <2> QED
    BY <2>2, <2>3, <2>4
<1>7. Apart(c, trains, dep)
  <2>1. Apart(b, trains, dep)
    BY DEF Travel
  <2>2. Clear(dep, c)
    BY <1>3, <1>5, <2>1 DEF Apart, Clear
  <2>3. \A k \in 1..Len(trains) : Numbers(trains[k].buffer_) \cap Numbers(c) = {}
    BY <1>3, <1>5, <2>1 DEF Apart
  <2> QED
    BY <1>6, <2>1, <2>2, <2>3 DEF Apart
<1>8. \A x : Somewhere(x, c, trains, dep) <=> x \in 1..(adm + 1)
  BY <1>3, <1>4 DEF Travel, Somewhere
<1> QED
  BY <1>7, <1>8 DEF Travel, c

\* What is queued at once departs with the next number (send_segments).
LEMMA DepartsAtOnce ==
    ASSUME NEW b \in Seq(Passenger), NEW trains \in Seq(Train), NEW dep \in Seq(Nat), NEW adm \in Nat,
           NEW d \in Seq(Nat), d = Append(dep, adm + 1), Travel(b, trains, dep, adm)
    PROVE  Travel(b, trains, d, adm + 1)
<1>1. Len(d) = Len(dep) + 1 /\ d[Len(dep) + 1] = adm + 1 /\ \A i \in 1..Len(dep) : d[i] = dep[i]
  OBVIOUS
<1>2. Len(dep) \in Nat
  OBVIOUS
<1>3. adm + 1 \notin 1..adm /\ \A x : x \in 1..(adm + 1) <=> x \in 1..adm \/ x = adm + 1
  OBVIOUS
<1>4. /\ adm + 1 \notin Numbers(b)
      /\ \A k \in 1..Len(trains) : adm + 1 \notin Numbers(trains[k].buffer_)
      /\ ~Has(dep, adm + 1)
  BY <1>3 DEF Travel, Somewhere
<1>5. \A x : Has(d, x) <=> Has(dep, x) \/ x = adm + 1
  BY <1>1, <1>2 DEF Has
<1>6. Apart(b, trains, d)
  <2>1. Apart(b, trains, dep)
    BY DEF Travel
  <2>2. \A i \in 1..Len(d) : i \in 1..Len(dep) \/ i = Len(dep) + 1
    BY <1>1, <1>2
  <2>3. Once(d)
    BY <1>1, <1>4, <2>1, <2>2 DEF Apart, Once, Has
  <2>4. Clear(d, b) /\ \A k \in 1..Len(trains) : Clear(d, trains[k].buffer_)
    BY <1>4, <1>5, <2>1 DEF Apart, Clear
  <2> QED
    BY <2>1, <2>3, <2>4 DEF Apart
<1>7. \A x : Somewhere(x, b, trains, d) <=> x \in 1..(adm + 1)
  BY <1>3, <1>5 DEF Travel, Somewhere
<1> QED
  BY <1>6, <1>7 DEF Travel

\* A buffer departs: its numbers are behind those that have departed (queue_train).
LEMMA Departing ==
    ASSUME NEW dep \in Seq(Nat), NEW c \in Seq(Passenger), NEW d,
           d = dep \o Order(c)
    PROVE  /\ d \in Seq(Nat)
           /\ \A x : Has(d, x) <=> x \in Numbers(c) \/ Has(dep, x)
           /\ Distinct(c) /\ Once(dep) /\ Clear(dep, c) => Once(d)
<1> DEFINE e == Order(c)
<1>1. /\ e \in Seq(Nat) /\ Len(e) = Len(c) /\ Len(c) \in Nat /\ Len(dep) \in Nat
      /\ \A i \in 1..Len(c) : e[i] = c[i].n
  <2>1. DOMAIN c = 1..Len(c) /\ Len(c) \in Nat /\ \A i \in 1..Len(c) : c[i] \in Passenger
    OBVIOUS
  <2>2. e \in [1..Len(c) -> Nat]
    BY <2>1 DEF Passenger, Order
  <2> QED
    BY <2>1, <2>2 DEF Order
<1>0. d = dep \o e
  OBVIOUS
<1> HIDE DEF e
<1>2. /\ d \in Seq(Nat) /\ Len(d) = Len(dep) + Len(c) /\ Len(dep) \in Nat /\ Len(c) \in Nat
      /\ \A i \in 1..Len(dep) : d[i] = dep[i]
      /\ \A i \in 1..Len(c) : d[Len(dep) + i] = c[i].n
  <2>0. /\ e \in Seq(Nat) => dep \o e \in Seq(Nat) /\ Len(dep \o e) = Len(dep) + Len(e)
    OBVIOUS
  <2>1. d \in Seq(Nat) /\ Len(d) = Len(dep) + Len(e)
    BY <1>0, <1>1, <2>0
  <2>2. \A i \in 1..Len(dep) : d[i] = dep[i]
    BY <1>0, <1>1
  <2>3. ASSUME NEW i \in 1..Len(c)
        PROVE  d[Len(dep) + i] = c[i].n
    <3>1. Len(dep) + i \in 1..(Len(dep) + Len(e)) /\ Len(dep) + i > Len(dep) /\ (Len(dep) + i) - Len(dep) = i
      BY <1>1
    <3> QED
      BY <1>0, <1>1, <3>1
  <2> QED
    BY <1>1, <2>1, <2>2, <2>3
<1>3. \A i \in 1..Len(d) : i \in 1..Len(dep) \/ (i - Len(dep) \in 1..Len(c) /\ d[i] = c[i - Len(dep)].n)
  <2> TAKE i \in 1..Len(d)
  <2>1. CASE i <= Len(dep)
    BY <1>2, <2>1
  <2>2. CASE i > Len(dep)
    <3>1. i - Len(dep) \in 1..Len(c) /\ Len(dep) + (i - Len(dep)) = i
      BY <1>2, <2>2
    <3> QED
      BY <1>2, <3>1
  <2> QED
    BY <1>2, <2>1, <2>2
<1>4. ASSUME NEW x
      PROVE  Has(d, x) <=> x \in Numbers(c) \/ Has(dep, x)
  <2>1. ASSUME NEW i \in 1..Len(c), c[i].n = x
        PROVE  \E j \in 1..Len(d) : d[j] = x
    <3>1. Len(dep) + i \in 1..Len(d) /\ d[Len(dep) + i] = x
      BY <1>2, <2>1
    <3> QED
      BY <3>1
  <2>2. ASSUME NEW i \in 1..Len(dep), dep[i] = x
        PROVE  \E j \in 1..Len(d) : d[j] = x
    BY <1>2, <2>2
  <2>3. ASSUME NEW i \in 1..Len(d), d[i] = x
        PROVE  x \in Numbers(c) \/ \E j \in 1..Len(dep) : dep[j] = x
    BY <1>2, <1>3, <2>3 DEF Numbers
  <2> QED
    BY <2>1, <2>2, <2>3 DEF Numbers, Has
<1>5. ASSUME Distinct(c), Once(dep),
             Clear(dep, c),
             NEW i \in 1..Len(d), NEW j \in 1..Len(d), d[i] = d[j]
      PROVE  i = j
  <2>1. CASE i \in 1..Len(dep) /\ j \in 1..Len(dep)
    BY <1>2, <1>5, <2>1 DEF Once
  <2>2. CASE i \in 1..Len(dep) /\ j \notin 1..Len(dep)
    <3>1. d[i] = dep[i] /\ d[j] \in Numbers(c)
      BY <1>2, <1>3, <2>2 DEF Numbers
    <3> QED
      BY <1>5, <2>2, <3>1 DEF Clear, Has
  <2>3. CASE i \notin 1..Len(dep) /\ j \in 1..Len(dep)
    <3>1. d[j] = dep[j] /\ d[i] \in Numbers(c)
      BY <1>2, <1>3, <2>3 DEF Numbers
    <3> QED
      BY <1>5, <2>3, <3>1 DEF Clear, Has
  <2>4. CASE i \notin 1..Len(dep) /\ j \notin 1..Len(dep)
    <3>1. i - Len(dep) = j - Len(dep)
      BY <1>3, <1>5, <2>4 DEF Distinct
    <3> QED
      BY <1>2, <3>1
  <2> QED
    BY <2>1, <2>2, <2>3, <2>4
<1> QED
  BY <1>2, <1>4, <1>5 DEF Once

\* Nobody is in an empty buffer.
LEMMA NobodyAboard == Numbers(<<>>) = {} /\ Distinct(<<>>)
BY DEF Numbers, Distinct

\* The current train departs (flush, and reset).
LEMMA DepartsCurrent ==
    ASSUME NEW b \in Seq(Passenger), NEW trains \in Seq(Train), NEW dep \in Seq(Nat), NEW adm \in Nat,
           NEW d, d = dep \o Order(b), Travel(b, trains, dep, adm)
    PROVE  d \in Seq(Nat) /\ Travel(<<>>, trains, d, adm)
<1>1. Apart(b, trains, dep) /\ InLine(trains) /\ \A x : Somewhere(x, b, trains, dep) <=> x \in 1..adm
  BY DEF Travel
<1>2. /\ d \in Seq(Nat)
      /\ \A x : Has(d, x) <=> x \in Numbers(b) \/ Has(dep, x)
      /\ Once(d)
  <2>1. Distinct(b) /\ Once(dep) /\ Clear(dep, b)
    BY <1>1 DEF Apart
  <2> QED
    BY <2>1, Departing
<1>3. \A k \in 1..Len(trains) : Clear(d, trains[k].buffer_)
  BY <1>1, <1>2 DEF Apart, Clear
<1>4. Apart(<<>>, trains, d)
  BY <1>1, <1>2, <1>3, NobodyAboard DEF Apart, Clear
<1>5. \A x : Somewhere(x, <<>>, trains, d) <=> Somewhere(x, b, trains, dep)
  BY <1>2, NobodyAboard DEF Somewhere
<1> QED
  BY <1>1, <1>2, <1>4, <1>5 DEF Travel

\* The first of the dispatched trains departs (flush).
LEMMA DepartsFirst ==
    ASSUME NEW b \in Seq(Passenger), NEW trains \in Seq(Train), trains # <<>>,
           NEW dep \in Seq(Nat), NEW adm \in Nat, NEW d, NEW c, c = Head(trains).buffer_,
           d = dep \o Order(c), Travel(b, trains, dep, adm)
    PROVE  d \in Seq(Nat) /\ Travel(b, Tail(trains), d, adm)
<1> DEFINE rest == Tail(trains)
<1>1. /\ rest \in Seq(Train) /\ Len(trains) \in Nat \ {0} /\ Len(rest) = Len(trains) - 1
      /\ \A k \in 1..Len(rest) : rest[k] = trains[k + 1] /\ k + 1 \in 1..Len(trains) /\ k + 1 # 1
  OBVIOUS
<1>2. 1 \in 1..Len(trains) /\ c = trains[1].buffer_ /\ c \in Seq(Passenger)
  <2>1. trains[1] \in Train /\ Head(trains) = trains[1] /\ 1 \in 1..Len(trains)
    BY <1>1
  <2> QED
    BY <2>1 DEF Train
<1> HIDE DEF rest
<1>3. Apart(b, trains, dep) /\ InLine(trains) /\ \A x : Somewhere(x, b, trains, dep) <=> x \in 1..adm
  BY DEF Travel
<1>4. /\ Distinct(c) /\ Clear(dep, c)
      /\ Numbers(c) \cap Numbers(b) = {}
      /\ \A k \in 1..Len(rest) : Numbers(rest[k].buffer_) \cap Numbers(c) = {}
  BY <1>1, <1>2, <1>3 DEF Apart
<1>5. /\ d \in Seq(Nat)
      /\ \A x : Has(d, x) <=> x \in Numbers(c) \/ Has(dep, x)
      /\ Once(d)
  <2>1. Distinct(c) /\ Once(dep) /\ Clear(dep, c)
    BY <1>3, <1>4 DEF Apart
  <2> QED
    BY <1>2, <2>1, Departing
<1>6. Clear(d, b) /\ \A k \in 1..Len(rest) : Clear(d, rest[k].buffer_)
  <2>1. Clear(dep, b) /\ \A k \in 1..Len(rest) : Clear(dep, rest[k].buffer_)
    BY <1>1, <1>3 DEF Apart
  <2> QED
    BY <1>4, <1>5, <2>1 DEF Clear
<1>7. /\ \A k \in 1..Len(rest) : Distinct(rest[k].buffer_) /\ Numbers(rest[k].buffer_) \cap Numbers(b) = {}
      /\ \A k, l \in 1..Len(rest) :
            k # l => Numbers(rest[k].buffer_) \cap Numbers(rest[l].buffer_) = {}
  <2>1. \A k, l \in 1..Len(rest) : k # l => k + 1 # l + 1
    OBVIOUS
  <2> QED
    BY <1>1, <1>3, <2>1 DEF Apart
<1>8. Apart(b, rest, d)
  BY <1>3, <1>5, <1>6, <1>7 DEF Apart
<1>9. InLine(rest)
  <2>1. \A k, l \in 1..Len(rest) : k < l => k + 1 < l + 1
    OBVIOUS
  <2> QED
    BY <1>1, <1>3, <2>1 DEF InLine
<1>10. ASSUME NEW x
       PROVE  Somewhere(x, b, rest, d) <=> Somewhere(x, b, trains, dep)
  <2>1. (\E k \in 1..Len(trains) : x \in Numbers(trains[k].buffer_))
           <=> x \in Numbers(c) \/ \E k \in 1..Len(rest) : x \in Numbers(rest[k].buffer_)
    <3>1. \A k \in 1..Len(trains) : k = 1 \/ (k - 1 \in 1..Len(rest) /\ rest[k - 1] = trains[k])
      BY <1>1
    <3> QED
      BY <1>1, <1>2, <3>1
  <2> QED
    BY <1>5, <2>1 DEF Somewhere
<1> QED
  BY <1>3, <1>5, <1>8, <1>9, <1>10 DEF Travel, rest

\* A nonempty set of places has a first one.
LEMMA FirstPlace ==
    ASSUME NEW T, T \subseteq Nat, T # {}
    PROVE  \E x \in T : \A y \in T : x <= y
<1> DEFINE R == OpToRel(<, Nat)
<1>1. \A x, y \in Nat : <<y, x>> \in R <=> y < x
  BY DEF OpToRel
<1>2. IsWellFoundedOn(R, Nat)
  BY NatLessThanWellFounded
<1> HIDE DEF R
<1>3. PICK x \in T : \A y \in T : ~(<<y, x>> \in R)
  BY <1>2, WFMin
<1>4. ASSUME NEW y \in T
      PROVE  x <= y
  <2>1. x \in Nat /\ y \in Nat /\ ~(y < x)
    BY <1>1, <1>3
  <2> QED
    BY <2>1
<1> QED
  BY <1>4

\* The trains that depart no later than a time are the first ones: dispatched_trains_
\* is sorted by departure.
LEMMA DepartBefore ==
    ASSUME NEW trains \in Seq(Train), InLine(trains), NEW time \in Nat
    PROVE  \E k \in 0..Len(trains) :
              /\ Cardinality({i \in DOMAIN trains : trains[i].departure_ <= time}) = k
              /\ \A i \in 1..Len(trains) : trains[i].departure_ <= time <=> i <= k
<1> DEFINE T == {i \in 1..(Len(trains) + 1) : i <= Len(trains) => trains[i].departure_ > time}
<1>1. Len(trains) \in Nat /\ DOMAIN trains = 1..Len(trains) /\ \A i \in 1..Len(trains) : trains[i].departure_ \in Nat
  <2>1. \A i \in 1..Len(trains) : trains[i] \in Train
    OBVIOUS
  <2>2. \A i \in 1..Len(trains) : trains[i].departure_ \in Nat
    BY <2>1 DEF Train
  <2> QED
    BY <2>2
<1>2. Len(trains) + 1 \in T /\ T \subseteq Nat
  BY <1>1
<1>3. PICK x \in T : \A y \in T : x <= y
  BY <1>2, FirstPlace
<1>4. x \in 1..(Len(trains) + 1) /\ (x <= Len(trains) => trains[x].departure_ > time)
  OBVIOUS
<1>5. x - 1 \in 0..Len(trains)
  BY <1>1, <1>4
<1>6. ASSUME NEW i \in 1..Len(trains)
      PROVE  trains[i].departure_ <= time <=> i <= x - 1
  <2>1. CASE i <= x - 1
    <3>1. i \notin T
      BY <1>1, <1>3, <1>4, <2>1
    <3> QED
      BY <1>1, <2>1, <3>1
  <2>2. CASE ~(i <= x - 1)
    <3>1. x \in 1..Len(trains) /\ (x = i \/ x < i)
      BY <1>1, <1>4, <2>2
    <3>2. trains[x].departure_ <= trains[i].departure_
      BY <1>1, <3>1 DEF InLine
    <3> QED
      BY <1>1, <1>4, <2>2, <3>1, <3>2
  <2> QED
    BY <2>1, <2>2
<1>7. {i \in DOMAIN trains : trains[i].departure_ <= time} = 1..(x - 1)
  BY <1>1, <1>5, <1>6
<1>8. Cardinality(1..(x - 1)) = x - 1
  BY <1>1, <1>5, FS_Interval
<1> QED
  BY <1>5, <1>6, <1>7, <1>8

\* The line of trains with t in it, behind the first k.
Joined(line, trains, t, k) ==
    /\ line \in Seq(Train) /\ Len(line) = Len(trains) + 1 /\ line[k + 1] = t
    /\ \A i \in 1..k : line[i] = trains[i]
    /\ \A i \in (k + 1)..Len(trains) : line[i + 1] = trains[i]

\* A train that is dispatched stands behind those that depart no later.
LEMMA DispatchPlaces ==
    ASSUME NEW trains \in Seq(Train), InLine(trains), NEW t \in Train
    PROVE  \E k \in 0..Len(trains) :
              /\ \A i \in 1..Len(trains) : trains[i].departure_ <= t.departure_ <=> i <= k
              /\ Joined(Dispatch(trains, t), trains, t, k)
<1> DEFINE line == Dispatch(trains, t)
<1>2. t.departure_ \in Nat /\ Len(trains) \in Nat /\ \A i \in 1..Len(trains) : trains[i].departure_ \in Nat
  <2>1. \A i \in 1..Len(trains) : trains[i] \in Train
    OBVIOUS
  <2>2. \A i \in 1..Len(trains) : trains[i].departure_ \in Nat
    BY <2>1 DEF Train
  <2>3. t.departure_ \in Nat
    BY DEF Train
  <2>4. Len(trains) \in Nat
    OBVIOUS
  <2> QED
    BY <2>2, <2>3, <2>4
<1>3. PICK k \in 0..Len(trains) :
         /\ Cardinality({i \in DOMAIN trains : trains[i].departure_ <= t.departure_}) = k
         /\ \A i \in 1..Len(trains) : trains[i].departure_ <= t.departure_ <=> i <= k
  BY <1>2, DepartBefore
<1>4. /\ line \in Seq(Train) /\ Len(line) = Len(trains) + 1 /\ line[k + 1] = t
      /\ \A i \in 1..k : line[i] = trains[i]
      /\ \A i \in (k + 1)..Len(trains) : line[i + 1] = trains[i]
  <2> DEFINE u == SubSeq(trains, 1, k)
             v == SubSeq(trains, k + 1, Len(trains))
             w == u \o <<t>>
  <2>1. u \in Seq(Train) /\ Len(u) = k /\ \A i \in 1..k : u[i] = trains[i]
    <3>1. k \in Nat /\ 1 \in Nat /\ k <= Len(trains)
      BY <1>2, <1>3
    <3>2. u \in Seq(Train)
      BY <1>2, <3>1
    <3>3. Len(u) = k /\ \A i \in 1..k : u[i] = trains[i]
      BY <1>2, <3>1
    <3> QED
      BY <3>2, <3>3
  <2>2. v \in Seq(Train) /\ Len(v) = Len(trains) - k /\ \A i \in 1..(Len(trains) - k) : v[i] = trains[k + i]
    BY <1>2, <1>3
  <2>3. line = w \o v
    BY <1>3 DEF Dispatch
  <2> HIDE DEF u, v, line
  <2>4. w \in Seq(Train) /\ Len(w) = k + 1 /\ w[k + 1] = t /\ \A i \in 1..k : w[i] = trains[i]
    <3>1. w = Append(u, t)
      BY <2>1
    <3> HIDE DEF w
    <3>2. u \in Seq(Train) => /\ Append(u, t) \in Seq(Train) /\ Len(Append(u, t)) = Len(u) + 1
                              /\ Append(u, t)[Len(u) + 1] = t
                              /\ \A i \in 1..Len(u) : Append(u, t)[i] = u[i]
      OBVIOUS
    <3> QED
      BY <2>1, <3>1, <3>2
  <2> HIDE DEF w
  <2>5. line \in Seq(Train) /\ Len(line) = Len(trains) + 1
    <3>1. w \in Seq(Train) /\ v \in Seq(Train) => w \o v \in Seq(Train) /\ Len(w \o v) = Len(w) + Len(v)
      OBVIOUS
    <3>2. (k + 1) + (Len(trains) - k) = Len(trains) + 1
      BY <1>2, <1>3
    <3> QED
      BY <2>2, <2>3, <2>4, <3>1, <3>2
  <2>6. line[k + 1] = t /\ \A i \in 1..k : line[i] = trains[i]
    BY <1>2, <1>3, <2>2, <2>3, <2>4
  <2>7. ASSUME NEW i \in (k + 1)..Len(trains)
        PROVE  line[i + 1] = trains[i]
    <3>1. /\ i + 1 \in 1..(Len(w) + Len(v)) /\ i + 1 > Len(w) /\ (i + 1) - Len(w) = i - k
          /\ i - k \in 1..(Len(trains) - k) /\ k + (i - k) = i
      <4>1. Len(w) = k + 1 /\ Len(v) = Len(trains) - k
        BY <2>2, <2>4
      <4> QED
        BY <1>2, <1>3, <4>1
    <3>2. \A j \in 1..(Len(w) + Len(v)) : j > Len(w) => line[j] = v[j - Len(w)]
      BY <2>2, <2>3, <2>4
    <3>3. line[i + 1] = v[i - k]
      BY <3>1, <3>2
    <3> QED
      BY <2>2, <3>1, <3>3
  <2> QED
    BY <2>5, <2>6, <2>7
<1>5. Joined(line, trains, t, k)
  BY <1>4 DEF Joined
<1> QED
  BY <1>3, <1>5

\* A train with messages joins the trains that wait, in its place (send, STEP 8).
LEMMA Dispatched ==
    ASSUME NEW b \in Seq(Passenger), b # <<>>, NEW trains \in Seq(Train), NEW dep \in Seq(Nat), NEW adm \in Nat,
           NEW t \in Train, t.buffer_ = b, Travel(b, trains, dep, adm)
    PROVE  Dispatch(trains, t) \in Seq(Train) /\ Travel(<<>>, Dispatch(trains, t), dep, adm)
<1> DEFINE line == Dispatch(trains, t)
<1>1. Apart(b, trains, dep) /\ InLine(trains) /\ \A x : Somewhere(x, b, trains, dep) <=> x \in 1..adm
  BY DEF Travel
<1>2. t.departure_ \in Nat /\ Len(trains) \in Nat /\ \A i \in 1..Len(trains) : trains[i].departure_ \in Nat
  <2>1. \A i \in 1..Len(trains) : trains[i] \in Train
    OBVIOUS
  <2>2. \A i \in 1..Len(trains) : trains[i].departure_ \in Nat
    BY <2>1 DEF Train
  <2>3. t.departure_ \in Nat
    BY DEF Train
  <2>4. Len(trains) \in Nat
    OBVIOUS
  <2> QED
    BY <2>2, <2>3, <2>4
<1>3. PICK k \in 0..Len(trains) :
         /\ \A i \in 1..Len(trains) : trains[i].departure_ <= t.departure_ <=> i <= k
         /\ Joined(line, trains, t, k)
  BY <1>1, DispatchPlaces
<1>4. /\ line \in Seq(Train) /\ Len(line) = Len(trains) + 1 /\ line[k + 1] = t
      /\ \A i \in 1..k : line[i] = trains[i]
      /\ \A i \in (k + 1)..Len(trains) : line[i + 1] = trains[i]
  BY <1>3 DEF Joined
<1> HIDE DEF line
<1> DEFINE from(j) == IF j <= k THEN j ELSE j - 1
<1>5. ASSUME NEW j \in 1..Len(line), j # k + 1
      PROVE  from(j) \in 1..Len(trains) /\ line[j] = trains[from(j)]
  <2>1. CASE j <= k
    BY <1>2, <1>3, <1>4, <2>1
  <2>2. CASE j > k
    <3>1. j - 1 \in (k + 1)..Len(trains) /\ (j - 1) + 1 = j /\ from(j) = j - 1 /\ j - 1 \in 1..Len(trains)
      BY <1>2, <1>3, <1>4, <1>5, <2>2
    <3>2. line[j] = trains[j - 1]
      BY <1>4, <3>1
    <3> QED
      BY <3>1, <3>2
  <2> QED
    BY <1>3, <2>1, <2>2
<1>6. ASSUME NEW j \in 1..Len(line), NEW l \in 1..Len(line), j # k + 1, l # k + 1, j < l
      PROVE  from(j) < from(l)
  BY <1>2, <1>3, <1>4, <1>6
<1>7. ASSUME NEW i \in 1..Len(trains)
      PROVE  \E j \in 1..Len(line) : line[j] = trains[i]
  <2>1. CASE i <= k
    <3>1. i \in 1..Len(line) /\ line[i] = trains[i]
      BY <1>2, <1>3, <1>4, <2>1
    <3> QED
      BY <3>1
  <2>2. CASE i > k
    <3>1. i + 1 \in 1..Len(line) /\ line[i + 1] = trains[i]
      BY <1>2, <1>3, <1>4, <2>2
    <3> QED
      BY <3>1
  <2> QED
    BY <1>3, <2>1, <2>2
<1>8. k + 1 \in 1..Len(line) /\ line[k + 1] = t
  BY <1>2, <1>3, <1>4
<1> HIDE DEF from
<1>9. \A j \in 1..Len(line) : Distinct(line[j].buffer_) /\ Clear(dep, line[j].buffer_)
  BY <1>1, <1>5, <1>8 DEF Apart
<1>10. ASSUME NEW j \in 1..Len(line), NEW l \in 1..Len(line), j < l
       PROVE  Numbers(line[j].buffer_) \cap Numbers(line[l].buffer_) = {}
  <2>1. CASE j = k + 1
    <3>1. l # k + 1
      BY <1>2, <1>3, <1>10, <2>1
    <3> QED
      BY <1>1, <1>5, <1>8, <2>1, <3>1 DEF Apart
  <2>2. CASE l = k + 1
    <3>1. j # k + 1
      BY <1>2, <1>3, <1>10, <2>2
    <3> QED
      BY <1>1, <1>5, <1>8, <2>2, <3>1 DEF Apart
  <2>3. CASE j # k + 1 /\ l # k + 1
    <3>1. from(j) \in 1..Len(trains) /\ from(l) \in 1..Len(trains) /\ from(j) < from(l)
      BY <1>5, <1>6, <1>10, <2>3
    <3>2. from(j) # from(l)
      BY <3>1
    <3> QED
      BY <1>1, <1>5, <2>3, <3>1, <3>2 DEF Apart
  <2> QED
    BY <2>1, <2>2, <2>3
<1>11. Apart(<<>>, line, dep)
  <2>1. \A j, l \in 1..Len(line) : j # l => Numbers(line[j].buffer_) \cap Numbers(line[l].buffer_) = {}
    <3> SUFFICES ASSUME NEW j \in 1..Len(line), NEW l \in 1..Len(line), j # l
                 PROVE  Numbers(line[j].buffer_) \cap Numbers(line[l].buffer_) = {}
      OBVIOUS
    <3>1. j < l \/ l < j
      OBVIOUS
    <3> QED
      BY <1>10, <3>1
  <2>2. Clear(dep, <<>>) /\ Once(dep)
    BY <1>1, NobodyAboard DEF Clear, Apart
  <2> QED
    BY <1>9, <2>1, <2>2, NobodyAboard DEF Apart
<1>12. ASSUME NEW j \in 1..Len(line), NEW l \in 1..Len(line)
       PROVE  line[j].buffer_ # <<>> /\ (j < l => line[j].departure_ <= line[l].departure_)
  <2>1. line[j].buffer_ # <<>>
    BY <1>1, <1>5, <1>8 DEF InLine
  <2>2. ASSUME j < l, j = k + 1
        PROVE  line[j].departure_ <= line[l].departure_
    <3>1. l # k + 1 /\ ~(l <= k) /\ ~(l - 1 <= k)
      BY <1>2, <1>3, <1>4, <2>2
    <3>2. from(l) = l - 1
      BY <3>1 DEF from
    <3>3. from(l) \in 1..Len(trains) /\ line[l] = trains[from(l)] /\ line[j] = t
      BY <1>5, <1>8, <2>2, <3>1
    <3>4. ~(trains[from(l)].departure_ <= t.departure_)
      BY <1>3, <3>1, <3>2, <3>3
    <3> QED
      BY <1>2, <3>3, <3>4
  <2>3. ASSUME j < l, l = k + 1
        PROVE  line[j].departure_ <= line[l].departure_
    <3>1. j # k + 1 /\ j <= k /\ from(j) = j
      BY <1>2, <1>3, <1>4, <2>3 DEF from
    <3>2. from(j) \in 1..Len(trains) /\ line[j] = trains[from(j)] /\ line[l] = t
      BY <1>5, <1>8, <2>3, <3>1
    <3> QED
      BY <1>3, <3>1, <3>2
  <2>4. ASSUME j < l, j # k + 1, l # k + 1
        PROVE  line[j].departure_ <= line[l].departure_
    <3>1. /\ from(j) \in 1..Len(trains) /\ from(l) \in 1..Len(trains) /\ from(j) < from(l)
          /\ line[j] = trains[from(j)] /\ line[l] = trains[from(l)]
      BY <1>5, <1>6, <2>4
    <3> QED
      BY <1>1, <3>1 DEF InLine
  <2> QED
    BY <2>1, <2>2, <2>3, <2>4
<1>13. ASSUME NEW x
       PROVE  Somewhere(x, <<>>, line, dep) <=> Somewhere(x, b, trains, dep)
  <2>1. (\E j \in 1..Len(line) : x \in Numbers(line[j].buffer_))
           <=> x \in Numbers(b) \/ \E i \in 1..Len(trains) : x \in Numbers(trains[i].buffer_)
    BY <1>5, <1>7, <1>8
  <2> QED
    BY <2>1, NobodyAboard DEF Somewhere
<1>14. Travel(<<>>, line, dep, adm)
  BY <1>1, <1>11, <1>12, <1>13 DEF Travel, InLine
<1> QED
  BY <1>4, <1>14 DEF line

-----------------------------------------------------------------------------

\* Making, scheduling and entering a train (train(), schedule_train, STEPS 9 to 9.2).
LEMMA TrainParts ==
    ASSUME TrainTypes, NEW t \in Train
    PROVE  /\ \A d \in Nat : NewTrain(d) \in Train /\ NewTrain(d).buffer_ = <<>>
           /\ \A d \in Nat : [t EXCEPT !.departure_ = d] \in Train /\ [t EXCEPT !.departure_ = d].buffer_ = t.buffer_
           /\ schedule_train(t) \in Train /\ schedule_train(t).buffer_ = t.buffer_
<1>1. \A d \in Nat : NewTrain(d) \in Train /\ NewTrain(d).buffer_ = <<>>
  <2>1. <<>> \in Seq(Passenger)
    OBVIOUS
  <2> QED
    BY <2>1, TrainsAssumption DEF NewTrain, Train
<1>2. \A d \in Nat : [t EXCEPT !.departure_ = d] \in Train /\ [t EXCEPT !.departure_ = d].buffer_ = t.buffer_
  BY DEF Train
<1>3. \E d \in Nat : schedule_train(t) = [t EXCEPT !.departure_ = d]
  <2> DEFINE held == \E l \in last_departure_ : l + t.minimal_debounce_time_ > t.departure_
             last == CHOOSE l \in last_departure_ : TRUE
             d == IF held THEN last + t.minimal_debounce_time_ ELSE t.departure_
  <2>1. t.minimal_debounce_time_ \in Nat /\ t.departure_ \in Nat /\ last_departure_ \subseteq Nat
    BY DEF Train, TrainTypes
  <2>2. held => last \in last_departure_
    OBVIOUS
  <2>3. schedule_train(t) = [t EXCEPT !.departure_ = d]
    BY DEF schedule_train
  <2> HIDE DEF held, last
  <2>4. CASE held
    <3>1. last \in Nat /\ d = last + t.minimal_debounce_time_
      BY <2>1, <2>2, <2>4
    <3>2. d \in Nat
      BY <2>1, <3>1
    <3> QED
      BY <2>3, <3>2
  <2>5. CASE ~held
    <3>1. d \in Nat
      BY <2>1, <2>5
    <3> QED
      BY <2>3, <3>1
  <2> QED
    BY <2>4, <2>5
<1> QED
  BY <1>1, <1>2, <1>3

\* The train a message has entered, and the one a split message has only timed.
LEMMA Entered ==
    ASSUME NEW t \in Train, NEW m \in Passenger, NEW debouncing \in Nat, NEW retention \in Nat
    PROVE  LET u == Enter(t, m, debouncing, retention)
           IN  /\ u \in Train /\ u.buffer_ = Append(t.buffer_, m)
               /\ [u EXCEPT !.buffer_ = t.buffer_] \in Train
               /\ [u EXCEPT !.buffer_ = t.buffer_].buffer_ = t.buffer_
<1>1. Append(t.buffer_, m) \in Seq(Passenger) /\ t.buffer_ \in Seq(Passenger)
  BY DEF Train
<1> QED
  BY <1>1 DEF Enter, Train

\* A message that is to be sent.
LEMMA NewMessage ==
    ASSUME TrainTypes, NEW method \in Methods(configuration_)
    PROVE  /\ [n |-> admitted + 1, method |-> method, at |-> now] \in Passenger
           /\ configuration_.times[method].debounce \in Nat /\ configuration_.times[method].retention \in Nat
<1>1. configuration_ \in Configurations /\ now \in Nat /\ admitted \in Nat
  BY DEF TrainTypes
<1>2. method \in UNION {Methods(c) : c \in Configurations}
  BY <1>1
<1>3. configuration_.times[method] \in [debounce : Nat, retention : Nat]
  BY <1>1, TrainsAssumption
<1> QED
  BY <1>1, <1>2, <1>3 DEF Passenger

\* send() of a message that needs no segmentation: the train it cannot enter is
\* dispatched, and it enters a train.
LEMMA SendStep ==
    ASSUME TravelInv, NEW method \in Methods(configuration_), send(method)
    PROVE  TravelInv'
<1> DEFINE debouncing == configuration_.times[method].debounce
           retention  == configuration_.times[method].retention
           message    == [n |-> admitted + 1, method |-> method, at |-> now]
           leaves     == MustDepart(train_, method, debouncing, retention)
           trains     == IF leaves THEN Dispatch(dispatched_trains_, schedule_train(train_))
                         ELSE dispatched_trains_
           entered    == IF leaves \/ train_.buffer_ = <<>>
                         THEN [(IF leaves THEN NewTrain(0) ELSE train_) EXCEPT !.departure_ = now + retention]
                         ELSE [train_ EXCEPT !.departure_ =
                                 IF now + retention < @ THEN now + retention ELSE @]
           boarded    == Enter(entered, message, debouncing, retention)
<1>1. /\ TrainTypes /\ train_ \in Train /\ dispatched_trains_ \in Seq(Train)
      /\ departed \in Seq(Nat) /\ admitted \in Nat /\ now \in Nat
      /\ train_.buffer_ \in Seq(Passenger) /\ train_.departure_ \in Nat
      /\ Travel(train_.buffer_, dispatched_trains_, departed, admitted)
  BY DEF TravelInv, TrainTypes, Train
<1>2. message \in Passenger /\ message.n = admitted + 1 /\ debouncing \in Nat /\ retention \in Nat
  BY <1>1, NewMessage
<1>3. /\ train_' = boarded /\ dispatched_trains_' = trains /\ admitted' = admitted + 1
      /\ configuration_' = configuration_ /\ now' = now /\ last_departure_' = last_departure_
      /\ departed' = departed
  BY DEF send
<1> HIDE DEF debouncing, retention, message
<1>4. /\ leaves => train_.buffer_ # <<>>
      /\ NewTrain(0) \in Train /\ NewTrain(0).buffer_ = <<>>
      /\ schedule_train(train_) \in Train /\ schedule_train(train_).buffer_ = train_.buffer_
  BY <1>1, TrainParts DEF MustDepart
<1> HIDE DEF leaves
<1>5. /\ entered \in Train /\ trains \in Seq(Train)
      /\ Travel(entered.buffer_, trains, departed, admitted)
  <2>1. CASE leaves
    <3>1. trains \in Seq(Train) /\ Travel(<<>>, trains, departed, admitted)
      BY <1>1, <1>4, <2>1, Dispatched
    <3>2. entered = [NewTrain(0) EXCEPT !.departure_ = now + retention] /\ now + retention \in Nat
      BY <1>1, <1>2, <2>1
    <3> HIDE DEF entered, trains
    <3>3. entered \in Train /\ entered.buffer_ = <<>>
      BY <1>1, <1>4, <3>2, TrainParts
    <3> QED
      BY <3>1, <3>3
  <2>2. CASE ~leaves
    <3>1. \E d \in Nat : entered = [train_ EXCEPT !.departure_ = d]
      <4> DEFINE d == IF train_.buffer_ = <<>> \/ now + retention < train_.departure_
                      THEN now + retention ELSE train_.departure_
      <4>1. d \in Nat
        BY <1>1, <1>2
      <4>2. entered = [train_ EXCEPT !.departure_ = d]
        BY <2>2
      <4> QED
        BY <4>1, <4>2
    <3>2. trains = dispatched_trains_
      BY <2>2
    <3> HIDE DEF entered, trains
    <3>3. entered \in Train /\ entered.buffer_ = train_.buffer_
      BY <1>1, <3>1, TrainParts
    <3> QED
      BY <1>1, <3>2, <3>3
  <2> QED
    BY <2>1, <2>2
<1> HIDE DEF entered, trains
<1>6. boarded \in Train /\ boarded.buffer_ = Append(entered.buffer_, message)
  BY <1>2, <1>5, Entered
<1>7. entered.buffer_ \in Seq(Passenger)
  BY <1>5 DEF Train
<1> HIDE DEF boarded
<1>8. Travel(boarded.buffer_, trains, departed, admitted + 1)
  BY <1>1, <1>2, <1>5, <1>6, <1>7, Boarded
<1> QED
  BY <1>1, <1>3, <1>5, <1>6, <1>8 DEF TravelInv, TrainTypes

\* send() of a message that is split: it departs at once, and the waiting train is
\* dispatched (send_segments).
LEMMA SegmentsStep ==
    ASSUME TravelInv, NEW method \in Methods(configuration_), send_segments(method)
    PROVE  TravelInv'
<1> DEFINE debouncing == configuration_.times[method].debounce
           retention  == configuration_.times[method].retention
           message    == [n |-> admitted + 1, method |-> method, at |-> now]
           updated    == [Enter(train_, message, debouncing, retention) EXCEPT !.buffer_ = train_.buffer_]
<1>1. /\ TrainTypes /\ train_ \in Train /\ dispatched_trains_ \in Seq(Train)
      /\ departed \in Seq(Nat) /\ admitted \in Nat /\ now \in Nat
      /\ train_.buffer_ \in Seq(Passenger)
      /\ Travel(train_.buffer_, dispatched_trains_, departed, admitted)
  BY DEF TravelInv, TrainTypes, Train
<1>2. message \in Passenger /\ message.n = admitted + 1 /\ debouncing \in Nat /\ retention \in Nat
  BY <1>1, NewMessage
<1>3. /\ IF train_.buffer_ = <<>>
         THEN train_' = updated /\ dispatched_trains_' = dispatched_trains_
         ELSE /\ dispatched_trains_' = Dispatch(dispatched_trains_, schedule_train(updated))
              /\ train_' = NewTrain(now + retention)
      /\ admitted' = admitted + 1 /\ departed' = departed \o Order(<<message>>)
      /\ configuration_' = configuration_ /\ now' = now /\ last_departure_' = last_departure_
  BY DEF send_segments, QueueBuffer, Order
<1> HIDE DEF debouncing, retention, message
<1>4. departed' \in Seq(Nat) /\ departed' = Append(departed, admitted + 1)
  <2>1. Order(<<message>>) = <<admitted + 1>>
    BY <1>2 DEF Order
  <2>2. admitted + 1 \in Nat
    BY <1>1
  <2>3. \A e \in Nat : departed \o <<e>> = Append(departed, e) /\ Append(departed, e) \in Seq(Nat)
    BY <1>1
  <2> QED
    BY <1>3, <2>1, <2>2, <2>3
<1>5. updated \in Train /\ updated.buffer_ = train_.buffer_
  BY <1>1, <1>2, Entered
<1> HIDE DEF updated
<1>6. schedule_train(updated) \in Train /\ schedule_train(updated).buffer_ = train_.buffer_
  BY <1>1, <1>5, TrainParts
<1>7. /\ train_' \in Train /\ dispatched_trains_' \in Seq(Train)
      /\ Travel(train_'.buffer_, dispatched_trains_', departed, admitted)
  <2>1. CASE train_.buffer_ = <<>>
    BY <1>1, <1>3, <1>5, <2>1
  <2>2. CASE train_.buffer_ # <<>>
    <3>1. now + retention \in Nat
      BY <1>1, <1>2
    <3>2. train_' \in Train /\ train_'.buffer_ = <<>>
      BY <1>1, <1>3, <2>2, <3>1, TrainParts
    <3>3. dispatched_trains_' \in Seq(Train) /\ Travel(<<>>, dispatched_trains_', departed, admitted)
      BY <1>1, <1>3, <1>6, <2>2, Dispatched
    <3> QED
      BY <3>2, <3>3
  <2> QED
    BY <2>1, <2>2
<1>8. train_'.buffer_ \in Seq(Passenger)
  BY <1>7 DEF Train
<1>9. Travel(train_'.buffer_, dispatched_trains_', departed', admitted + 1)
  BY <1>1, <1>4, <1>7, <1>8, DepartsAtOnce
<1>10. Travel(train_'.buffer_, dispatched_trains_', departed', admitted') /\ admitted' \in Nat
  BY <1>1, <1>3, <1>9
<1>11. TrainTypes'
  BY <1>1, <1>3, <1>4, <1>7, <1>10 DEF TrainTypes
<1> QED
  BY <1>10, <1>11 DEF TravelInv

\* flush() of the train that is due: the current one or the first dispatched.
LEMMA FlushStep ==
    ASSUME TravelInv, flush
    PROVE  TravelInv'
<1>1. /\ TrainTypes /\ train_ \in Train /\ dispatched_trains_ \in Seq(Train)
      /\ departed \in Seq(Nat) /\ admitted \in Nat /\ now + SixHours \in Nat
      /\ train_.buffer_ \in Seq(Passenger)
      /\ Travel(train_.buffer_, dispatched_trains_, departed, admitted)
  BY TrainsAssumption DEF TravelInv, TrainTypes, Train
<1>2. /\ admitted' = admitted /\ configuration_' = configuration_ /\ now' = now
      /\ last_departure_' = last_departure_
  BY DEF flush
<1>3. /\ train_' \in Train /\ dispatched_trains_' \in Seq(Train) /\ departed' \in Seq(Nat)
      /\ Travel(train_'.buffer_, dispatched_trains_', departed', admitted)
  <2>1. CASE is_current_train /\ train_.buffer_ # <<>>
    <3>1. /\ train_' = NewTrain(now + SixHours) /\ dispatched_trains_' = dispatched_trains_
          /\ departed' = departed \o Order(train_.buffer_)
      BY <2>1 DEF flush, QueueBuffer, reset, Order
    <3>2. train_' \in Train /\ train_'.buffer_ = <<>>
      BY <1>1, <3>1, TrainParts
    <3>3. departed' \in Seq(Nat) /\ Travel(<<>>, dispatched_trains_, departed', admitted)
      <4> DEFINE d == departed'
                 b == train_.buffer_
      <4>1. /\ d = departed \o Order(b) /\ b \in Seq(Passenger)
            /\ Travel(b, dispatched_trains_, departed, admitted)
        BY <1>1, <3>1
      <4> HIDE DEF d, b
      <4>2. d \in Seq(Nat) /\ Travel(<<>>, dispatched_trains_, d, admitted)
        BY <1>1, <4>1, DepartsCurrent
      <4> QED
        BY <4>2 DEF d
    <3> QED
      BY <1>1, <3>1, <3>2, <3>3
  <2>2. CASE is_current_train /\ train_.buffer_ = <<>>
    <3>1. train_' = train_ /\ dispatched_trains_' = dispatched_trains_ /\ departed' = departed
      BY <2>2 DEF flush
    <3> QED
      BY <1>1, <3>1
  <2>3. CASE ~is_current_train
    <3>1. dispatched_trains_ # <<>>
      BY <2>3 DEF is_current_train
    <3>2. Head(dispatched_trains_).buffer_ # <<>>
      <4>1. 1 \in 1..Len(dispatched_trains_) /\ Head(dispatched_trains_) = dispatched_trains_[1]
        BY <1>1, <3>1
      <4> QED
        BY <1>1, <4>1 DEF Travel, InLine
    <3>3. /\ train_' = train_ /\ dispatched_trains_' = Tail(dispatched_trains_)
          /\ departed' = departed \o Order(Head(dispatched_trains_).buffer_)
      BY <2>3, <3>2 DEF flush, QueueBuffer, Order
    <3>4. departed' \in Seq(Nat) /\ Travel(train_.buffer_, Tail(dispatched_trains_), departed', admitted)
      <4> DEFINE d == departed'
                 c == Head(dispatched_trains_).buffer_
      <4>1. d = departed \o Order(c)
        BY <3>3
      <4>2. c = Head(dispatched_trains_).buffer_
        OBVIOUS
      <4> HIDE DEF d, c
      <4>3. d \in Seq(Nat) /\ Travel(train_.buffer_, Tail(dispatched_trains_), d, admitted)
        BY <1>1, <3>1, <4>1, <4>2, DepartsFirst
      <4> QED
        BY <4>3 DEF d
    <3>5. Tail(dispatched_trains_) \in Seq(Train)
      BY <1>1, <3>1
    <3> QED
      BY <1>1, <3>3, <3>4, <3>5
  <2> QED
    BY <2>1, <2>2, <2>3
<1> QED
  BY <1>1, <1>2, <1>3 DEF TravelInv, TrainTypes

\* The timers, the completions of writes and the passing of time move no message.
LEMMA OtherSteps ==
    ASSUME TravelInv, Expire \/ Sent \/ Tick \/ UNCHANGED trainVars
    PROVE  TravelInv'
<1>1. TrainTypes'
  <2>1. /\ train_' = train_ /\ dispatched_trains_' = dispatched_trains_ /\ admitted' = admitted
        /\ departed' = departed /\ configuration_' = configuration_
        /\ now' = now \/ now' = now + 1
        /\ last_departure_' = last_departure_ \/ last_departure_' = {now}
    BY DEF Expire, Sent, Tick, trainVars
  <2>2. TrainTypes /\ now \in Nat /\ last_departure_ \in SUBSET Nat
    BY DEF TravelInv, TrainTypes
  <2>3. now' \in Nat
    BY <2>1, <2>2
  <2>4. last_departure_' \in SUBSET Nat
    BY <2>1, <2>2
  <2> QED
    BY <2>1, <2>2, <2>3, <2>4 DEF TrainTypes
<1>2. Travel(train_'.buffer_, dispatched_trains_', departed', admitted')
  <2>1. /\ train_' = train_ /\ dispatched_trains_' = dispatched_trains_ /\ admitted' = admitted
        /\ departed' = departed
    BY DEF Expire, Sent, Tick, trainVars
  <2> QED
    BY <2>1 DEF TravelInv
<1> QED
  BY <1>1, <1>2 DEF TravelInv

\* At the start no message has been sent.
LEMMA TravelInit ==
    ASSUME TrainsInit
    PROVE  TravelInv
<1>1. /\ train_ = NewTrain(SixHours) /\ train_.buffer_ = <<>> /\ dispatched_trains_ = <<>>
      /\ departed = <<>> /\ admitted = 0
  BY DEF TrainsInit, NewTrain
<1>2. TrainTypes
  <2>1. NewTrain(SixHours) \in Train
    BY TrainsAssumption DEF NewTrain, Train
  <2> QED
    BY <1>1, <2>1 DEF TrainTypes, TrainsInit
<1>3. Travel(<<>>, <<>>, <<>>, 0)
  <2>1. 1..Len(<<>>) = {} /\ 1..0 = {}
    OBVIOUS
  <2>2. Numbers(<<>>) = {} /\ Distinct(<<>>) /\ Once(<<>>) /\ \A x : ~Has(<<>>, x)
    BY <2>1 DEF Numbers, Distinct, Once, Has
  <2> QED
    BY <2>1, <2>2 DEF Travel, Apart, InLine, Somewhere, Clear
<1> QED
  BY <1>1, <1>2, <1>3 DEF TravelInv

\* The numbers of a sequence without repetitions are as many as its places.
LEMMA AsManyAsPlaces ==
    ASSUME NEW d \in Seq(Nat), Once(d)
    PROVE  Len(d) = Cardinality(Range(d))
<1>1. Len(d) \in Nat /\ DOMAIN d = 1..Len(d) /\ \A i \in 1..Len(d) : d[i] \in Nat
  OBVIOUS
<1>2. IsFiniteSet(1..Len(d)) /\ Cardinality(1..Len(d)) = Len(d)
  BY <1>1, FS_Interval
<1>3. d \in Bijection(1..Len(d), Range(d))
  BY <1>1 DEF Once, Range, Bijection, Injection, Surjection, IsInjective
<1> QED
  BY <1>2, <1>3, FS_Bijection DEF ExistsBijection

\* What TravelInv says of the state is what EachTravelsOnce says.
LEMMA TravelsOnce ==
    ASSUME TravelInv
    PROVE  EachTravelsOnce
<1>1. /\ departed \in Seq(Nat) /\ train_.buffer_ \in Seq(Passenger)
      /\ dispatched_trains_ \in Seq(Train)
      /\ Apart(train_.buffer_, dispatched_trains_, departed) /\ InLine(dispatched_trains_)
      /\ \A x : Somewhere(x, train_.buffer_, dispatched_trains_, departed) <=> x \in 1..admitted
  BY DEF TravelInv, TrainTypes, Train, Travel
<1>2. /\ DOMAIN departed = 1..Len(departed) /\ DOMAIN dispatched_trains_ = 1..Len(dispatched_trains_)
      /\ DOMAIN train_.buffer_ = 1..Len(train_.buffer_)
      /\ \A k \in 1..Len(dispatched_trains_) :
           DOMAIN dispatched_trains_[k].buffer_ = 1..Len(dispatched_trains_[k].buffer_)
  <2>1. \A k \in 1..Len(dispatched_trains_) : dispatched_trains_[k].buffer_ \in Seq(Passenger)
    <3>1. \A k \in 1..Len(dispatched_trains_) : dispatched_trains_[k] \in Train
      BY <1>1
    <3> QED
      BY <3>1 DEF Train
  <2> QED
    BY <1>1, <2>1
<1>3. \A x : x \in Range(departed) <=> Has(departed, x)
  BY <1>2 DEF Range, Has
<1>4. \A x : x \in {m.n : m \in Waiting} <=>
              \/ x \in Numbers(train_.buffer_)
              \/ \E k \in 1..Len(dispatched_trains_) : x \in Numbers(dispatched_trains_[k].buffer_)
  <2>1. \A m : m \in Waiting <=>
               \/ m \in Range(train_.buffer_)
               \/ \E k \in 1..Len(dispatched_trains_) : m \in Range(dispatched_trains_[k].buffer_)
    BY <1>2 DEF Waiting
  <2>2. \A x : x \in Numbers(train_.buffer_) <=> \E m \in Range(train_.buffer_) : m.n = x
    BY <1>2 DEF Numbers, Range
  <2>3. \A k \in 1..Len(dispatched_trains_) : \A x :
           x \in Numbers(dispatched_trains_[k].buffer_) <=>
             \E m \in Range(dispatched_trains_[k].buffer_) : m.n = x
    BY <1>2 DEF Numbers, Range
  <2> SUFFICES ASSUME NEW x
               PROVE  (\E m \in Waiting : m.n = x) <=>
                        \/ x \in Numbers(train_.buffer_)
                        \/ \E k \in 1..Len(dispatched_trains_) :
                             x \in Numbers(dispatched_trains_[k].buffer_)
    OBVIOUS
  <2>4. ASSUME NEW m \in Waiting, m.n = x
        PROVE  \/ x \in Numbers(train_.buffer_)
               \/ \E k \in 1..Len(dispatched_trains_) :
                    x \in Numbers(dispatched_trains_[k].buffer_)
    BY <2>1, <2>2, <2>3, <2>4
  <2>5. ASSUME x \in Numbers(train_.buffer_)
        PROVE  \E m \in Waiting : m.n = x
    BY <2>1, <2>2, <2>5
  <2>6. ASSUME NEW k \in 1..Len(dispatched_trains_), x \in Numbers(dispatched_trains_[k].buffer_)
        PROVE  \E m \in Waiting : m.n = x
    BY <2>1, <2>3, <2>6
  <2> QED
    BY <2>4, <2>5, <2>6
<1>5. Len(departed) = Cardinality(Range(departed))
  BY <1>1, AsManyAsPlaces DEF Apart
<1>6. Range(departed) \cap {m.n : m \in Waiting} = {}
  BY <1>1, <1>3, <1>4 DEF Apart, Clear
<1>7. Range(departed) \cup {m.n : m \in Waiting} = 1..admitted
  BY <1>1, <1>3, <1>4 DEF Somewhere
<1>8. \A i, j \in DOMAIN dispatched_trains_ :
         /\ dispatched_trains_[i].buffer_ # <<>>
         /\ i < j => dispatched_trains_[i].departure_ <= dispatched_trains_[j].departure_
  BY <1>1, <1>2 DEF InLine
<1> QED
  BY <1>5, <1>6, <1>7, <1>8 DEF EachTravelsOnce

\* No message send() accepted is lost, queued twice or left behind in a train that has
\* left, whatever the trains, their times and the limits (EachTravelsOnce).
THEOREM EveryMessageTravelsOnce == TrainsSpec => []EachTravelsOnce
<1>1. TrainsInit => TravelInv
  BY TravelInit
<1>2. TravelInv /\ [TrainsNext]_trainVars => TravelInv'
  <2> SUFFICES ASSUME TravelInv, [TrainsNext]_trainVars
               PROVE  TravelInv'
    OBVIOUS
  <2>1. CASE \E method \in Methods(configuration_) : send(method) \/ send_segments(method)
    BY <2>1, SendStep, SegmentsStep
  <2>2. CASE flush
    BY <2>2, FlushStep
  <2>3. CASE Expire \/ Sent \/ Tick \/ UNCHANGED trainVars
    BY <2>3, OtherSteps
  <2> QED
    BY <2>1, <2>2, <2>3 DEF TrainsNext
<1>3. TravelInv => EachTravelsOnce
  BY TravelsOnce
<1> QED
  BY <1>1, <1>2, <1>3, PTL DEF TrainsSpec

-----------------------------------------------------------------------------
(* Retention: no message waits longer than its times and the lag allow      *)

\* The time by which a message leaves the current train, and the train it is in leaves
\* the station.
Leave(m, c) == m.at + c.times[m.method].retention

End(m, c) == Leave(m, c) + c.times[m.method].debounce

\* At the time n, with lag l: the current train departs before anybody in it has to
\* leave, and is held back by nobody's debounce time but the least.
Early(t, c, n, l) ==
    \A i \in 1..Len(t.buffer_) :
        /\ t.buffer_[i].method \in Methods(c)
        /\ t.minimal_debounce_time_ <= c.times[t.buffer_[i].method].debounce
        /\ n <= Leave(t.buffer_[i], c) + l
        /\ t.departure_ <= Leave(t.buffer_[i], c) + l

\* A dispatched train departs before the end of anybody in it.
OnTime(t, c, n, l) ==
    \A i \in 1..Len(t.buffer_) :
        /\ t.buffer_[i].method \in Methods(c)
        /\ n <= End(t.buffer_[i], c) + l
        /\ t.departure_ <= End(t.buffer_[i], c) + l

\* A handler is due, or the timer expires by the departure of the train.
Watched(t, n, timer, d) == d > 0 \/ \E x \in timer : x <= n \/ x <= t.departure_

RetentionInv ==
    /\ late \in Nat /\ due \in Nat /\ dispatch_timer_ \subseteq Nat
    /\ \A x, y \in last_departure_ : x <= now /\ x = y
    /\ Early(train_, configuration_, now, late)
    /\ train_.buffer_ # <<>> => Watched(train_, now, dispatch_timer_, due)
    /\ \A k \in 1..Len(dispatched_trains_) :
         /\ OnTime(dispatched_trains_[k], configuration_, now, late)
         /\ Watched(dispatched_trains_[k], now, dispatch_timer_, due)

\* The times of a message and of a train are numbers.
LEMMA TimesAreNumbers ==
    ASSUME NEW c \in Configurations, NEW t \in Train, NEW i \in 1..Len(t.buffer_),
           t.buffer_[i].method \in Methods(c)
    PROVE  /\ Leave(t.buffer_[i], c) \in Nat /\ c.times[t.buffer_[i].method].debounce \in Nat
           /\ End(t.buffer_[i], c) = Leave(t.buffer_[i], c) + c.times[t.buffer_[i].method].debounce
           /\ End(t.buffer_[i], c) \in Nat /\ t.departure_ \in Nat /\ t.minimal_debounce_time_ \in Nat
<1> DEFINE m == t.buffer_[i]
<1>1. t.buffer_ \in Seq(Passenger) /\ t.departure_ \in Nat /\ t.minimal_debounce_time_ \in Nat
  BY DEF Train
<1>2. m \in Passenger
  BY <1>1
<1>3. m.at \in Nat
  BY <1>2 DEF Passenger
<1>4. c.times[m.method] \in [debounce : Nat, retention : Nat]
  BY TrainsAssumption
<1>5. c.times[m.method].debounce \in Nat /\ c.times[m.method].retention \in Nat
  BY <1>4
<1> HIDE DEF m
<1>6. Leave(m, c) \in Nat /\ End(m, c) = Leave(m, c) + c.times[m.method].debounce
  BY <1>3, <1>5 DEF Leave, End
<1>7. End(m, c) \in Nat
  BY <1>5, <1>6
<1> QED
  BY <1>1, <1>5, <1>6, <1>7 DEF m

\* A train that joins the line is the only one that was not in it.
LEMMA OnlyOneJoins ==
    ASSUME NEW trains \in Seq(Train), InLine(trains), NEW t \in Train, NEW j \in 1..Len(Dispatch(trains, t))
    PROVE  Dispatch(trains, t)[j] = t \/ \E i \in 1..Len(trains) : Dispatch(trains, t)[j] = trains[i]
<1> DEFINE line == Dispatch(trains, t)
<1>1. PICK k \in 0..Len(trains) : Joined(line, trains, t, k)
  BY DispatchPlaces
<1>2. Len(trains) \in Nat
  OBVIOUS
<1>3. j \in 1..Len(line)
  OBVIOUS
<1> HIDE DEF line
<1>4. CASE j <= k
  <2>1. j \in 1..k /\ j \in 1..Len(trains)
    BY <1>1, <1>2, <1>3, <1>4
  <2> QED
    BY <1>1, <2>1 DEF Joined, line
<1>5. CASE j = k + 1
  BY <1>1, <1>5 DEF Joined, line
<1>6. CASE j > k + 1
  <2>1. j - 1 \in (k + 1)..Len(trains) /\ j - 1 \in 1..Len(trains) /\ (j - 1) + 1 = j
    BY <1>1, <1>2, <1>3, <1>6 DEF Joined
  <2>2. line[j] = trains[j - 1]
    BY <1>1, <2>1 DEF Joined
  <2> QED
    BY <2>1, <2>2 DEF line
<1> QED
  BY <1>1, <1>3, <1>4, <1>5, <1>6

\* schedule_train(): a train that was early, held back by its least debounce time
\* after the last write, is on time.
LEMMA ScheduledOnTime ==
    ASSUME TrainTypes, NEW l \in Nat, NEW t \in Train, Early(t, configuration_, now, l),
           \A x, y \in last_departure_ : x <= now /\ x = y
    PROVE  /\ OnTime(schedule_train(t), configuration_, now, l)
           /\ t.departure_ <= schedule_train(t).departure_
<1> DEFINE c == configuration_
           held == \E x \in last_departure_ : x + t.minimal_debounce_time_ > t.departure_
           last == CHOOSE x \in last_departure_ : TRUE
           u == schedule_train(t)
<1>1. /\ c \in Configurations /\ now \in Nat /\ last_departure_ \subseteq Nat
      /\ t.departure_ \in Nat /\ t.minimal_debounce_time_ \in Nat
  BY DEF TrainTypes, Train
<1>2. /\ u.buffer_ = t.buffer_
      /\ u.departure_ = IF held THEN last + t.minimal_debounce_time_ ELSE t.departure_
  BY DEF schedule_train, Train
<1>3. held => /\ last \in last_departure_ /\ last \in Nat /\ last <= now
              /\ last + t.minimal_debounce_time_ > t.departure_
  BY <1>1
<1> HIDE DEF u, held, last, c
<1>4. t.departure_ <= u.departure_ /\ u.departure_ \in Nat
  <2>1. CASE held
    BY <1>1, <1>2, <1>3, <2>1
  <2>2. CASE ~held
    BY <1>1, <1>2, <2>2
  <2> QED
    BY <2>1, <2>2
<1>5. ASSUME NEW i \in 1..Len(t.buffer_)
      PROVE  /\ t.buffer_[i].method \in Methods(c) /\ now <= End(t.buffer_[i], c) + l
             /\ u.departure_ <= End(t.buffer_[i], c) + l
  <2> DEFINE leave == Leave(t.buffer_[i], c)
             end == End(t.buffer_[i], c)
             debounce == c.times[t.buffer_[i].method].debounce
  <2>1. /\ t.buffer_[i].method \in Methods(c) /\ t.minimal_debounce_time_ <= debounce
        /\ now <= leave + l /\ t.departure_ <= leave + l
    BY DEF Early, c
  <2>2. leave \in Nat /\ debounce \in Nat /\ end = leave + debounce
    BY <1>1, <2>1, TimesAreNumbers
  <2> HIDE DEF leave, end, debounce
  <2>3. now <= end + l
    BY <1>1, <2>1, <2>2
  <2>4. u.departure_ <= end + l
    <3>1. CASE held
      BY <1>1, <1>2, <1>3, <2>1, <2>2, <3>1
    <3>2. CASE ~held
      BY <1>1, <1>2, <2>1, <2>2, <3>2
    <3> QED
      BY <3>1, <3>2
  <2> QED
    BY <2>1, <2>3, <2>4 DEF end
<1> QED
  BY <1>2, <1>4, <1>5 DEF OnTime, u, c

\* start_dispatch_timer(): the timer expires by the departure of every train.
LEMMA TimerWatches ==
    ASSUME now \in Nat, NEW t \in Train, NEW trains \in Seq(Train), InLine(trains), NEW d
    PROVE  /\ start_dispatch_timer(t, trains) \subseteq Nat
           /\ Watched(t, now, start_dispatch_timer(t, trains), d)
           /\ \A k \in 1..Len(trains) : Watched(trains[k], now, start_dispatch_timer(t, trains), d)
<1> DEFINE next == IF trains # <<>> /\ Head(trains).departure_ < t.departure_ THEN Head(trains) ELSE t
           x == IF next.departure_ > now THEN next.departure_ ELSE now
<1>1. start_dispatch_timer(t, trains) = {x}
  BY DEF start_dispatch_timer
<1>2. \A k \in 1..Len(trains) : trains[k] \in Train
  OBVIOUS
<1>3. t.departure_ \in Nat /\ \A k \in 1..Len(trains) : trains[k].departure_ \in Nat
  BY <1>2 DEF Train
<1>4. ASSUME NEW k \in 1..Len(trains)
      PROVE  /\ trains # <<>> /\ Head(trains) = trains[1] /\ 1 \in 1..Len(trains)
             /\ trains[1].departure_ <= trains[k].departure_
  <2>1. trains # <<>> /\ Head(trains) = trains[1] /\ 1 \in 1..Len(trains) /\ (k = 1 \/ 1 < k)
    OBVIOUS
  <2>2. k = 1 \/ trains[1].departure_ <= trains[k].departure_
    BY <2>1 DEF InLine
  <2>3. trains[1].departure_ <= trains[1].departure_
    BY <1>3, <2>1
  <2> QED
    BY <2>1, <2>2, <2>3
<1>5. next.departure_ \in Nat /\ next.departure_ <= t.departure_
  <2>1. CASE trains # <<>> /\ Head(trains).departure_ < t.departure_
    <3>1. Head(trains) = trains[1] /\ 1 \in 1..Len(trains)
      BY <2>1
    <3> QED
      BY <1>3, <2>1, <3>1
  <2>2. CASE ~(trains # <<>> /\ Head(trains).departure_ < t.departure_)
    BY <1>3, <2>2
  <2> QED
    BY <2>1, <2>2
<1>6. ASSUME NEW k \in 1..Len(trains)
      PROVE  next.departure_ <= trains[k].departure_
  BY <1>3, <1>4
<1> HIDE DEF next
<1>7. x \in Nat /\ (x <= now \/ x = next.departure_)
  BY <1>5
<1> HIDE DEF x
<1>8. Watched(t, now, {x}, d)
  BY <1>5, <1>7 DEF Watched
<1>9. ASSUME NEW k \in 1..Len(trains)
      PROVE  Watched(trains[k], now, {x}, d)
  BY <1>6, <1>7 DEF Watched
<1> QED
  BY <1>1, <1>7, <1>8, <1>9

\* Time passes: when the departure of a train is over, the lag grows with it.
LEMMA TimeKeeps ==
    ASSUME NEW c \in Configurations, NEW n \in Nat, NEW l \in Nat, NEW k \in Nat, NEW t \in Train,
           k = l \/ k = l + 1, t.departure_ <= n => k = l + 1
    PROVE  /\ Early(t, c, n, l) => Early(t, c, n + 1, k)
           /\ OnTime(t, c, n, l) => OnTime(t, c, n + 1, k)
<1>1. t.departure_ \in Nat
  BY DEF Train
<1>2. \A x \in Nat : n <= x + l /\ t.departure_ <= x + l => n + 1 <= x + k /\ t.departure_ <= x + k
  BY <1>1
<1>3. ASSUME Early(t, c, n, l)
      PROVE  Early(t, c, n + 1, k)
  <2> SUFFICES ASSUME NEW i \in 1..Len(t.buffer_)
               PROVE  /\ t.buffer_[i].method \in Methods(c)
                      /\ t.minimal_debounce_time_ <= c.times[t.buffer_[i].method].debounce
                      /\ n + 1 <= Leave(t.buffer_[i], c) + k
                      /\ t.departure_ <= Leave(t.buffer_[i], c) + k
    BY DEF Early
  <2>1. /\ t.buffer_[i].method \in Methods(c)
        /\ t.minimal_debounce_time_ <= c.times[t.buffer_[i].method].debounce
        /\ n <= Leave(t.buffer_[i], c) + l /\ t.departure_ <= Leave(t.buffer_[i], c) + l
    BY <1>3 DEF Early
  <2>2. Leave(t.buffer_[i], c) \in Nat
    BY <2>1, TimesAreNumbers
  <2> QED
    BY <1>2, <2>1, <2>2
<1>4. ASSUME OnTime(t, c, n, l)
      PROVE  OnTime(t, c, n + 1, k)
  <2> SUFFICES ASSUME NEW i \in 1..Len(t.buffer_)
               PROVE  /\ t.buffer_[i].method \in Methods(c)
                      /\ n + 1 <= End(t.buffer_[i], c) + k
                      /\ t.departure_ <= End(t.buffer_[i], c) + k
    BY DEF OnTime
  <2>1. /\ t.buffer_[i].method \in Methods(c)
        /\ n <= End(t.buffer_[i], c) + l /\ t.departure_ <= End(t.buffer_[i], c) + l
    BY <1>4 DEF OnTime
  <2>2. End(t.buffer_[i], c) \in Nat
    BY <2>1, TimesAreNumbers
  <2> QED
    BY <1>2, <2>1, <2>2
<1> QED
  BY <1>3, <1>4

\* Time passes.
LEMMA TickRetention ==
    ASSUME TravelInv, RetentionInv, Tick
    PROVE  RetentionInv'
<1>1. /\ configuration_ \in Configurations /\ now \in Nat /\ late \in Nat /\ train_ \in Train
      /\ dispatched_trains_ \in Seq(Train) /\ last_departure_ \subseteq Nat /\ dispatch_timer_ \subseteq Nat
      /\ due \in Nat
  BY DEF TravelInv, TrainTypes, RetentionInv
<1>2. /\ now' = now + 1 /\ late' = IF Lagging THEN late + 1 ELSE late
      /\ configuration_' = configuration_ /\ train_' = train_ /\ dispatched_trains_' = dispatched_trains_
      /\ last_departure_' = last_departure_ /\ dispatch_timer_' = dispatch_timer_ /\ due' = due
  BY DEF Tick
<1>3. late' \in Nat /\ (late' = late \/ late' = late + 1)
  BY <1>1, <1>2
<1>4. ASSUME NEW t \in Train, Watched(t, now, dispatch_timer_, due)
      PROVE  /\ t.departure_ <= now => late' = late + 1
             /\ Watched(t, now + 1, dispatch_timer_, due)
  <2>1. t.departure_ \in Nat
    BY DEF Train
  <2>2. t.departure_ <= now => Lagging
    BY <1>1, <1>4, <2>1 DEF Watched, Lagging
  <2>3. Watched(t, now + 1, dispatch_timer_, due)
    BY <1>1, <1>4 DEF Watched
  <2> QED
    BY <1>2, <2>2, <2>3
<1>5. Early(train_, configuration_, now + 1, late')
  <2>1. CASE train_.buffer_ = <<>>
    BY <2>1 DEF Early
  <2>2. CASE train_.buffer_ # <<>>
    <3>1. train_.departure_ <= now => late' = late + 1
      BY <1>1, <1>4, <2>2 DEF RetentionInv
    <3>2. Early(train_, configuration_, now, late)
      BY DEF RetentionInv
    <3> QED
      BY <1>1, <1>3, <3>1, <3>2, TimeKeeps
  <2> QED
    BY <2>1, <2>2
<1>6. train_.buffer_ # <<>> => Watched(train_, now + 1, dispatch_timer_, due)
  BY <1>1, <1>4 DEF RetentionInv
<1>7. ASSUME NEW k \in 1..Len(dispatched_trains_)
      PROVE  /\ OnTime(dispatched_trains_[k], configuration_, now + 1, late')
             /\ Watched(dispatched_trains_[k], now + 1, dispatch_timer_, due)
  <2>1. /\ OnTime(dispatched_trains_[k], configuration_, now, late)
        /\ Watched(dispatched_trains_[k], now, dispatch_timer_, due)
    BY DEF RetentionInv
  <2>2. dispatched_trains_[k] \in Train
    BY <1>1
  <2>3. /\ dispatched_trains_[k].departure_ <= now => late' = late + 1
        /\ Watched(dispatched_trains_[k], now + 1, dispatch_timer_, due)
    BY <1>4, <2>1, <2>2
  <2> QED
    BY <1>1, <1>3, <2>1, <2>2, <2>3, TimeKeeps
<1>8. \A x, y \in last_departure_ : x <= now + 1 /\ x = y
  BY <1>1 DEF RetentionInv
<1> QED
  BY <1>1, <1>2, <1>3, <1>5, <1>6, <1>7, <1>8 DEF RetentionInv

\* STEPS 9 to 9.2: a train with a new message that departs by its retention time, and
\* one that only takes over the times of the message.
LEMMA EntersEarly ==
    ASSUME NEW c \in Configurations, NEW n \in Nat, NEW l \in Nat, NEW e \in Train, Early(e, c, n, l),
           NEW m \in Passenger, m.method \in Methods(c), m.at = n,
           NEW debouncing \in Nat, debouncing = c.times[m.method].debounce,
           NEW retention \in Nat, retention = c.times[m.method].retention
    PROVE  /\ e.departure_ <= n + retention => Early(Enter(e, m, debouncing, retention), c, n, l)
           /\ Early([Enter(e, m, debouncing, retention) EXCEPT !.buffer_ = e.buffer_], c, n, l)
<1> DEFINE u == Enter(e, m, debouncing, retention)
           v == [u EXCEPT !.buffer_ = e.buffer_]
<1>1. e.buffer_ \in Seq(Passenger) /\ e.minimal_debounce_time_ \in Nat /\ e.departure_ \in Nat
  BY DEF Train
<1>2. /\ u.buffer_ = Append(e.buffer_, m) /\ u.departure_ = e.departure_
      /\ v.buffer_ = e.buffer_ /\ v.departure_ = e.departure_
      /\ v.minimal_debounce_time_ = u.minimal_debounce_time_
      /\ u.minimal_debounce_time_ = IF debouncing < e.minimal_debounce_time_ THEN debouncing
                                    ELSE e.minimal_debounce_time_
  BY DEF Enter
<1> HIDE DEF u, v
<1>3. /\ u.minimal_debounce_time_ \in Nat /\ u.minimal_debounce_time_ <= debouncing
      /\ u.minimal_debounce_time_ <= e.minimal_debounce_time_
  BY <1>1, <1>2
<1>4. ASSUME NEW i \in 1..Len(e.buffer_)
      PROVE  /\ e.buffer_[i].method \in Methods(c)
             /\ u.minimal_debounce_time_ <= c.times[e.buffer_[i].method].debounce
             /\ n <= Leave(e.buffer_[i], c) + l /\ e.departure_ <= Leave(e.buffer_[i], c) + l
  <2>1. /\ e.buffer_[i].method \in Methods(c)
        /\ e.minimal_debounce_time_ <= c.times[e.buffer_[i].method].debounce
        /\ n <= Leave(e.buffer_[i], c) + l /\ e.departure_ <= Leave(e.buffer_[i], c) + l
    BY DEF Early
  <2>2. c.times[e.buffer_[i].method].debounce \in Nat
    BY <2>1, TimesAreNumbers
  <2>3. u.minimal_debounce_time_ <= c.times[e.buffer_[i].method].debounce
    BY <1>1, <1>3, <2>1, <2>2
  <2> QED
    BY <2>1, <2>3
<1>5. Early(v, c, n, l)
  BY <1>2, <1>4 DEF Early
<1>6. ASSUME e.departure_ <= n + retention
      PROVE  Early(u, c, n, l)
  <2>1. /\ m.method \in Methods(c) /\ u.minimal_debounce_time_ <= c.times[m.method].debounce
        /\ n <= Leave(m, c) + l /\ e.departure_ <= Leave(m, c) + l
    <3>1. Leave(m, c) = n + retention
      BY DEF Leave
    <3>2. n <= (n + retention) + l /\ e.departure_ <= (n + retention) + l
      <4>1. \A a, b, x, y \in Nat : y <= a + b => a <= (a + b) + x /\ y <= (a + b) + x
        OBVIOUS
      <4> QED
        BY <1>1, <1>6, <4>1
    <3> QED
      BY <1>3, <3>1, <3>2
  <2>2. \A i \in 1..Len(u.buffer_) : u.buffer_[i] = m \/ (i \in 1..Len(e.buffer_) /\ u.buffer_[i] = e.buffer_[i])
    <3>1. /\ Len(Append(e.buffer_, m)) = Len(e.buffer_) + 1 /\ Len(e.buffer_) \in Nat
          /\ Append(e.buffer_, m)[Len(e.buffer_) + 1] = m
          /\ \A i \in 1..Len(e.buffer_) : Append(e.buffer_, m)[i] = e.buffer_[i]
      BY <1>1
    <3>2. \A i \in 1..(Len(e.buffer_) + 1) : i = Len(e.buffer_) + 1 \/ i \in 1..Len(e.buffer_)
      BY <3>1
    <3> QED
      BY <1>2, <3>1, <3>2
  <2> SUFFICES ASSUME NEW i \in 1..Len(u.buffer_)
               PROVE  /\ u.buffer_[i].method \in Methods(c)
                      /\ u.minimal_debounce_time_ <= c.times[u.buffer_[i].method].debounce
                      /\ n <= Leave(u.buffer_[i], c) + l /\ u.departure_ <= Leave(u.buffer_[i], c) + l
    BY DEF Early
  <2>3. CASE u.buffer_[i] = m
    BY <1>2, <2>1, <2>3
  <2>4. CASE i \in 1..Len(e.buffer_) /\ u.buffer_[i] = e.buffer_[i]
    BY <1>2, <1>4, <2>4
  <2> QED
    BY <2>2, <2>3, <2>4
<1> QED
  BY <1>5, <1>6 DEF u, v

\* The trains in the station when t has been scheduled are on time.
LEMMA LineOnTime ==
    ASSUME TravelInv, RetentionInv, NEW t \in Train, Early(t, configuration_, now, late),
           NEW k \in 1..Len(Dispatch(dispatched_trains_, schedule_train(t)))
    PROVE  /\ OnTime(Dispatch(dispatched_trains_, schedule_train(t))[k], configuration_, now, late)
           /\ \/ Dispatch(dispatched_trains_, schedule_train(t))[k] = schedule_train(t)
              \/ Watched(Dispatch(dispatched_trains_, schedule_train(t))[k], now, dispatch_timer_, due)
<1> DEFINE u == schedule_train(t)
<1>1. /\ TrainTypes /\ dispatched_trains_ \in Seq(Train) /\ InLine(dispatched_trains_) /\ late \in Nat
      /\ \A x, y \in last_departure_ : x <= now /\ x = y
  BY DEF TravelInv, TrainTypes, Travel, RetentionInv
<1>2. u \in Train
  BY <1>1, TrainParts
<1>3. OnTime(u, configuration_, now, late)
  BY <1>1, ScheduledOnTime
<1>4. k \in 1..Len(Dispatch(dispatched_trains_, u))
  OBVIOUS
<1> HIDE DEF u
<1>5. \/ Dispatch(dispatched_trains_, u)[k] = u
      \/ \E i \in 1..Len(dispatched_trains_) : Dispatch(dispatched_trains_, u)[k] = dispatched_trains_[i]
  BY <1>1, <1>2, <1>4, OnlyOneJoins
<1>6. \A i \in 1..Len(dispatched_trains_) :
         /\ OnTime(dispatched_trains_[i], configuration_, now, late)
         /\ Watched(dispatched_trains_[i], now, dispatch_timer_, due)
  BY DEF RetentionInv
<1> QED
  BY <1>3, <1>5, <1>6 DEF u

\* send() of a message that needs no segmentation.
LEMMA SendRetention ==
    ASSUME TravelInv, RetentionInv, NEW method \in Methods(configuration_), send(method)
    PROVE  RetentionInv'
<1> DEFINE debouncing == configuration_.times[method].debounce
           retention  == configuration_.times[method].retention
           message    == [n |-> admitted + 1, method |-> method, at |-> now]
           leaves     == MustDepart(train_, method, debouncing, retention)
           trains     == IF leaves THEN Dispatch(dispatched_trains_, schedule_train(train_))
                         ELSE dispatched_trains_
           entered    == IF leaves \/ train_.buffer_ = <<>>
                         THEN [(IF leaves THEN NewTrain(0) ELSE train_) EXCEPT !.departure_ = now + retention]
                         ELSE [train_ EXCEPT !.departure_ =
                                 IF now + retention < @ THEN now + retention ELSE @]
           boarded    == Enter(entered, message, debouncing, retention)
<1>1. /\ TrainTypes /\ configuration_ \in Configurations /\ now \in Nat /\ late \in Nat /\ due \in Nat
      /\ train_ \in Train /\ train_.departure_ \in Nat
      /\ Early(train_, configuration_, now, late)
      /\ \A x, y \in last_departure_ : x <= now /\ x = y
  BY DEF TravelInv, TrainTypes, Train, RetentionInv
<1>2. /\ train_' = boarded /\ dispatched_trains_' = trains
      /\ dispatch_timer_' = start_dispatch_timer(boarded, trains)
      /\ configuration_' = configuration_ /\ now' = now /\ last_departure_' = last_departure_
      /\ late' = late /\ due' = due
  BY DEF send
<1>3. boarded \in Train /\ trains \in Seq(Train) /\ InLine(trains)
  <2>1. TravelInv'
    BY SendStep
  <2>2. train_' \in Train /\ dispatched_trains_' \in Seq(Train) /\ InLine(dispatched_trains_')
    BY <2>1 DEF TravelInv, TrainTypes, Travel
  <2> HIDE DEF boarded, trains
  <2> QED
    BY <1>2, <2>2
<1>4. message \in Passenger /\ debouncing \in Nat /\ retention \in Nat
  BY <1>1, NewMessage
<1>5. message.method = method /\ message.at = now
  OBVIOUS
<1> HIDE DEF message
<1>6. \A k \in 1..Len(trains) : OnTime(trains[k], configuration_, now, late)
  <2>1. CASE leaves
    <3>1. trains = Dispatch(dispatched_trains_, schedule_train(train_))
      BY <2>1
    <3> HIDE DEF trains
    <3> QED
      BY <1>1, <3>1, LineOnTime
  <2>2. CASE ~leaves
    <3>1. trains = dispatched_trains_
      BY <2>2
    <3> HIDE DEF trains
    <3> QED
      BY <3>1 DEF RetentionInv
  <2> QED
    BY <2>1, <2>2
<1>7. /\ entered \in Train /\ Early(entered, configuration_, now, late)
      /\ entered.departure_ <= now + retention
  <2> HIDE DEF retention, leaves
  <2>1. now + retention \in Nat /\ NewTrain(0) \in Train /\ NewTrain(0).buffer_ = <<>>
    BY <1>1, <1>4, TrainParts
  <2>2. CASE leaves \/ train_.buffer_ = <<>>
    <3> DEFINE t == IF leaves THEN NewTrain(0) ELSE train_
    <3>1. entered = [t EXCEPT !.departure_ = now + retention]
      BY <2>2
    <3>2. t \in Train /\ t.buffer_ = <<>>
      BY <1>1, <2>1, <2>2
    <3> HIDE DEF t, entered
    <3>3. entered \in Train /\ entered.buffer_ = <<>> /\ entered.departure_ = now + retention
      BY <2>1, <3>1, <3>2 DEF Train
    <3>4. Early(entered, configuration_, now, late)
      BY <3>3 DEF Early
    <3> QED
      BY <2>1, <3>3, <3>4
  <2>3. CASE ~(leaves \/ train_.buffer_ = <<>>)
    <3> DEFINE d == IF now + retention < train_.departure_ THEN now + retention ELSE train_.departure_
    <3>1. entered = [train_ EXCEPT !.departure_ = d]
      BY <2>3
    <3>2. d \in Nat /\ d <= now + retention /\ d <= train_.departure_
      BY <1>1, <2>1
    <3> HIDE DEF d, entered
    <3>3. /\ entered \in Train /\ entered.buffer_ = train_.buffer_ /\ entered.departure_ = d
          /\ entered.minimal_debounce_time_ = train_.minimal_debounce_time_
      BY <1>1, <3>1, <3>2 DEF Train
    <3>4. ASSUME NEW i \in 1..Len(train_.buffer_)
          PROVE  d <= Leave(train_.buffer_[i], configuration_) + late
      <4>1. /\ train_.departure_ <= Leave(train_.buffer_[i], configuration_) + late
            /\ train_.buffer_[i].method \in Methods(configuration_)
        BY <1>1 DEF Early
      <4>2. Leave(train_.buffer_[i], configuration_) \in Nat
        BY <1>1, <4>1, TimesAreNumbers
      <4> QED
        BY <1>1, <3>2, <4>1, <4>2
    <3>5. Early(entered, configuration_, now, late)
      BY <1>1, <3>3, <3>4 DEF Early
    <3> QED
      BY <3>2, <3>3, <3>5
  <2> QED
    BY <2>2, <2>3
<1>8. Early(boarded, configuration_, now, late)
  <2> HIDE DEF entered
  <2>1. /\ message.method \in Methods(configuration_)
        /\ debouncing = configuration_.times[message.method].debounce
        /\ retention = configuration_.times[message.method].retention
    BY <1>5
  <2> HIDE DEF debouncing, retention
  <2> QED
    BY <1>1, <1>4, <1>5, <1>7, <2>1, EntersEarly
<1> HIDE DEF boarded, trains
<1>9. /\ start_dispatch_timer(boarded, trains) \subseteq Nat
      /\ Watched(boarded, now, start_dispatch_timer(boarded, trains), due)
      /\ \A k \in 1..Len(trains) : Watched(trains[k], now, start_dispatch_timer(boarded, trains), due)
  BY <1>1, <1>3, TimerWatches
<1> QED
  BY <1>1, <1>2, <1>6, <1>8, <1>9 DEF RetentionInv

\* send() of a message that is split: the timer is left as it is, and the train that is
\* dispatched departs no earlier than the timer expires.
LEMMA SegmentsRetention ==
    ASSUME TravelInv, RetentionInv, NEW method \in Methods(configuration_), send_segments(method)
    PROVE  RetentionInv'
<1> DEFINE debouncing == configuration_.times[method].debounce
           retention  == configuration_.times[method].retention
           message    == [n |-> admitted + 1, method |-> method, at |-> now]
           updated    == [Enter(train_, message, debouncing, retention) EXCEPT !.buffer_ = train_.buffer_]
           line       == Dispatch(dispatched_trains_, schedule_train(updated))
<1>1. /\ TrainTypes /\ configuration_ \in Configurations /\ now \in Nat /\ late \in Nat /\ due \in Nat
      /\ train_ \in Train /\ dispatch_timer_ \subseteq Nat
      /\ Early(train_, configuration_, now, late)
      /\ \A x, y \in last_departure_ : x <= now /\ x = y
  BY DEF TravelInv, TrainTypes, RetentionInv
<1>2. /\ IF train_.buffer_ = <<>>
         THEN train_' = updated /\ dispatched_trains_' = dispatched_trains_
         ELSE dispatched_trains_' = line /\ train_' = NewTrain(now + retention)
      /\ configuration_' = configuration_ /\ now' = now /\ last_departure_' = last_departure_
      /\ late' = late /\ due' = due /\ dispatch_timer_' = dispatch_timer_
  BY DEF send_segments
<1>3. message \in Passenger /\ debouncing \in Nat /\ retention \in Nat
  BY <1>1, NewMessage
<1>4. /\ message.method = method /\ message.at = now
      /\ debouncing = configuration_.times[message.method].debounce
      /\ retention = configuration_.times[message.method].retention
  OBVIOUS
<1>5. updated.departure_ = train_.departure_
  BY DEF Enter
<1> HIDE DEF message, debouncing, retention
<1>6. updated \in Train /\ updated.buffer_ = train_.buffer_
  BY <1>1, <1>3, Entered
<1>7. Early(updated, configuration_, now, late)
  BY <1>1, <1>3, <1>4, EntersEarly
<1> HIDE DEF updated
<1>8. CASE train_.buffer_ = <<>>
  <2>1. train_' = updated /\ dispatched_trains_' = dispatched_trains_ /\ updated.buffer_ = <<>>
    BY <1>2, <1>6, <1>8
  <2> QED
    BY <1>1, <1>2, <1>7, <2>1 DEF RetentionInv
<1>9. CASE train_.buffer_ # <<>>
  <2>1. dispatched_trains_' = line /\ train_' = NewTrain(now + retention)
    BY <1>2, <1>9
  <2>2. train_'.buffer_ = <<>>
    BY <2>1 DEF NewTrain
  <2>3. Early(train_', configuration_, now, late)
    BY <2>2 DEF Early
  <2>4. Watched(schedule_train(updated), now, dispatch_timer_, due)
    <3>1. Watched(train_, now, dispatch_timer_, due)
      BY <1>9 DEF RetentionInv
    <3>2. train_.departure_ <= schedule_train(updated).departure_
      BY <1>1, <1>5, <1>6, <1>7, ScheduledOnTime
    <3>3. schedule_train(updated) \in Train
      BY <1>1, <1>6, TrainParts
    <3>4. train_.departure_ \in Nat /\ schedule_train(updated).departure_ \in Nat
      BY <1>1, <3>3 DEF Train
    <3> QED
      BY <1>1, <3>1, <3>2, <3>4 DEF Watched
  <2>5. \A k \in 1..Len(line) : /\ OnTime(line[k], configuration_, now, late)
                                /\ Watched(line[k], now, dispatch_timer_, due)
    BY <1>6, <1>7, <2>4, LineOnTime
  <2> HIDE DEF line
  <2> QED
    BY <1>1, <1>2, <2>1, <2>2, <2>3, <2>5 DEF RetentionInv
<1> QED
  BY <1>8, <1>9

\* flush(): the timer is started again as long as there is a train to wait for.
LEMMA FlushRetention ==
    ASSUME TravelInv, RetentionInv, flush
    PROVE  RetentionInv'
<1> DEFINE trains == IF is_current_train THEN dispatched_trains_ ELSE Tail(dispatched_trains_)
           stays  == IF is_current_train /\ train_.buffer_ # <<>> THEN reset(train_) ELSE train_
<1>1. /\ now \in Nat /\ late \in Nat /\ due \in Nat /\ dispatch_timer_ \subseteq Nat
      /\ dispatched_trains_ \in Seq(Train)
      /\ Early(train_, configuration_, now, late)
      /\ \A x, y \in last_departure_ : x <= now /\ x = y
      /\ \A k \in 1..Len(dispatched_trains_) : OnTime(dispatched_trains_[k], configuration_, now, late)
  BY DEF TravelInv, TrainTypes, RetentionInv
<1>2. /\ train_' = stays /\ dispatched_trains_' = trains
      /\ dispatch_timer_' = IF is_current_train /\ trains = <<>> THEN dispatch_timer_
                            ELSE start_dispatch_timer(stays, trains)
      /\ due > 0 /\ due' = due - 1
      /\ configuration_' = configuration_ /\ now' = now /\ last_departure_' = last_departure_ /\ late' = late
  BY DEF flush
<1>3. stays \in Train /\ trains \in Seq(Train) /\ InLine(trains)
  <2>1. TravelInv'
    BY FlushStep
  <2>2. train_' \in Train /\ dispatched_trains_' \in Seq(Train) /\ InLine(dispatched_trains_')
    BY <2>1 DEF TravelInv, TrainTypes, Travel
  <2> HIDE DEF stays, trains
  <2> QED
    BY <1>2, <2>2
<1>4. due' \in Nat
  BY <1>1, <1>2
<1>5. /\ Early(stays, configuration_, now, late)
      /\ is_current_train => stays.buffer_ = <<>>
  <2>1. CASE is_current_train /\ train_.buffer_ # <<>>
    <3>1. stays.buffer_ = <<>>
      BY <2>1 DEF reset, NewTrain
    <3> HIDE DEF stays
    <3> QED
      BY <3>1 DEF Early
  <2>2. CASE ~(is_current_train /\ train_.buffer_ # <<>>)
    <3>1. stays = train_
      BY <2>2
    <3> HIDE DEF stays
    <3> QED
      BY <1>1, <2>2, <3>1
  <2> QED
    BY <2>1, <2>2
<1>6. \A k \in 1..Len(trains) : OnTime(trains[k], configuration_, now, late)
  <2>1. CASE is_current_train
    <3>1. trains = dispatched_trains_
      BY <2>1
    <3> HIDE DEF trains
    <3> QED
      BY <1>1, <3>1
  <2>2. CASE ~is_current_train
    <3>1. trains = Tail(dispatched_trains_) /\ dispatched_trains_ # <<>>
      BY <2>2 DEF is_current_train
    <3> HIDE DEF trains
    <3>2. \A k \in 1..Len(trains) : k + 1 \in 1..Len(dispatched_trains_) /\ trains[k] = dispatched_trains_[k + 1]
      BY <1>1, <3>1
    <3> QED
      BY <1>1, <3>2
  <2> QED
    BY <2>1, <2>2
<1> HIDE DEF stays, trains
<1>7. /\ dispatch_timer_' \subseteq Nat
      /\ stays.buffer_ # <<>> => Watched(stays, now, dispatch_timer_', due')
      /\ \A k \in 1..Len(trains) : Watched(trains[k], now, dispatch_timer_', due')
  <2>1. CASE is_current_train /\ trains = <<>>
    BY <1>1, <1>2, <1>5, <2>1
  <2>2. CASE ~(is_current_train /\ trains = <<>>)
    <3>1. dispatch_timer_' = start_dispatch_timer(stays, trains)
      BY <1>2, <2>2
    <3>2. \A d : /\ start_dispatch_timer(stays, trains) \subseteq Nat
                 /\ Watched(stays, now, start_dispatch_timer(stays, trains), d)
                 /\ \A k \in 1..Len(trains) : Watched(trains[k], now, start_dispatch_timer(stays, trains), d)
      BY <1>1, <1>3, TimerWatches
    <3> QED
      BY <3>1, <3>2
  <2> QED
    BY <2>1, <2>2
<1> QED
  BY <1>1, <1>2, <1>4, <1>5, <1>6, <1>7 DEF RetentionInv

\* The expiry of the timer, the completion of a write, and nothing.
LEMMA OtherRetention ==
    ASSUME TravelInv, RetentionInv, Expire \/ Sent \/ UNCHANGED trainVars
    PROVE  RetentionInv'
<1>1. now \in Nat /\ due \in Nat
  BY DEF TravelInv, TrainTypes, RetentionInv
<1>2. CASE Expire
  <2>1. /\ due' = due + 1 /\ dispatch_timer_' = {} /\ train_' = train_ /\ late' = late
        /\ dispatched_trains_' = dispatched_trains_ /\ configuration_' = configuration_ /\ now' = now
        /\ last_departure_' = last_departure_
    BY <1>2 DEF Expire
  <2>2. due' \in Nat /\ due' > 0 /\ dispatch_timer_' \subseteq Nat
    BY <1>1, <2>1
  <2>3. \A t : Watched(t, now, dispatch_timer_', due')
    BY <2>2 DEF Watched
  <2> QED
    BY <2>1, <2>2, <2>3 DEF RetentionInv
<1>3. CASE Sent
  <2>1. /\ due' = due /\ dispatch_timer_' = dispatch_timer_ /\ train_' = train_ /\ late' = late
        /\ dispatched_trains_' = dispatched_trains_ /\ configuration_' = configuration_ /\ now' = now
        /\ last_departure_' = {now}
    BY <1>3 DEF Sent
  <2>2. \A x, y \in last_departure_' : x <= now /\ x = y
    BY <1>1, <2>1
  <2> QED
    BY <2>1, <2>2 DEF RetentionInv
<1>4. CASE UNCHANGED trainVars
  BY <1>4 DEF trainVars, RetentionInv
<1> QED
  BY <1>2, <1>3, <1>4

\* What a message may wait for is what RetentionBound says.
LEMMA RetentionBounded ==
    ASSUME TravelInv, RetentionInv
    PROVE  RetentionBound
<1>1. /\ configuration_ \in Configurations /\ now \in Nat /\ late \in Nat /\ train_ \in Train
      /\ dispatched_trains_ \in Seq(Train) /\ Early(train_, configuration_, now, late)
      /\ \A k \in 1..Len(dispatched_trains_) : OnTime(dispatched_trains_[k], configuration_, now, late)
  BY DEF TravelInv, TrainTypes, RetentionInv
<1>2. ASSUME NEW t \in Train, Early(t, configuration_, now, late) \/ OnTime(t, configuration_, now, late),
             NEW m \in Range(t.buffer_)
      PROVE  now <= End(m, configuration_) + late
  <2>1. t.buffer_ \in Seq(Passenger)
    BY DEF Train
  <2>2. PICK i \in 1..Len(t.buffer_) : m = t.buffer_[i]
    BY <2>1 DEF Range
  <2>3. /\ m.method \in Methods(configuration_)
        /\ now <= Leave(m, configuration_) + late \/ now <= End(m, configuration_) + late
    BY <1>2, <2>2 DEF Early, OnTime
  <2>4. /\ Leave(m, configuration_) \in Nat /\ configuration_.times[m.method].debounce \in Nat
        /\ End(m, configuration_) = Leave(m, configuration_) + configuration_.times[m.method].debounce
    BY <1>1, <2>2, <2>3, TimesAreNumbers
  <2> QED
    BY <1>1, <2>3, <2>4
<1>3. ASSUME NEW m \in Waiting
      PROVE  now <= End(m, configuration_) + late
  <2>1. CASE m \in Range(train_.buffer_)
    BY <1>1, <1>2, <2>1
  <2>2. CASE \E k \in DOMAIN dispatched_trains_ : m \in Range(dispatched_trains_[k].buffer_)
    <3>1. PICK k \in 1..Len(dispatched_trains_) : m \in Range(dispatched_trains_[k].buffer_)
      BY <1>1, <2>2
    <3>2. dispatched_trains_[k] \in Train
      BY <1>1
    <3> QED
      BY <1>1, <1>2, <3>1, <3>2
  <2> QED
    BY <2>1, <2>2 DEF Waiting
<1> QED
  BY <1>3 DEF RetentionBound, End, Leave

\* No message waits in a train longer than its retention time, one debounce time and
\* the lag of the io thread, whatever methods share the trains and however sends, timer
\* handlers and writes interleave (RetentionBound).
THEOREM NobodyWaitsTooLong == TrainsSpec => []RetentionBound
<1>1. TrainsInit => TravelInv /\ RetentionInv
  <2> SUFFICES ASSUME TrainsInit
               PROVE  TravelInv /\ RetentionInv
    OBVIOUS
  <2>1. /\ train_.buffer_ = <<>> /\ dispatched_trains_ = <<>> /\ late = 0 /\ due = 0
        /\ last_departure_ = {} /\ dispatch_timer_ = {}
    BY DEF TrainsInit, NewTrain
  <2>2. Early(train_, configuration_, now, late)
    BY <2>1 DEF Early
  <2> QED
    BY <2>1, <2>2, TravelInit DEF RetentionInv
<1>2. TravelInv /\ RetentionInv /\ [TrainsNext]_trainVars => TravelInv' /\ RetentionInv'
  <2> SUFFICES ASSUME TravelInv, RetentionInv, [TrainsNext]_trainVars
               PROVE  TravelInv' /\ RetentionInv'
    OBVIOUS
  <2>1. CASE \E method \in Methods(configuration_) : send(method) \/ send_segments(method)
    BY <2>1, SendStep, SegmentsStep, SendRetention, SegmentsRetention
  <2>2. CASE flush
    BY <2>2, FlushStep, FlushRetention
  <2>3. CASE Expire \/ Sent \/ UNCHANGED trainVars
    BY <2>3, OtherSteps, OtherRetention
  <2>4. CASE Tick
    BY <2>4, OtherSteps, TickRetention
  <2> QED
    BY <2>1, <2>2, <2>3, <2>4 DEF TrainsNext
<1>3. TravelInv /\ RetentionInv => RetentionBound
  BY RetentionBounded
<1> QED
  BY <1>1, <1>2, <1>3, PTL DEF TrainsSpec
=============================================================================
