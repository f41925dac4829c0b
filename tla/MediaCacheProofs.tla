-------------------------- MODULE MediaCacheProofs --------------------------
(***************************************************************************)
(* For every set of requests, prompts, sizes and capacities: builders stay *)
(* within the life of the frame they use, the cache and the live account   *)
(* are exact, and a failure reaches only who is connected with its reason. *)
(***************************************************************************)
EXTENDS MediaCache, DataTheorems

-----------------------------------------------------------------------------
(***************************************************************************)
(* The inductive invariant.                                                *)
(***************************************************************************)

\* The phases of a flight before its payload is built, and before it is done.
Early == {"queued", "claim", "alloc", "denied", "build"}
Unfinished == Early \cup {"publish"}
Phases == Unfinished \cup {"none", "withdrawn", "done", "over"}
Places == {"start", "begin", "submit", "withdraw", "await", "encode", "prompt", "gone",
           "failed"}
Holds == [flight : Flights, hit : BOOLEAN]

Types ==
    /\ at \in [Requests -> Places]
    /\ cancelled \in [Requests -> BOOLEAN] /\ expired \in [Requests -> BOOLEAN]
    /\ stopped \in [Requests -> BOOLEAN]
    /\ pending \in [Requests -> Seq(Holds)]
    /\ next \in [Requests -> Nat]
    /\ claimed \in [Requests -> Nat]
    /\ ready \in Seq(Flights) /\ queue \in Seq(Flights)
    /\ inflight \in SUBSET Flights
    /\ alive \in SUBSET Flights /\ IsFiniteSet(alive)
    /\ phase \in [Flights -> Phases] /\ failed \in [Flights -> BOOLEAN]

\* The loop over the parts of a prompt: what is pending answers the first parts, in
\* their order, and no flight is begun for a part that comes later.
Walk(r) ==
    /\ Len(pending[r]) <= Len(Parts[r])
    /\ \A i \in DOMAIN pending[r] : Item(pending[r][i].flight) = Parts[r][i]
    /\ at[r] = "start" => pending[r] = <<>>
    /\ at[r] \in {"begin", "submit", "withdraw"} =>
          Len(pending[r]) < Len(Parts[r]) /\ next[r] = 1
    /\ next[r] >= 1 /\ (at[r] = "start" => next[r] = 1)
    /\ at[r] \in {"start", "begin", "submit"} =>
          \A i \in DOMAIN Parts[r] : i > Len(pending[r]) => phase[<<r, i>>] = "none"
    /\ at[r] = "submit" => Beginning(r) \in inflight
    /\ at[r] = "withdraw" => phase[Beginning(r)] = "withdrawn"

\* A flight that is not done is awaited by the request that began it.
Awaited(f) ==
    phase[f] \in Unfinished =>
        /\ Preparing(f[1])
        /\ f[2] \in DOMAIN pending[f[1]] /\ next[f[1]] <= f[2]
        /\ pending[f[1]][f[2]] = [flight |-> f, hit |-> FALSE]

\* What the phase of a flight says of its error and of the map of flights.
Course(f) ==
    /\ phase[f] \in Early => f \in inflight /\ ~failed[f]
    /\ phase[f] = "none" => ~failed[f]
    /\ phase[f] = "withdrawn" => failed[f]
    /\ f \in inflight => phase[f] # "over"

\* The queue holds the flights that are queued, once each.
Queued ==
    /\ \A i \in DOMAIN queue : phase[queue[i]] = "queued"
    /\ \A i, j \in DOMAIN queue : queue[i] = queue[j] => i = j

\* An item is not cached while a flight may still build it.
Unbuilt ==
    \A f \in inflight : phase[f] \in Early \cup {"none"} =>
        \A i \in DOMAIN ready : Item(ready[i]) # Item(f)

\* Built payloads are alive.
BuiltAlive ==
    \A f \in Flights : phase[f] \in {"build", "publish", "done"} /\ ~failed[f] => f \in alive

\* A request has claimed no more than the sizes of its flights that have been decoded.
Past(r) == {i \in DOMAIN Parts[r] : phase[<<r, i>>] \notin {"none", "queued", "claim"}}
Claims == \A r \in Requests : claimed[r] <= SumOver(PartSizes(r), Past(r))

\* Nothing fails in a separate set of requests of which none has a reason.
Blameless ==
    \A C \in SUBSET Requests : Separate(C) /\ (\A s \in C : ~HasReason(s)) =>
        /\ \A r \in C : ~stopped[r] /\ at[r] # "withdraw"
        /\ \A f \in Flights : f[1] \in C => ~failed[f]

Walks == \A r \in Requests : Walk(r)
Flies == \A f \in Flights : Awaited(f) /\ Course(f)

MInv ==
    /\ Types /\ Walks /\ Flies /\ Queued
    /\ CacheExact /\ Unbuilt
    /\ LiveBounded /\ BuiltAlive
    /\ Claims /\ Blameless

-----------------------------------------------------------------------------
(***************************************************************************)
(* Flights, lists and sums.                                                *)
(***************************************************************************)

\* A flight is a request and the place of a part in its prompt.
LEMMA FlightFacts ==
    /\ \A f \in Flights : /\ f[1] \in Requests /\ f[2] \in DOMAIN Parts[f[1]]
                          /\ f = <<f[1], f[2]>>
    /\ \A r \in Requests : \A i \in DOMAIN Parts[r] :
          <<r, i>> \in Flights /\ <<r, i>>[1] = r /\ <<r, i>>[2] = i
  <1>1. ASSUME NEW f \in Flights
        PROVE  f[1] \in Requests /\ f[2] \in DOMAIN Parts[f[1]] /\ f = <<f[1], f[2]>>
    <2>1. PICK r \in Requests : f \in {r} \X DOMAIN Parts[r]
      BY DEF Flights
    <2> QED BY <2>1
  <1>2. ASSUME NEW r \in Requests, NEW i \in DOMAIN Parts[r]
        PROVE  <<r, i>> \in Flights /\ <<r, i>>[1] = r /\ <<r, i>>[2] = i
    <2>1. <<r, i>> \in {r} \X DOMAIN Parts[r]
      OBVIOUS
    <2> QED BY <2>1 DEF Flights
  <1> QED BY <1>1, <1>2

\* The size of a flight is that of its part.
LEMMA SizeFacts ==
    \A f \in Flights :
        /\ Size(f) \in Nat /\ Size(f) > 0
        /\ Item(f) = Parts[f[1]][f[2]] /\ Size(f) = Bytes[Item(f)]
  <1> SUFFICES ASSUME NEW f \in Flights
               PROVE  Item(f) \in DOMAIN Bytes
    BY MediaAssumption DEF Item, Size, Sizes
  <1>1. Parts[f[1]] \in Seq(DOMAIN Bytes) /\ f[2] \in DOMAIN Parts[f[1]]
    BY FlightFacts, MediaAssumption
  <1> QED BY <1>1 DEF Item

\* The sum of a set that gains or loses an element, and of a part of a set.
LEMMA TotalFacts ==
    ASSUME NEW S \in SUBSET Flights, IsFiniteSet(S)
    PROVE  /\ Total(S) \in Nat /\ Total({}) = 0
           /\ \A f \in S : Total(S) = Size(f) + Total(S \ {f})
           /\ \A T \in SUBSET S : IsFiniteSet(T) /\ Total(T) \in Nat /\ Total(T) <= Total(S)
  <1>1. \A T : Total(T) = SumOver(Sizes, T)
    BY DEF Total, SumOver, Size
  <1>2. \A f \in S : Sizes[f] \in Nat /\ Sizes[f] = Size(f)
    BY SizeFacts DEF Size
  <1>3. SumOver(Sizes, S) \in Nat
    BY <1>2, SumNat
  <1>4. SumOver(Sizes, {}) = 0
    BY SumStep, FS_EmptySet
  <1>5. \A f \in S : SumOver(Sizes, S) = Sizes[f] + SumOver(Sizes, S \ {f})
    BY <1>2, SumRemove
  <1>6. \A T \in SUBSET S : SumOver(Sizes, T) <= SumOver(Sizes, S)
    BY <1>2, SumSubset
  <1>7. \A T \in SUBSET S : IsFiniteSet(T) /\ SumOver(Sizes, T) \in Nat
    BY <1>2, FS_Subset, SumNat
  <1> QED BY <1>1, <1>2, <1>3, <1>4, <1>5, <1>6, <1>7

LEMMA TotalGains ==
    ASSUME NEW S \in SUBSET Flights, IsFiniteSet(S), NEW f \in Flights
    PROVE  /\ IsFiniteSet(S \cup {f})
           /\ Total(S \cup {f}) <= Total(S) + Size(f)
           /\ f \notin S => Total(S \cup {f}) = Total(S) + Size(f)
  <1> DEFINE U == S \cup {f}
             V == U \ {f}
  <1>1. IsFiniteSet(U) /\ U \in SUBSET Flights /\ f \in U
    BY FS_AddElement
  <1>2. Total(S) \in Nat /\ Size(f) \in Nat
    BY TotalFacts, SizeFacts
  <1>a. (f \in S => U = S) /\ (f \notin S => V = S)
    OBVIOUS
  <1>b. Total(U) = Size(f) + Total(V)
    BY <1>1, TotalFacts
  <1> HIDE DEF U, V
  <1>3. CASE f \in S
    <2>1. Total(U) = Total(S)
      BY <1>3, <1>a
    <2> QED BY <1>1, <1>2, <1>3, <2>1 DEF U
  <1>4. CASE f \notin S
    <2>1. Total(V) = Total(S)
      BY <1>4, <1>a
    <2> QED BY <1>1, <1>2, <1>b, <2>1 DEF U
  <1> QED BY <1>3, <1>4

\* The entries of a list.
LEMMA EntriesFacts ==
    ASSUME NEW R, NEW s \in Seq(R)
    PROVE  IsFiniteSet(Entries(s)) /\ Entries(s) \in SUBSET R
  <1>1. Len(s) \in Nat /\ DOMAIN s = 1 .. Len(s) /\ s \in [1 .. Len(s) -> R]
    BY LenProperties
  <1>2. 1 \in Int /\ Len(s) \in Int
    BY <1>1
  <1>3. IsFiniteSet(1 .. Len(s))
    BY <1>2, FS_Interval, Zenon
  <1>4. s \in [1 .. Len(s) -> Entries(s)] /\ Entries(s) \in SUBSET R
    BY <1>1 DEF Entries
  <1>5. s \in Surjection(1 .. Len(s), Entries(s))
    BY <1>1, <1>4 DEF Surjection, Entries
  <1> QED BY <1>3, <1>4, <1>5, FS_Surjection

\* No item is listed twice.
Once(s) == \A i, j \in DOMAIN s : Item(s[i]) = Item(s[j]) => i = j

\* An entry moved to the front of a list.
LEMMA MovedToFront ==
    ASSUME NEW s \in Seq(Flights), NEW k \in DOMAIN s
    PROVE  /\ ToFront(s, k) \in Seq(Flights) /\ DOMAIN ToFront(s, k) = DOMAIN s
           /\ Once(s) => Once(ToFront(s, k))
           /\ Entries(ToFront(s, k)) = Entries(s)
  <1> DEFINE t == ToFront(s, k)
             from(i) == IF i = 1 THEN k ELSE IF i <= k THEN i - 1 ELSE i
             into(i) == IF i = k THEN 1 ELSE IF i < k THEN i + 1 ELSE i
  <1>1. Len(s) \in Nat /\ DOMAIN s = 1 .. Len(s) /\ s \in [1 .. Len(s) -> Flights]
    BY LenProperties
  <1>2. DOMAIN t = DOMAIN s
    BY DEF ToFront
  <1>3. \A i \in DOMAIN s : from(i) \in DOMAIN s /\ t[i] = s[from(i)]
    BY <1>1 DEF ToFront
  <1>4. \A i \in DOMAIN s : into(i) \in DOMAIN s /\ from(into(i)) = i
    BY <1>1
  <1>5. \A i, j \in DOMAIN s : from(i) = from(j) => i = j
    BY <1>1
  <1>7. t \in Seq(Flights)
    <2>1. \A i \in DOMAIN s : t[i] \in Flights
      BY <1>1, <1>3
    <2>2. t \in [1 .. Len(s) -> Flights]
      BY <1>1, <2>1 DEF ToFront
    <2> QED BY <1>1, <2>2
  <1> HIDE DEF t, from, into
  <1>6. \A i \in DOMAIN s : s[i] = t[into(i)]
    BY <1>3, <1>4
  <1>8. Once(s) => Once(t)
    <2> SUFFICES ASSUME Once(s), NEW i \in DOMAIN s, NEW j \in DOMAIN s,
                        Item(t[i]) = Item(t[j])
                 PROVE  i = j
      BY <1>2 DEF Once
    <2>1. Item(s[from(i)]) = Item(s[from(j)])
      BY <1>3
    <2>2. from(i) = from(j)
      BY <1>3, <2>1 DEF Once
    <2> QED BY <1>5, <2>2
  <1>9. Entries(t) = Entries(s)
    <2>1. ASSUME NEW x \in Entries(t) PROVE x \in Entries(s)
      BY <1>2, <1>3 DEF Entries
    <2>2. ASSUME NEW x \in Entries(s) PROVE x \in Entries(t)
      BY <1>2, <1>4, <1>6 DEF Entries
    <2> QED BY <2>1, <2>2
  <1> QED BY <1>2, <1>7, <1>8, <1>9 DEF t

\* The first entries of a list, and what the others add to its bytes.
Front(s, k) == SubSeq(s, 1, k)
Behind(s, k) == {s[i] : i \in k + 1 .. Len(s)}

LEMMA FrontFacts ==
    ASSUME NEW s \in Seq(Flights), NEW k \in 0 .. Len(s)
    PROVE  /\ Front(s, k) \in Seq(Flights) /\ DOMAIN Front(s, k) = 1 .. k
           /\ \A i \in 1 .. k : i \in DOMAIN s /\ Front(s, k)[i] = s[i]
           /\ Len(Front(s, k)) = k
  BY LenProperties DEF Front

LEMMA FrontEntries ==
    ASSUME NEW s \in Seq(Flights), NEW k \in 0 .. Len(s)
    PROVE  /\ Entries(Front(s, k)) \in SUBSET Entries(s)
           /\ Behind(s, k) \in SUBSET Entries(s)
           /\ Once(s) => /\ Once(Front(s, k))
                         /\ Entries(s) \ Behind(s, k) = Entries(Front(s, k))
  <1> DEFINE t == Front(s, k)
             b == Behind(s, k)
  <1>1. Len(s) \in Nat /\ DOMAIN s = 1 .. Len(s) /\ DOMAIN t = 1 .. k
    BY LenProperties, FrontFacts
  <1>2. \A i \in 1 .. k : i \in DOMAIN s /\ t[i] = s[i]
    BY FrontFacts
  <1> HIDE DEF t
  <1>3. Entries(t) \in SUBSET Entries(s)
    BY <1>1, <1>2 DEF Entries
  <1>4. b \in SUBSET Entries(s)
    BY <1>1 DEF Entries, Behind
  <1>5. Once(s) => Once(t)
    BY <1>1, <1>2 DEF Once
  <1>6. ASSUME Once(s) PROVE Entries(s) \ b = Entries(t)
    <2>1. ASSUME NEW x \in Entries(s), x \notin b PROVE x \in Entries(t)
      <3>1. PICK i \in DOMAIN s : x = s[i]
        BY DEF Entries
      <3>2. i \in 1 .. k
        BY <1>1, <2>1, <3>1 DEF Behind
      <3> QED BY <1>1, <1>2, <3>1, <3>2 DEF Entries
    <2>2. ASSUME NEW x \in Entries(t) PROVE x \in Entries(s) /\ x \notin b
      <3>1. PICK i \in 1 .. k : x = t[i]
        BY <1>1 DEF Entries
      <3>2. ASSUME x \in b PROVE FALSE
        <4>1. PICK j \in k + 1 .. Len(s) : x = s[j]
          BY <3>2 DEF Behind
        <4>2. i \in DOMAIN s /\ j \in DOMAIN s /\ i # j
          BY <1>1, <4>1
        <4>3. s[i] = s[j]
          BY <1>2, <3>1, <4>1
        <4> QED BY <1>6, <4>2, <4>3 DEF Once
      <3> QED BY <1>2, <3>1, <3>2 DEF Entries
    <2> QED BY <2>1, <2>2
  <1> QED BY <1>3, <1>4, <1>5, <1>6 DEF t

LEMMA BytesOfFront ==
    ASSUME NEW s \in Seq(Flights), NEW k \in 0 .. Len(s), Once(s)
    PROVE  /\ Total(Entries(s)) = Total(Behind(s, k)) + Total(Entries(Front(s, k)))
           /\ Total(Behind(s, k)) \in Nat /\ Total(Entries(Front(s, k))) \in Nat
  <1> DEFINE E == Entries(s)
             b == Behind(s, k)
             F == Entries(Front(s, k))
  <1>1. IsFiniteSet(E) /\ E \in SUBSET Flights
    BY EntriesFacts
  <1>2. b \in SUBSET E /\ F \in SUBSET E /\ E \ b = F
    BY FrontEntries
  <1> HIDE DEF E, b, F
  <1>3. \A T : Total(T) = SumOver(Sizes, T)
    BY DEF Total, SumOver, Size
  <1>4. \A f \in E : Sizes[f] \in Nat
    BY <1>1, SizeFacts DEF Size
  <1>5. SumOver(Sizes, E) = SumOver(Sizes, b) + SumOver(Sizes, E \ b)
    BY <1>1, <1>2, <1>4, SumSplit
  <1>6. Total(b) \in Nat /\ Total(F) \in Nat
    BY <1>1, <1>2, TotalFacts
  <1>7. Total(E) = Total(b) + Total(F)
    BY <1>2, <1>3, <1>5
  <1> QED BY <1>6, <1>7 DEF E, b, F

\* A new entry in front of a list.
Pushed(f, s) == <<f>> \o s

LEMMA PushedFacts ==
    ASSUME NEW s \in Seq(Flights), NEW f \in Flights
    PROVE  /\ Pushed(f, s) \in Seq(Flights) /\ DOMAIN Pushed(f, s) = 1 .. Len(s) + 1
           /\ Pushed(f, s)[1] = f
           /\ \A i \in 1 .. Len(s) : Pushed(f, s)[i + 1] = s[i]
  BY LenProperties DEF Pushed

LEMMA PushedEntries ==
    ASSUME NEW s \in Seq(Flights), NEW f \in Flights
    PROVE  /\ Entries(Pushed(f, s)) = Entries(s) \cup {f}
           /\ Once(s) /\ (\A g \in Entries(s) : Item(g) # Item(f)) => Once(Pushed(f, s))
  <1> DEFINE t == Pushed(f, s)
  <1>1. Len(s) \in Nat /\ DOMAIN s = 1 .. Len(s) /\ DOMAIN t = 1 .. Len(s) + 1
    BY LenProperties, PushedFacts
  <1>2. t[1] = f /\ \A i \in 1 .. Len(s) : t[i + 1] = s[i]
    BY PushedFacts
  <1> HIDE DEF t
  <1>3. \A j \in DOMAIN t : j = 1 \/ (j - 1 \in DOMAIN s /\ t[j] = s[j - 1])
    BY <1>1, <1>2
  <1>4. 1 \in DOMAIN t /\ \A i \in DOMAIN s : i + 1 \in DOMAIN t /\ t[i + 1] = s[i]
    BY <1>1, <1>2
  <1>5. Entries(t) = Entries(s) \cup {f}
    <2>1. ASSUME NEW x \in Entries(t) PROVE x \in Entries(s) \cup {f}
      BY <1>2, <1>3 DEF Entries
    <2>2. ASSUME NEW x \in Entries(s) \cup {f} PROVE x \in Entries(t)
      BY <1>2, <1>4 DEF Entries
    <2> QED BY <2>1, <2>2
  <1>6. ASSUME Once(s), \A g \in Entries(s) : Item(g) # Item(f) PROVE Once(t)
    <2> SUFFICES ASSUME NEW i \in DOMAIN t, NEW j \in DOMAIN t, Item(t[i]) = Item(t[j])
                 PROVE  i = j
      BY DEF Once
    <2>1. CASE i = 1 \/ j = 1
      BY <1>2, <1>3, <1>6, <2>1 DEF Entries
    <2>2. CASE i # 1 /\ j # 1
      <3>1. i - 1 = j - 1
        BY <1>3, <1>6, <2>2 DEF Once
      <3> QED BY <1>1, <3>1
    <2> QED BY <2>1, <2>2
  <1> QED BY <1>5, <1>6 DEF t

\* The sums of the sizes of some parts of a prompt.
LEMMA PartSums ==
    ASSUME NEW r \in Requests, NEW S \in SUBSET DOMAIN Parts[r]
    PROVE  /\ IsFiniteSet(S) /\ SumOver(PartSizes(r), S) \in Nat
           /\ \A T \in SUBSET S : SumOver(PartSizes(r), T) <= SumOver(PartSizes(r), S)
           /\ \A i \in S : SumOver(PartSizes(r), S)
                               = Bytes[Parts[r][i]] + SumOver(PartSizes(r), S \ {i})
  <1>1. /\ Parts[r] \in Seq(DOMAIN Bytes) /\ Len(Parts[r]) \in Nat
        /\ DOMAIN Parts[r] = 1 .. Len(Parts[r])
        /\ \A i \in DOMAIN Parts[r] : Parts[r][i] \in DOMAIN Bytes
    BY MediaAssumption, LenProperties
  <1>2. 1 \in Int /\ Len(Parts[r]) \in Int
    BY <1>1
  <1>3. IsFiniteSet(1 .. Len(Parts[r]))
    BY <1>2, FS_Interval, Zenon
  <1>4. IsFiniteSet(S)
    BY <1>1, <1>3, FS_Subset
  <1>5. \A i \in S : PartSizes(r)[i] = Bytes[Parts[r][i]] /\ PartSizes(r)[i] \in Nat
    BY <1>1, MediaAssumption DEF PartSizes
  <1>6. SumOver(PartSizes(r), S) \in Nat
    BY <1>4, <1>5, SumNat
  <1>7. \A T \in SUBSET S : SumOver(PartSizes(r), T) <= SumOver(PartSizes(r), S)
    BY <1>4, <1>5, SumSubset
  <1>8. \A i \in S : SumOver(PartSizes(r), S)
                         = PartSizes(r)[i] + SumOver(PartSizes(r), S \ {i})
    BY <1>4, <1>5, SumRemove
  <1> QED BY <1>4, <1>5, <1>6, <1>7, <1>8

\* The part that a request begins next.
LEMMA BeginningFacts ==
    ASSUME Types, NEW r \in Requests, Len(pending[r]) < Len(Parts[r])
    PROVE  /\ Beginning(r) \in Flights /\ Beginning(r)[1] = r
           /\ Beginning(r)[2] = Len(pending[r]) + 1
           /\ Len(pending[r]) + 1 \in DOMAIN Parts[r] /\ Len(pending[r]) \in Nat
           /\ Item(Beginning(r)) = Parts[r][Len(pending[r]) + 1]
  <1>1. pending[r] \in Seq(Holds) /\ Len(pending[r]) \in Nat
    BY LenProperties DEF Types
  <1>2. Len(Parts[r]) \in Nat /\ DOMAIN Parts[r] = 1 .. Len(Parts[r])
    BY MediaAssumption, LenProperties
  <1>3. Len(pending[r]) + 1 \in DOMAIN Parts[r]
    BY <1>1, <1>2
  <1> QED BY <1>1, <1>3, FlightFacts DEF Beginning, Item

LEMMA Appended ==
    ASSUME NEW R, NEW s \in Seq(R), NEW x \in R
    PROVE  /\ Append(s, x) \in Seq(R) /\ Len(Append(s, x)) = Len(s) + 1
           /\ DOMAIN Append(s, x) = 1 .. Len(s) + 1 /\ Len(s) \in Nat
           /\ DOMAIN s = 1 .. Len(s)
           /\ \A i \in 1 .. Len(s) : Append(s, x)[i] = s[i]
           /\ Append(s, x)[Len(s) + 1] = x
  BY LenProperties, AppendProperties

LEMMA InitHolds ==
    ASSUME Init
    PROVE  MInv
  <1>1. Types
    BY FS_EmptySet DEF Init, Types, Places, Phases, Unfinished, Early
  <1>2. Walks
    <2> SUFFICES ASSUME NEW r \in Requests PROVE Walk(r)
      BY DEF Walks
    <2>1. at[r] = "start" /\ pending[r] = <<>> /\ next[r] = 1
      BY DEF Init
    <2>2. Len(Parts[r]) \in Nat /\ DOMAIN Parts[r] = 1 .. Len(Parts[r])
      BY MediaAssumption, LenProperties
    <2>3. Len(pending[r]) = 0 /\ DOMAIN pending[r] = {}
      BY <2>1
    <2>4. \A i \in DOMAIN Parts[r] : phase[<<r, i>>] = "none"
      BY FlightFacts DEF Init
    <2> QED BY <2>1, <2>2, <2>3, <2>4 DEF Walk
  <1>3. Flies
    BY DEF Init, Flies, Awaited, Course, Unfinished, Early
  <1>4. Queued /\ Unbuilt /\ BuiltAlive
    BY DEF Init, Queued, Unbuilt, BuiltAlive
  <1>5. Entries(ready) = {}
    BY DEF Init, Entries
  <1>6. Total({}) = 0
    BY TotalFacts, FS_EmptySet
  <1>7. CacheExact
    <2>1. Total(Entries(ready)) = 0
      BY <1>5, <1>6, Zenon
    <2> QED BY <2>1, MediaAssumption DEF Init, CacheExact
  <1>8. LiveBounded
    <2>0. alive = {}
      BY DEF Init
    <2>a. Total(alive) = 0
      BY <1>6, <2>0, Zenon
    <2>1. Total(alive) <= Limit
      BY <2>a, MediaAssumption
    <2>2. \A r \in Requests : DOMAIN pending[r] = {}
      BY DEF Init
    <2> QED BY <1>5, <2>1, <2>2 DEF LiveBounded
  <1>9. Claims
    <2> SUFFICES ASSUME NEW r \in Requests
                 PROVE  claimed[r] <= SumOver(PartSizes(r), Past(r))
      BY DEF Claims
    <2>1. Past(r) \in SUBSET DOMAIN Parts[r]
      BY DEF Past
    <2>2. SumOver(PartSizes(r), Past(r)) \in Nat
      BY <2>1, PartSums
    <2> QED BY <2>2 DEF Init
  <1>10. Blameless
    BY FlightFacts DEF Init, Blameless
  <1> QED BY <1>1, <1>2, <1>3, <1>4, <1>7, <1>8, <1>9, <1>10 DEF MInv

-----------------------------------------------------------------------------
(***************************************************************************)
(* What a step may leave as it is, part by part.                           *)
(***************************************************************************)

\* A failure spreads from a reason, from a stop flag to the flights of a request, and
\* from a flight to the requests that share its item.
LEMMA BlameStep ==
    ASSUME Blameless,
           \A r \in Requests : CallerStops(r) => CallerStops(r)',
           \A r \in Requests : stopped'[r] \/ at'[r] = "withdraw" =>
               \/ stopped[r] \/ at[r] = "withdraw" \/ HasReason(r)
               \/ \E f \in Flights : failed[f] /\ Sharing(r, f[1]),
           \A f \in Flights : failed'[f] => failed[f] \/ stopped[f[1]] \/ HasReason(f[1])
    PROVE  Blameless'
  <1> SUFFICES ASSUME NEW C \in SUBSET Requests, Separate(C), \A s \in C : ~HasReason(s)'
               PROVE  /\ \A r \in C : ~stopped'[r] /\ at'[r] # "withdraw"
                      /\ \A f \in Flights : f[1] \in C => ~failed'[f]
    BY DEF Blameless, Separate, Sharing, Entries
  <1>1. \A s \in C : ~HasReason(s)
    BY DEF HasReason
  <1>2. /\ \A r \in C : ~stopped[r] /\ at[r] # "withdraw"
        /\ \A f \in Flights : f[1] \in C => ~failed[f]
    BY <1>1 DEF Blameless
  <1>3. ASSUME NEW r \in C PROVE ~stopped'[r] /\ at'[r] # "withdraw"
    <2>1. \A f \in Flights : Sharing(r, f[1]) => ~failed[f]
      BY <1>2, FlightFacts DEF Separate
    <2> QED BY <1>1, <1>2, <2>1
  <1>4. ASSUME NEW f \in Flights, f[1] \in C PROVE ~failed'[f]
    BY <1>1, <1>2, <1>4
  <1> QED BY <1>3, <1>4

\* Whoever can read a payload after the step finds it in S.
Built == {"build", "publish", "done"}
ReadsOnly(S) ==
    /\ Entries(ready') \subseteq S
    /\ \A p \in Flights, r \in Requests : \A i \in DOMAIN pending'[r] :
          (/\ p = pending'[r][i].flight /\ ~failed'[p]
           /\ pending'[r][i].hit \/ Done(p)') => p \in S
    /\ \A f \in Flights : phase'[f] \in Built /\ ~failed'[f] => f \in S

\* It does if nothing is pending, listed or built that was not before.
LEMMA ReadsFrame ==
    ASSUME Types, LiveBounded, BuiltAlive, NEW S, alive \subseteq S,
           Entries(ready') \subseteq S,
           \A r \in Requests : pending'[r] = pending[r] \/ pending'[r] = <<>>,
           \A f \in Flights : failed[f] => failed'[f],
           \A f \in Flights : ~failed'[f] /\ Done(f)' => Done(f) \/ f \in S,
           \A f \in Flights : ~failed'[f] /\ phase'[f] \in Built => phase[f] \in Built \/ f \in S
    PROVE  ReadsOnly(S)
  <1>1. ASSUME NEW p \in Flights, NEW r \in Requests, NEW i \in DOMAIN pending'[r],
               p = pending'[r][i].flight, ~failed'[p], pending'[r][i].hit \/ Done(p)'
        PROVE  p \in S
    <2>1. pending'[r] = pending[r]
      BY <1>1
    <2>2. i \in DOMAIN pending[r] /\ p = pending[r][i].flight /\ ~failed[p]
      BY <1>1, <2>1
    <2>3. pending[r][i].hit \/ Done(p) \/ p \in S
      BY <1>1, <2>1
    <2>4. pending[r][i].hit \/ Done(p) => p \in alive
      BY <2>2 DEF LiveBounded
    <2> QED BY <2>3, <2>4
  <1>2. ASSUME NEW f \in Flights, phase'[f] \in Built, ~failed'[f] PROVE f \in S
    BY <1>2 DEF BuiltAlive, Built
  <1> QED BY <1>1, <1>2 DEF ReadsOnly

LEMMA AliveFrame ==
    ASSUME Types, LiveBounded, alive' = alive, ReadsOnly(alive),
           pending' \in [Requests -> Seq(Holds)]
    PROVE  LiveBounded' /\ BuiltAlive'
  <1>0. \A r \in Requests : \A i \in DOMAIN pending'[r] : pending'[r][i] \in Holds
    BY LenProperties
  <1>1. \A r \in Requests : \A i \in DOMAIN pending'[r] : pending'[r][i].flight \in Flights
    BY <1>0 DEF Holds
  <1>2. LiveBounded'
    BY <1>1 DEF LiveBounded, Done, ReadsOnly
  <1> QED BY <1>2 DEF BuiltAlive, Built, ReadsOnly

LEMMA ReclaimStep ==
    ASSUME Types, LiveBounded, NEW new \in SUBSET Flights, IsFiniteSet(new), Reclaim(new),
           Total(alive \cup new) <= Limit, ReadsOnly(alive \cup new),
           pending' \in [Requests -> Seq(Holds)]
    PROVE  /\ LiveBounded' /\ BuiltAlive'
           /\ alive' \in SUBSET Flights /\ IsFiniteSet(alive')
  <1> DEFINE all == alive \cup new
  <1>1. alive' = {p \in all : Referenced(p)'}
    BY DEF Reclaim
  <1>2. IsFiniteSet(all) /\ all \in SUBSET Flights
    BY FS_Union DEF Types
  <1>3. alive' \in SUBSET all
    BY <1>1
  <1> HIDE DEF all
  <1>4. alive' \in SUBSET Flights /\ IsFiniteSet(alive')
    BY <1>2, <1>3, FS_Subset
  <1>5. Total(alive') <= Limit
    <2>1. Total(alive') <= Total(all) /\ Total(all) \in Nat /\ Total(alive') \in Nat
      BY <1>2, <1>3, TotalFacts
    <2>2. Total(all) <= Limit /\ Limit \in Nat
      BY MediaAssumption DEF all
    <2> QED BY <2>1, <2>2
  <1>6. Entries(ready') \subseteq alive'
    BY <1>1 DEF all, Referenced, ReadsOnly
  <1>7. ASSUME NEW p \in Flights, NEW r \in Requests, NEW i \in DOMAIN pending'[r],
               p = pending'[r][i].flight, ~failed'[p], pending'[r][i].hit \/ Done(p)'
        PROVE  p \in alive'
    <2>1. p \in all
      BY <1>7 DEF all, ReadsOnly
    <2>2. Referenced(p)'
      BY <1>7 DEF Referenced
    <2> QED BY <1>1, <2>1, <2>2
  <1>8. BuiltAlive'
    <2> SUFFICES ASSUME NEW f \in Flights,
                        phase'[f] \in {"build", "publish", "done"}, ~failed'[f]
                 PROVE  f \in alive'
      BY DEF BuiltAlive
    <2>1. f \in all
      BY DEF all, ReadsOnly, Built
    <2>2. Referenced(f)'
      BY DEF Referenced
    <2> QED BY <1>1, <2>1, <2>2
  <1>9. LiveBounded'
    <2>0. \A r \in Requests : \A i \in DOMAIN pending'[r] : pending'[r][i] \in Holds
      BY LenProperties
    <2>1. \A r \in Requests : \A i \in DOMAIN pending'[r] : pending'[r][i].flight \in Flights
      BY <2>0 DEF Holds
    <2> QED BY <1>5, <1>6, <1>7, <2>1 DEF LiveBounded, Done
  <1> QED BY <1>4, <1>8, <1>9

\* The loop of a request that does not move.
LEMMA WalkFrame ==
    ASSUME NEW r \in Requests, Walk(r),
           at'[r] = at[r], pending'[r] = pending[r], next'[r] = next[r],
           \A i \in DOMAIN Parts[r] : phase[<<r, i>>] = "none" => phase'[<<r, i>>] = "none",
           phase[Beginning(r)] = "withdrawn" => phase'[Beginning(r)] = "withdrawn",
           at[r] = "submit" => Beginning(r) \in inflight'
    PROVE  Walk(r)'
  <1>1. Beginning(r)' = Beginning(r)
    BY DEF Beginning
  <1> QED BY <1>1 DEF Walk

\* A task moves its flight: no request moves, and the flight stays the one awaited.
LEMMA TaskFrame ==
    ASSUME Types, Walks, Flies, NEW f \in Flights, NEW p \in Phases,
           phase[f] \in Unfinished \cup {"done"}, p \notin {"none", "withdrawn"},
           p \in Unfinished => phase[f] \in Unfinished,
           phase' = [phase EXCEPT ![f] = p],
           at' = at, pending' = pending, next' = next,
           inflight' = inflight \/ inflight' = inflight \ {f}
    PROVE  /\ Walks'
           /\ \A g \in Flights : Awaited(g)'
  <1>1. /\ phase' \in [Flights -> Phases] /\ phase'[f] = p
        /\ \A g \in Flights : g # f => phase'[g] = phase[g]
    BY DEF Types
  <1>2. phase[f] # "none" /\ phase[f] # "withdrawn"
    BY DEF Unfinished, Early
  <1>3. ASSUME NEW r \in Requests PROVE Walk(r)'
    <2>1. Walk(r)
      BY DEF Walks
    <2>2. \A i \in DOMAIN Parts[r] : phase[<<r, i>>] = "none" => phase'[<<r, i>>] = "none"
      BY <1>1, <1>2, FlightFacts
    <2>3. ASSUME at[r] \in {"submit", "withdraw"} PROVE Beginning(r) \in Flights
      BY <2>1, <2>3, BeginningFacts DEF Walk
    <2>4. ASSUME at[r] = "submit" PROVE Beginning(r) \in inflight'
      <3>1. Beginning(r) \in inflight /\ phase[Beginning(r)] = "none"
        BY <2>1, <2>4, BeginningFacts DEF Walk, Beginning
      <3> QED BY <1>2, <3>1
    <2>5. Beginning(r)' = Beginning(r)
      BY DEF Beginning
    <2>6. at[r] = "withdraw" => phase'[Beginning(r)] = "withdrawn"
      BY <1>1, <1>2, <2>1, <2>3 DEF Walk
    <2> QED BY <2>1, <2>2, <2>4, <2>5, <2>6 DEF Walk
  <1>4. ASSUME NEW g \in Flights PROVE Awaited(g)'
    <2>1. Awaited(g) /\ (phase'[g] \in Unfinished => phase[g] \in Unfinished)
      BY <1>1 DEF Flies
    <2>2. Preparing(g[1])' <=> Preparing(g[1])
      BY DEF Preparing
    <2> QED BY <2>1, <2>2 DEF Awaited
  <1> QED BY <1>3, <1>4 DEF Walks

\* The flights that are decoded stay so.
LEMMA ClaimsFrame ==
    ASSUME Types, Claims, claimed' = claimed,
           \A g \in Flights : phase[g] \notin {"none", "queued", "claim"}
                                  => phase'[g] \notin {"none", "queued", "claim"}
    PROVE  Claims'
  <1> SUFFICES ASSUME NEW r \in Requests
               PROVE  claimed[r] <= SumOver(PartSizes(r), Past(r)')
    BY DEF Claims, PartSizes
  <1>1. Past(r) \in SUBSET (Past(r)') /\ Past(r)' \in SUBSET DOMAIN Parts[r]
    BY FlightFacts DEF Past
  <1> DEFINE new == Past(r)'
             old == Past(r)
  <1>2. claimed[r] <= SumOver(PartSizes(r), old) /\ claimed[r] \in Nat
    BY DEF Claims, Types
  <1> HIDE DEF new, old
  <1>3. /\ SumOver(PartSizes(r), old) <= SumOver(PartSizes(r), new)
        /\ SumOver(PartSizes(r), new) \in Nat /\ SumOver(PartSizes(r), old) \in Nat
    <2>1. old \in SUBSET new /\ new \in SUBSET DOMAIN Parts[r] /\ old \in SUBSET DOMAIN Parts[r]
      BY <1>1 DEF new, old
    <2> QED BY <2>1, PartSums
  <1>4. claimed[r] <= SumOver(PartSizes(r), new)
    BY <1>2, <1>3
  <1> QED BY <1>4 DEF new

\* The cache, the flights and the account, when only requests move.
LEMMA ControlFrame ==
    ASSUME MInv, UNCHANGED <<cacheVars, taskVars, alive, pending>>
    PROVE  /\ Queued' /\ CacheExact' /\ Unbuilt' /\ LiveBounded' /\ BuiltAlive' /\ Claims'
           /\ \A f \in Flights : Course(f)'
  <1> USE DEF MInv, cacheVars, taskVars
  <1>1. Queued'
    BY DEF Queued
  <1>2. CacheExact'
    BY DEF CacheExact
  <1>3. Unbuilt'
    BY DEF Unbuilt
  <1>4. LiveBounded'
    BY DEF LiveBounded, Done
  <1>5. BuiltAlive'
    BY DEF BuiltAlive
  <1>6. Claims'
    BY ClaimsFrame
  <1>7. \A f \in Flights : Course(f)'
    BY DEF Course, Flies
  <1> QED BY <1>1, <1>2, <1>3, <1>4, <1>5, <1>6, <1>7

\* A flight of another request is awaited as before.
LEMMA AwaitedFrame ==
    ASSUME NEW g \in Flights, Awaited(g), at'[g[1]] = at[g[1]], pending'[g[1]] = pending[g[1]],
           next'[g[1]] = next[g[1]], phase'[g] \in Unfinished => phase[g] \in Unfinished
    PROVE  Awaited(g)'
  <1>1. Preparing(g[1])' <=> Preparing(g[1])
    BY DEF Preparing
  <1> QED BY <1>1 DEF Awaited

\* The awaited flights of a request that takes a step between two places in process.
LEMMA AwaitedStays ==
    ASSUME NEW g \in Flights, Awaited(g), Preparing(g[1]) => Preparing(g[1])',
           pending'[g[1]] = pending[g[1]], next'[g[1]] = next[g[1]],
           phase'[g] \in Unfinished => phase[g] \in Unfinished
    PROVE  Awaited(g)'
  BY DEF Awaited

-----------------------------------------------------------------------------
(***************************************************************************)
(* The steps of a request that change neither cache nor flights.           *)
(***************************************************************************)
LEMMA AcquireRequestStep ==
    ASSUME MInv, NEW r \in Requests, AcquireRequest(r)
    PROVE  MInv'
  <1>1. /\ at[r] = "start"
        /\ at' = [at EXCEPT ![r] = IF Parts[r] = <<>> THEN "await" ELSE "begin"]
        /\ UNCHANGED <<callVars, cacheVars, taskVars, alive, stopped, pending, next>>
    BY DEF AcquireRequest
  <1>2. UNCHANGED <<phase, failed, inflight, cancelled, expired, stopped, pending, next>>
    BY <1>1 DEF callVars, cacheVars, taskVars
  <1>3. Types'
    BY <1>1 DEF MInv, Types, Places, callVars, cacheVars, taskVars
  <1>a. at'[r] \in {"await", "begin"} /\ \A s \in Requests : s # r => at'[s] = at[s]
    BY <1>1 DEF MInv, Types
  <1>4. Walks'
    <2> SUFFICES ASSUME NEW s \in Requests PROVE Walk(s)'
      BY DEF Walks
    <2>1. Walk(s)
      BY DEF MInv, Walks
    <2>2. CASE s # r
      BY <1>2, <1>a, <2>1, <2>2, WalkFrame DEF Walk
    <2>3. CASE s = r
      <3>1. Parts[r] \in Seq(DOMAIN Bytes) /\ Len(Parts[r]) \in Nat
        BY MediaAssumption, LenProperties
      <3>2. at'[r] = "begin" => Len(Parts[r]) > 0
        BY <1>1, <3>1, EmptySeq DEF MInv, Types
      <3>3. Len(pending[r]) = 0
        BY <1>1, <2>1, <2>3 DEF Walk
      <3> QED BY <1>1, <1>2, <1>a, <2>1, <2>3, <3>2, <3>3 DEF Walk
    <2> QED BY <2>2, <2>3
  <1>5. ASSUME NEW g \in Flights PROVE Awaited(g)'
    <2>1. Awaited(g) /\ g[1] \in Requests
      BY FlightFacts DEF MInv, Flies
    <2>2. Preparing(g[1]) => Preparing(g[1])'
      BY <1>a, <2>1 DEF Preparing
    <2> QED BY <1>2, <2>1, <2>2, AwaitedStays
  <1>6. Blameless'
    BY <1>2, <1>a, BlameStep DEF MInv, CallerStops
  <1> QED BY <1>1, <1>3, <1>4, <1>5, <1>6, ControlFrame DEF MInv, Flies

LEMMA GiveUpStep ==
    ASSUME MInv, NEW r \in Requests, GiveUp(r)
    PROVE  MInv'
  <1>1. /\ at[r] = "start"
        /\ at' = [at EXCEPT ![r] = "failed"]
        /\ UNCHANGED <<callVars, cacheVars, taskVars, alive, stopped, pending, next>>
    BY DEF GiveUp
  <1>2. UNCHANGED <<phase, failed, inflight, cancelled, expired, stopped, pending, next>>
    BY <1>1 DEF callVars, cacheVars, taskVars
  <1>3. Types'
    BY <1>1 DEF MInv, Types, Places, callVars, cacheVars, taskVars
  <1>a. at'[r] = "failed" /\ \A s \in Requests : s # r => at'[s] = at[s]
    BY <1>1 DEF MInv, Types
  <1>4. Walks'
    <2> SUFFICES ASSUME NEW s \in Requests PROVE Walk(s)'
      BY DEF Walks
    <2>1. Walk(s)
      BY DEF MInv, Walks
    <2>2. CASE s # r
      BY <1>2, <1>a, <2>1, <2>2, WalkFrame DEF Walk
    <2>3. CASE s = r
      BY <1>2, <1>a, <2>1, <2>3 DEF Walk
    <2> QED BY <2>2, <2>3
  <1>5. ASSUME NEW g \in Flights PROVE Awaited(g)'
    <2>1. Awaited(g) /\ g[1] \in Requests
      BY FlightFacts DEF MInv, Flies
    <2>2. Preparing(g[1]) => Preparing(g[1])'
      BY <1>1, <1>a, <2>1 DEF Preparing
    <2> QED BY <1>2, <2>1, <2>2, AwaitedStays
  <1>6. Blameless'
    BY <1>2, <1>a, BlameStep DEF MInv, CallerStops
  <1> QED BY <1>1, <1>3, <1>4, <1>5, <1>6, ControlFrame DEF MInv, Flies

LEMMA StopBeginningStep ==
    ASSUME MInv, NEW r \in Requests, StopBeginning(r)
    PROVE  MInv'
  <1>1. /\ at[r] = "begin" /\ CallerStops(r)
        /\ at' = [at EXCEPT ![r] = "await"]
        /\ stopped' = [stopped EXCEPT ![r] = TRUE]
        /\ UNCHANGED <<callVars, cacheVars, taskVars, alive, pending, next>>
    BY DEF StopBeginning
  <1>2. UNCHANGED <<phase, failed, inflight, cancelled, expired, pending, next>>
    BY <1>1 DEF callVars, cacheVars, taskVars
  <1>3. Types'
    BY <1>1 DEF MInv, Types, Places, callVars, cacheVars, taskVars
  <1>a. /\ at'[r] = "await" /\ \A s \in Requests : s # r => at'[s] = at[s]
        /\ \A s \in Requests : s # r => stopped'[s] = stopped[s]
    BY <1>1 DEF MInv, Types
  <1>4. Walks'
    <2> SUFFICES ASSUME NEW s \in Requests PROVE Walk(s)'
      BY DEF Walks
    <2>1. Walk(s)
      BY DEF MInv, Walks
    <2>2. CASE s # r
      BY <1>2, <1>a, <2>1, <2>2, WalkFrame DEF Walk
    <2>3. CASE s = r
      BY <1>2, <1>a, <2>1, <2>3 DEF Walk
    <2> QED BY <2>2, <2>3
  <1>5. ASSUME NEW g \in Flights PROVE Awaited(g)'
    <2>1. Awaited(g) /\ g[1] \in Requests
      BY FlightFacts DEF MInv, Flies
    <2>2. Preparing(g[1]) => Preparing(g[1])'
      BY <1>1, <1>a, <2>1 DEF Preparing
    <2> QED BY <1>2, <2>1, <2>2, AwaitedStays
  <1>6. Blameless'
    <2>1. HasReason(r)
      BY <1>1 DEF HasReason
    <2> QED BY <1>2, <1>a, <2>1, BlameStep DEF MInv, CallerStops
  <1> QED BY <1>1, <1>3, <1>4, <1>5, <1>6, ControlFrame DEF MInv, Flies

LEMMA AwaitStopsStep ==
    ASSUME MInv, NEW r \in Requests, AwaitStops(r)
    PROVE  MInv'
  <1>1. /\ CallerStops(r)
        /\ stopped' = [stopped EXCEPT ![r] = TRUE]
        /\ UNCHANGED <<callVars, cacheVars, taskVars, alive, at, pending, next>>
    BY DEF AwaitStops
  <1>2. UNCHANGED <<phase, failed, inflight, cancelled, expired, at, pending, next>>
    BY <1>1 DEF callVars, cacheVars, taskVars
  <1>3. Types'
    BY <1>1 DEF MInv, Types, callVars, cacheVars, taskVars
  <1>4. Walks'
    BY <1>2, WalkFrame DEF MInv, Walks, Walk
  <1>5. ASSUME NEW g \in Flights PROVE Awaited(g)'
    BY <1>2, AwaitedFrame DEF MInv, Flies
  <1>6. Blameless'
    <2>1. HasReason(r) /\ \A s \in Requests : s # r => stopped'[s] = stopped[s]
      BY <1>1 DEF HasReason, MInv, Types
    <2> QED BY <1>2, <2>1, BlameStep DEF MInv, CallerStops
  <1> QED BY <1>1, <1>3, <1>4, <1>5, <1>6, ControlFrame DEF MInv, Flies

\* Reasons only come about.
LEMMA ReasonStep ==
    ASSUME MInv, UNCHANGED <<requestVars, cacheVars, taskVars, alive>>,
           cancelled' \in [Requests -> BOOLEAN], expired' \in [Requests -> BOOLEAN],
           \A r \in Requests : CallerStops(r) => CallerStops(r)'
    PROVE  MInv'
  <1>1. UNCHANGED <<phase, failed, inflight, stopped, at, pending, next>>
    BY DEF requestVars, cacheVars, taskVars
  <1>2. Types'
    BY DEF MInv, Types, requestVars, cacheVars, taskVars
  <1>3. Walks'
    BY <1>1, WalkFrame DEF MInv, Walks, Walk
  <1>4. ASSUME NEW g \in Flights PROVE Awaited(g)'
    BY <1>1, AwaitedFrame DEF MInv, Flies
  <1>5. Blameless'
    BY <1>1, BlameStep DEF MInv
  <1> QED BY <1>1, <1>2, <1>3, <1>4, <1>5, ControlFrame DEF MInv, Flies

LEMMA CancelStep ==
    ASSUME MInv, NEW r \in Requests, Cancel(r) \/ Expire(r)
    PROVE  MInv'
  <1>1. CASE Cancel(r)
    BY <1>1, ReasonStep DEF Cancel, CallerStops, MInv, Types
  <1>2. CASE Expire(r)
    BY <1>2, ReasonStep DEF Expire, CallerStops, MInv, Types
  <1> QED BY <1>1, <1>2

\* What is pending for a request.
LEMMA PendingFacts ==
    ASSUME Types, Walks, NEW r \in Requests
    PROVE  /\ Len(pending[r]) \in Nat /\ DOMAIN pending[r] = 1 .. Len(pending[r])
           /\ Len(Parts[r]) \in Nat /\ DOMAIN Parts[r] = 1 .. Len(Parts[r])
           /\ \A i \in DOMAIN pending[r] :
                 /\ pending[r][i] \in Holds /\ pending[r][i].flight \in Flights
                 /\ i \in DOMAIN Parts[r] /\ Item(pending[r][i].flight) = Parts[r][i]
                 /\ Sharing(r, pending[r][i].flight[1])
  <1>1. /\ pending[r] \in Seq(Holds)
        /\ Len(pending[r]) \in Nat /\ DOMAIN pending[r] = 1 .. Len(pending[r])
        /\ \A i \in DOMAIN pending[r] : pending[r][i] \in Holds
    BY LenProperties DEF Types
  <1>2. Len(Parts[r]) \in Nat /\ DOMAIN Parts[r] = 1 .. Len(Parts[r])
    BY MediaAssumption, LenProperties
  <1>3. Walk(r)
    BY DEF Walks
  <1>4. ASSUME NEW i \in DOMAIN pending[r]
        PROVE  /\ pending[r][i] \in Holds /\ pending[r][i].flight \in Flights
               /\ i \in DOMAIN Parts[r] /\ Item(pending[r][i].flight) = Parts[r][i]
               /\ Sharing(r, pending[r][i].flight[1])
    <2> DEFINE p == pending[r][i].flight
    <2>1. pending[r][i] \in Holds /\ p \in Flights
      BY <1>1 DEF Holds
    <2>2. i \in DOMAIN Parts[r] /\ Item(p) = Parts[r][i]
      BY <1>1, <1>2, <1>3 DEF Walk
    <2> HIDE DEF p
    <2>3. p[2] \in DOMAIN Parts[p[1]] /\ Parts[p[1]][p[2]] = Parts[r][i]
      BY <2>1, <2>2, FlightFacts DEF Item
    <2>4. Parts[r][i] \in Entries(Parts[r]) /\ Parts[r][i] \in Entries(Parts[p[1]])
      BY <2>2, <2>3 DEF Entries
    <2>5. Sharing(r, p[1])
      BY <2>4 DEF Sharing
    <2> QED BY <2>1, <2>2, <2>5 DEF p
  <1> QED BY <1>1, <1>2, <1>4

\* Only a prompt over the budget exceeds it when its items are taken.
LEMMA OverBudgetFacts ==
    ASSUME Types, Walks, NEW r \in Requests, NEW n \in DOMAIN pending[r], OverBudget(r, n)
    PROVE  HasReason(r)
  <1> DEFINE taken == [i \in 1 .. n |-> Size(pending[r][i].flight)]
             S == 1 .. n
             D == DOMAIN Parts[r]
  <1>1. SumOver(taken, S) > MaxRequest
    BY DEF OverBudget, SumOver
  <1>2. S \in SUBSET D /\ D \in SUBSET D /\ S \in SUBSET DOMAIN pending[r]
    BY PendingFacts
  <1>3. /\ IsFiniteSet(S) /\ SumOver(PartSizes(r), S) \in Nat /\ SumOver(PartSizes(r), D) \in Nat
        /\ SumOver(PartSizes(r), S) <= SumOver(PartSizes(r), D)
    BY <1>2, PartSums
  <1>4. ASSUME NEW i \in S
        PROVE  taken[i] \in Nat /\ PartSizes(r)[i] \in Nat /\ taken[i] <= PartSizes(r)[i]
    <2>1. /\ pending[r][i].flight \in Flights /\ i \in DOMAIN Parts[r]
          /\ Item(pending[r][i].flight) = Parts[r][i]
      BY <1>2, PendingFacts
    <2>2. taken[i] = Bytes[Parts[r][i]] /\ taken[i] \in Nat
      BY <2>1, SizeFacts
    <2>3. PartSizes(r)[i] = Bytes[Parts[r][i]]
      BY <2>1 DEF PartSizes
    <2> QED BY <2>2, <2>3
  <1> HIDE DEF taken, S, D
  <1>5. SumOver(taken, S) <= SumOver(PartSizes(r), S)
    BY <1>3, <1>4, SumMonotone
  <1>6. SumOver(taken, S) \in Nat
    BY <1>3, <1>4, SumNat
  <1>7. PromptBytes(r) = SumOver(PartSizes(r), D)
    BY DEF PromptBytes, SumOver, D
  <1>8. PromptBytes(r) > MaxRequest
    BY <1>1, <1>3, <1>5, <1>6, <1>7, MediaAssumption
  <1> QED BY <1>8 DEF HasReason

LEMMA AwaitStep ==
    ASSUME MInv, NEW r \in Requests, Await(r)
    PROVE  MInv'
  <1> DEFINE n == next[r]
             p == pending[r][n].flight
  <1>1. /\ at[r] = "await" /\ n <= Len(pending[r]) /\ Answered(r)
        /\ stopped' = [stopped EXCEPT ![r] = @ \/ failed[p] \/ OverBudget(r, n)]
        /\ next' = [next EXCEPT ![r] = @ + 1]
        /\ UNCHANGED <<callVars, cacheVars, taskVars, alive, at, pending>>
    BY DEF Await
  <1>2. UNCHANGED <<phase, failed, inflight, cancelled, expired, at, pending>>
    BY <1>1 DEF callVars, cacheVars, taskVars
  <1>a. /\ next'[r] = n + 1 /\ n \in Nat /\ next' \in [Requests -> Nat]
        /\ \A s \in Requests : s # r => next'[s] = next[s]
    BY <1>1 DEF MInv, Types
  <1>b. /\ stopped' \in [Requests -> BOOLEAN]
        /\ \A s \in Requests : s # r => stopped'[s] = stopped[s]
        /\ stopped'[r] => stopped[r] \/ failed[p] \/ OverBudget(r, n)
    <2>1. stopped \in [Requests -> BOOLEAN] /\ (stopped[r] \/ failed[p] \/ OverBudget(r, n)) \in BOOLEAN
      BY DEF MInv, Types
    <2> QED BY <1>1, <2>1
  <1>3. Types'
    BY <1>1, <1>a, <1>b DEF MInv, Types, callVars, cacheVars, taskVars
  <1>4. Walks'
    <2> SUFFICES ASSUME NEW s \in Requests PROVE Walk(s)'
      BY DEF Walks
    <2>1. Walk(s)
      BY DEF MInv, Walks
    <2>2. CASE s # r
      BY <1>2, <1>a, <2>1, <2>2, WalkFrame DEF Walk
    <2>3. CASE s = r
      <3>1. next'[r] >= 1 /\ at'[r] = "await"
        BY <1>1, <1>2, <1>a
      <3> QED BY <1>2, <2>1, <2>3, <3>1 DEF Walk
    <2> QED BY <2>2, <2>3
  <1>5. ASSUME NEW g \in Flights PROVE Awaited(g)'
    <2>1. Awaited(g) /\ g[1] \in Requests
      BY FlightFacts DEF MInv, Flies
    <2>2. CASE g[1] # r
      BY <1>2, <1>a, <2>1, <2>2, AwaitedFrame
    <2>3. CASE g[1] = r
      <3> SUFFICES ASSUME phase[g] \in Unfinished
                   PROVE  /\ Preparing(r) /\ g[2] \in DOMAIN pending[r] /\ n + 1 <= g[2]
                          /\ pending[r][g[2]] = [flight |-> g, hit |-> FALSE]
        BY <1>2, <1>a, <2>3 DEF Awaited, Preparing
      <3>1. /\ Preparing(r) /\ g[2] \in DOMAIN pending[r] /\ n <= g[2]
            /\ pending[r][g[2]] = [flight |-> g, hit |-> FALSE]
        BY <2>1, <2>3 DEF Awaited
      <3>2. g[2] # n
        <4> SUFFICES ASSUME g[2] = n PROVE FALSE
          OBVIOUS
        <4>1. pending[r][n].flight = g /\ ~pending[r][n].hit
          BY <3>1
        <4>2. Done(g)
          BY <1>1, <4>1 DEF Answered
        <4> QED BY <4>2 DEF Done, Unfinished, Early
      <3>3. g[2] \in Nat
        BY <3>1, PendingFacts DEF MInv
      <3> QED BY <1>a, <3>1, <3>2, <3>3
    <2> QED BY <2>2, <2>3
  <1>6. Blameless'
    <2>1. n \in DOMAIN pending[r]
      <3>1. n >= 1
        BY DEF MInv, Walks, Walk
      <3> QED BY <1>1, <1>a, <3>1, PendingFacts DEF MInv
    <2>2. p \in Flights /\ Sharing(r, p[1])
      BY <2>1, PendingFacts DEF MInv
    <2>3. OverBudget(r, n) => HasReason(r)
      BY <2>1, OverBudgetFacts DEF MInv
    <2> HIDE DEF p, n
    <2>4. stopped'[r] => stopped[r] \/ HasReason(r)
                            \/ \E f \in Flights : failed[f] /\ Sharing(r, f[1])
      BY <1>b, <2>2, <2>3
    <2> QED BY <1>2, <1>b, <2>4, BlameStep DEF MInv, CallerStops
  <1> QED BY <1>1, <1>3, <1>4, <1>5, <1>6, ControlFrame DEF MInv, Flies

-----------------------------------------------------------------------------
(***************************************************************************)
(* The steps with which a request leaves process, or its prompt ends.      *)
(***************************************************************************)
LEMMA LeaveStep ==
    ASSUME MInv, NEW r \in Requests, NEW p \in {"failed", "encode", "prompt", "gone"},
           at[r] \in {"await", "encode", "prompt"}, at' = [at EXCEPT ![r] = p],
           pending' = pending \/ pending' = [pending EXCEPT ![r] = <<>>],
           \A g \in Flights : g[1] = r => phase[g] \notin Unfinished,
           UNCHANGED <<callVars, cacheVars, taskVars, stopped, next>>, Reclaim({})
    PROVE  MInv'
  <1>1. UNCHANGED <<phase, failed, inflight, ready, retained, queue, claimed, cancelled,
                    expired, stopped, next>>
    BY DEF callVars, cacheVars, taskVars
  <1>2. /\ at' \in [Requests -> Places] /\ at'[r] = p
        /\ \A s \in Requests : s # r => at'[s] = at[s]
    BY DEF MInv, Types, Places
  <1>3. /\ pending' \in [Requests -> Seq(Holds)]
        /\ \A s \in Requests : pending'[s] = pending[s] \/ pending'[s] = <<>>
        /\ \A s \in Requests : s # r => pending'[s] = pending[s]
    <2>1. pending \in [Requests -> Seq(Holds)] /\ <<>> \in Seq(Holds)
      BY DEF MInv, Types
    <2>2. CASE pending' = pending
      BY <2>1, <2>2
    <2>3. CASE pending' = [pending EXCEPT ![r] = <<>>]
      BY <2>1, <2>3
    <2> QED BY <2>2, <2>3
  <1>4. Walks'
    <2> SUFFICES ASSUME NEW s \in Requests PROVE Walk(s)'
      BY DEF Walks
    <2>1. Walk(s)
      BY DEF MInv, Walks
    <2>2. CASE s # r
      BY <1>1, <1>2, <1>3, <2>1, <2>2, WalkFrame DEF Walk
    <2>3. CASE s = r
      <3>1. Len(pending'[r]) <= Len(Parts[r])
        BY <1>3, <2>1, <2>3, PendingFacts DEF Walk, MInv
      <3>2. \A i \in DOMAIN pending'[r] : Item(pending'[r][i].flight) = Parts[r][i]
        <4>1. CASE pending'[r] = pending[r]
          BY <2>1, <2>3, <4>1 DEF Walk
        <4>2. CASE pending'[r] = <<>>
          BY <4>2
        <4> QED BY <1>3, <4>1, <4>2
      <3> QED BY <1>1, <1>2, <2>1, <2>3, <3>1, <3>2 DEF Walk, Item
    <2> QED BY <2>2, <2>3
  <1>5. ASSUME NEW g \in Flights PROVE Awaited(g)'
    <2>1. Awaited(g) /\ g[1] \in Requests
      BY FlightFacts DEF MInv, Flies
    <2>2. CASE g[1] # r
      BY <1>1, <1>2, <1>3, <2>1, <2>2, AwaitedFrame
    <2>3. CASE g[1] = r
      BY <1>1, <2>3 DEF Awaited
    <2> QED BY <2>2, <2>3
  <1>6. \A g \in Flights : Course(g)'
    BY <1>1 DEF MInv, Flies, Course
  <1>7. Blameless'
    BY <1>1, <1>2, BlameStep DEF MInv, CallerStops
  <1>8. Queued' /\ CacheExact' /\ Unbuilt'
    BY <1>1 DEF MInv, Queued, CacheExact, Unbuilt
  <1>9. Claims'
    BY <1>1, ClaimsFrame DEF MInv
  <1>10. /\ LiveBounded' /\ BuiltAlive'
         /\ alive' \in SUBSET Flights /\ IsFiniteSet(alive')
    <2>1. ReadsOnly(alive)
      BY <1>1, <1>3, ReadsFrame DEF MInv, LiveBounded, Done
    <2>2. alive \cup {} = alive
      OBVIOUS
    <2>3. Total(alive \cup {}) <= Limit /\ ReadsOnly(alive \cup {})
      BY <2>1, <2>2, Zenon DEF MInv, LiveBounded
    <2> QED BY <1>3, <2>3, ReclaimStep, FS_EmptySet DEF MInv
  <1>11. Types'
    BY <1>1, <1>2, <1>3, <1>10 DEF MInv, Types
  <1> QED BY <1>4, <1>5, <1>6, <1>7, <1>8, <1>9, <1>10, <1>11 DEF MInv, Flies

\* A request that is not preparing has no unfinished flight.
LEMMA NoneUnfinished ==
    ASSUME MInv, NEW r \in Requests, ~Preparing(r) \/ next[r] > Len(pending[r])
    PROVE  \A g \in Flights : g[1] = r => phase[g] \notin Unfinished
  <1> SUFFICES ASSUME NEW g \in Flights, g[1] = r, phase[g] \in Unfinished PROVE FALSE
    OBVIOUS
  <1>1. Preparing(r) /\ g[2] \in DOMAIN pending[r] /\ next[r] <= g[2]
    BY DEF MInv, Flies, Awaited
  <1>2. next[r] \in Nat
    BY DEF MInv, Types
  <1> QED BY <1>1, <1>2, PendingFacts DEF MInv

LEMMA EndMediaStep ==
    ASSUME MInv, NEW r \in Requests, EndMedia(r)
    PROVE  MInv'
  <1>1. \A g \in Flights : g[1] = r => phase[g] \notin Unfinished
    BY NoneUnfinished DEF EndMedia
  <1>2. CASE stopped[r]
    BY <1>1, <1>2, LeaveStep DEF EndMedia
  <1>3. CASE ~stopped[r]
    BY <1>1, <1>3, LeaveStep DEF EndMedia
  <1> QED BY <1>2, <1>3

LEMMA EncodeStep ==
    ASSUME MInv, NEW r \in Requests, Encode(r)
    PROVE  MInv'
  <1>1. \A g \in Flights : g[1] = r => phase[g] \notin Unfinished
    BY NoneUnfinished DEF Encode, Preparing
  <1>2. CASE CallerStops(r)
    BY <1>1, <1>2, LeaveStep DEF Encode
  <1>3. CASE ~CallerStops(r)
    BY <1>1, <1>3, LeaveStep DEF Encode
  <1> QED BY <1>2, <1>3

LEMMA ConsumeStep ==
    ASSUME MInv, NEW r \in Requests, Consume(r)
    PROVE  MInv'
  <1>1. \A g \in Flights : g[1] = r => phase[g] \notin Unfinished
    BY NoneUnfinished DEF Consume, Preparing
  <1> QED BY <1>1, LeaveStep DEF Consume

-----------------------------------------------------------------------------
(***************************************************************************)
(* The steps with which a request begins a part.                           *)
(***************************************************************************)

\* The request holds a payload or a flight for the part, and goes on to the next.
LEMMA HoldFrame ==
    ASSUME MInv, NEW r \in Requests, NEW h \in Holds, at[r] \in {"begin", "submit"},
           Item(h.flight) = Item(Beginning(r)),
           pending' = [pending EXCEPT ![r] = Append(@, h)],
           at' = [at EXCEPT ![r] = AfterBeginning(r)],
           next' = next, inflight' = inflight,
           \A g \in Flights : g # Beginning(r) => phase'[g] = phase[g],
           phase'[Beginning(r)] \in Unfinished => h = [flight |-> Beginning(r), hit |-> FALSE]
    PROVE  /\ Walks' /\ \A g \in Flights : Awaited(g)'
           /\ at' \in [Requests -> Places] /\ pending' \in [Requests -> Seq(Holds)]
           /\ \A s \in Requests : at'[s] = "withdraw" => at[s] = "withdraw"
           /\ pending'[r] = Append(pending[r], h)
           /\ \A s \in Requests : s # r => pending'[s] = pending[s]
  <1> DEFINE f == Beginning(r)
             n == Len(pending[r])
  <1>1. Walk(r) /\ n < Len(Parts[r])
    BY DEF MInv, Walks, Walk
  <1>2. /\ f \in Flights /\ f[1] = r /\ f[2] = n + 1 /\ n + 1 \in DOMAIN Parts[r]
        /\ Item(f) = Parts[r][n + 1] /\ n \in Nat /\ f = <<r, n + 1>>
    BY <1>1, BeginningFacts DEF MInv, Beginning
  <1>3. /\ DOMAIN Parts[r] = 1 .. Len(Parts[r]) /\ Len(Parts[r]) \in Nat
        /\ DOMAIN pending[r] = 1 .. n
    BY PendingFacts DEF MInv
  <1>4. pending \in [Requests -> Seq(Holds)] /\ at \in [Requests -> Places]
    BY DEF MInv, Types
  <1>5. /\ pending'[r] = Append(pending[r], h)
        /\ \A s \in Requests : s # r => pending'[s] = pending[s]
    BY <1>4
  <1>6. /\ pending'[r] \in Seq(Holds) /\ Len(pending'[r]) = n + 1
        /\ DOMAIN pending'[r] = 1 .. n + 1 /\ pending'[r][n + 1] = h
        /\ \A i \in 1 .. n : pending'[r][i] = pending[r][i]
    BY <1>4, <1>5, Appended
  <1>7. pending' \in [Requests -> Seq(Holds)]
    BY <1>4, <1>6
  <1>8. /\ at' \in [Requests -> Places]
        /\ at'[r] = IF n + 1 = Len(Parts[r]) THEN "await" ELSE "begin"
        /\ \A s \in Requests : s # r => at'[s] = at[s]
    BY <1>4 DEF AfterBeginning, Places
  <1> HIDE DEF f, n
  <1>9. ASSUME NEW s \in Requests PROVE Walk(s)'
    <2>1. Walk(s)
      BY DEF MInv, Walks
    <2>2. CASE s # r
      <3>1. \A i \in DOMAIN Parts[s] : phase'[<<s, i>>] = phase[<<s, i>>]
        BY <1>2, <2>2, FlightFacts DEF f
      <3>2. at[s] \in {"submit", "withdraw"} =>
               phase'[Beginning(s)] = phase[Beginning(s)] /\ Beginning(s)' = Beginning(s)
        BY <1>5, <2>1, <2>2, <3>1, BeginningFacts DEF MInv, Walk, Beginning
      <3> QED BY <1>5, <1>8, <2>1, <2>2, <3>1, <3>2 DEF Walk
    <2>3. CASE s = r
      <3>1. \A i \in DOMAIN pending'[r] : Item(pending'[r][i].flight) = Parts[r][i]
        <4> SUFFICES ASSUME NEW i \in 1 .. n + 1
                     PROVE  Item(pending'[r][i].flight) = Parts[r][i]
          BY <1>6
        <4>1. CASE i = n + 1
          BY <1>2, <1>6, <4>1 DEF f
        <4>2. CASE i # n + 1
          <5>1. i \in 1 .. n
            BY <1>2, <4>2
          <5> QED BY <1>1, <1>3, <1>6, <5>1 DEF Walk
        <4> QED BY <4>1, <4>2
      <3>2. \A i \in DOMAIN Parts[r] : i > n + 1 => phase'[<<r, i>>] = "none"
        <4> SUFFICES ASSUME NEW i \in DOMAIN Parts[r], i > n + 1
                     PROVE  phase'[<<r, i>>] = "none"
          OBVIOUS
        <4>1. i > n /\ i # n + 1
          BY <1>2, <1>3
        <4>2. phase[<<r, i>>] = "none"
          BY <1>1, <4>1 DEF Walk, n
        <4>3. <<r, i>> \in Flights /\ <<r, i>> # f
          BY <1>2, <4>1, FlightFacts
        <4> QED BY <4>2, <4>3 DEF f
      <3>3. n + 1 <= Len(Parts[r]) /\ (at'[r] = "begin" => n + 1 < Len(Parts[r]))
        BY <1>2, <1>3, <1>8
      <3>4. at'[r] \in {"await", "begin"} /\ next'[r] = 1 /\ next[r] = 1
        BY <1>1, <1>8 DEF Walk
      <3>5. (\A i \in DOMAIN pending[r] : Item(pending[r][i].flight) = Parts[r][i])'
        BY <3>1 DEF Item
      <3>6. (\A i \in DOMAIN Parts[r] : i > Len(pending[r]) => phase[<<r, i>>] = "none")'
        BY <1>6, <3>2
      <3>7. Walk(r)'
        BY <1>6, <3>3, <3>4, <3>5, <3>6 DEF Walk
      <3> QED BY <2>3, <3>7
    <2> QED BY <2>2, <2>3
  <1>10. ASSUME NEW g \in Flights PROVE Awaited(g)'
    <2>1. Awaited(g) /\ g[1] \in Requests
      BY FlightFacts DEF MInv, Flies
    <2>2. CASE g[1] # r
      <3>1. g # f
        BY <1>2, <2>2
      <3> QED BY <1>5, <1>8, <2>1, <2>2, <3>1, AwaitedFrame DEF f
    <2>3. CASE g = f
      <3> SUFFICES ASSUME phase'[f] \in Unfinished
                   PROVE  /\ at'[r] \in {"begin", "submit", "withdraw", "await"}
                          /\ n + 1 \in DOMAIN pending'[r] /\ next'[r] <= n + 1
                          /\ pending'[r][n + 1] = [flight |-> f, hit |-> FALSE]
        BY <1>2, <2>3 DEF Awaited, Preparing
      <3>1. next'[r] = 1 /\ 1 <= n + 1 /\ n + 1 \in 1 .. n + 1
        BY <1>1, <1>2 DEF Walk
      <3> QED BY <1>6, <1>8, <3>1 DEF f
    <2>4. CASE g[1] = r /\ g # f
      <3> SUFFICES ASSUME phase[g] \in Unfinished
                   PROVE  /\ at'[r] \in {"begin", "submit", "withdraw", "await"}
                          /\ g[2] \in DOMAIN pending'[r] /\ next'[r] <= g[2]
                          /\ pending'[r][g[2]] = [flight |-> g, hit |-> FALSE]
        BY <2>4 DEF Awaited, Preparing, f
      <3>1. /\ g[2] \in DOMAIN pending[r] /\ next[r] <= g[2]
            /\ pending[r][g[2]] = [flight |-> g, hit |-> FALSE]
        BY <2>1, <2>4 DEF Awaited
      <3>2. g[2] \in 1 .. n /\ g[2] \in 1 .. n + 1
        BY <1>2, <1>3, <3>1
      <3> QED BY <1>6, <1>8, <3>1, <3>2
    <2> QED BY <2>2, <2>3, <2>4
  <1>11. \A s \in Requests : at'[s] = "withdraw" => at[s] = "withdraw"
    BY <1>8
  <1> QED BY <1>5, <1>7, <1>8, <1>9, <1>10, <1>11 DEF Walks

LEMMA ReadsHold ==
    ASSUME Types, LiveBounded, BuiltAlive, NEW r \in Requests, NEW h \in Holds,
           pending'[r] = Append(pending[r], h),
           \A s \in Requests : s # r => pending'[s] = pending[s],
           Entries(ready') \subseteq alive, failed' = failed,
           ~failed[h.flight] /\ (h.hit \/ Done(h.flight)) => h.flight \in alive,
           \A f \in Flights : /\ Done(f)' => Done(f)
                              /\ phase'[f] \in Built => phase[f] \in Built
    PROVE  ReadsOnly(alive)
  <1>1. \A f \in Flights : phase'[f] \in Built /\ ~failed'[f] => f \in alive
    BY DEF BuiltAlive, Built
  <1>2. ASSUME NEW p \in Flights, NEW s \in Requests, NEW i \in DOMAIN pending'[s],
               p = pending'[s][i].flight, ~failed'[p], pending'[s][i].hit \/ Done(p)'
        PROVE  p \in alive
    <2>1. ~failed[p] /\ (pending'[s][i].hit \/ Done(p))
      BY <1>2
    <2>2. ASSUME i \in DOMAIN pending[s], pending'[s][i] = pending[s][i] PROVE p \in alive
      BY <1>2, <2>1, <2>2 DEF LiveBounded
    <2>3. CASE s # r
      BY <2>2, <2>3
    <2>4. CASE s = r
      <3>1. /\ DOMAIN pending'[r] = 1 .. Len(pending[r]) + 1 /\ Len(pending[r]) \in Nat
            /\ DOMAIN pending[r] = 1 .. Len(pending[r])
            /\ pending'[r][Len(pending[r]) + 1] = h
            /\ \A j \in 1 .. Len(pending[r]) : pending'[r][j] = pending[r][j]
        BY Appended DEF Types
      <3>2. i \in 1 .. Len(pending[r]) \/ i = Len(pending[r]) + 1
        BY <2>4, <3>1
      <3>3. CASE i = Len(pending[r]) + 1
        BY <1>2, <2>1, <2>4, <3>1, <3>3
      <3>4. CASE i \in 1 .. Len(pending[r])
        BY <2>2, <2>4, <3>1, <3>4
      <3> QED BY <3>2, <3>3, <3>4
    <2> QED BY <2>3, <2>4
  <1> QED BY <1>1, <1>2 DEF ReadsOnly

\* The flight of the next part has not been begun.
LEMMA BeginningIsNew ==
    ASSUME MInv, NEW r \in Requests, at[r] \in {"begin", "submit"}
    PROVE  /\ Beginning(r) \in Flights /\ Beginning(r)[1] = r
           /\ phase[Beginning(r)] = "none" /\ ~failed[Beginning(r)]
           /\ Len(pending[r]) < Len(Parts[r])
  <1>1. Walk(r) /\ Len(pending[r]) < Len(Parts[r])
    BY DEF MInv, Walks, Walk
  <1>2. /\ Beginning(r) \in Flights /\ Beginning(r)[1] = r
        /\ Len(pending[r]) + 1 \in DOMAIN Parts[r] /\ Len(pending[r]) \in Nat
    BY <1>1, BeginningFacts DEF MInv
  <1>3. phase[Beginning(r)] = "none"
    BY <1>1, <1>2 DEF Walk, Beginning
  <1> QED BY <1>1, <1>2, <1>3 DEF MInv, Flies, Course

\* begin_prepare finds the item in the cache.
BeginHit(r) ==
    \E k \in DOMAIN ready :
        /\ Item(ready[k]) = Item(Beginning(r))
        /\ pending' = [pending EXCEPT ![r] = Append(@, [flight |-> ready[k], hit |-> TRUE])]
        /\ ready' = ToFront(ready, k)

\* begin_prepare joins the flight of the item.
BeginJoin(r) ==
    \E p \in inflight :
        /\ Item(p) = Item(Beginning(r))
        /\ pending' = [pending EXCEPT ![r] = Append(@, [flight |-> p, hit |-> FALSE])]

LEMMA BeginHolds ==
    ASSUME MInv, NEW r \in Requests, at[r] = "begin",
           BeginHit(r) \/ (BeginJoin(r) /\ ready' = ready),
           at' = [at EXCEPT ![r] = AfterBeginning(r)],
           UNCHANGED <<callVars, taskVars, alive, stopped, next, retained, inflight>>
    PROVE  MInv'
  <1>1. UNCHANGED <<phase, failed, inflight, retained, queue, claimed, cancelled,
                    expired, stopped, next, alive>>
    BY DEF callVars, taskVars
  <1>2. phase[Beginning(r)] = "none"
    BY BeginningIsNew
  <1>3. ready \in Seq(Flights) /\ inflight \in SUBSET Flights
    BY DEF MInv, Types
  <1>4. /\ ready' \in Seq(Flights) /\ Entries(ready') = Entries(ready)
        /\ Once(ready) => Once(ready')
    BY <1>3, MovedToFront DEF BeginHit
  <1>5. PICK h \in Holds :
           /\ Item(h.flight) = Item(Beginning(r))
           /\ pending' = [pending EXCEPT ![r] = Append(@, h)]
           /\ ~failed[h.flight] /\ (h.hit \/ Done(h.flight)) => h.flight \in alive
    <2>1. ASSUME BeginHit(r)
          PROVE  \E h \in Holds :
                    /\ Item(h.flight) = Item(Beginning(r))
                    /\ pending' = [pending EXCEPT ![r] = Append(@, h)]
                    /\ ~failed[h.flight] /\ (h.hit \/ Done(h.flight)) => h.flight \in alive
      <3>1. PICK k \in DOMAIN ready :
               /\ Item(ready[k]) = Item(Beginning(r))
               /\ pending' = [pending EXCEPT ![r] = Append(@, [flight |-> ready[k], hit |-> TRUE])]
        BY <2>1 DEF BeginHit
      <3>2. ready[k] \in Flights /\ ready[k] \in alive
        BY <1>3, LenProperties DEF MInv, LiveBounded, Entries
      <3> DEFINE h == [flight |-> ready[k], hit |-> TRUE]
      <3>3. h \in Holds /\ h.flight = ready[k]
        BY <3>2 DEF Holds
      <3> QED BY <3>1, <3>2, <3>3
    <2>2. ASSUME BeginJoin(r)
          PROVE  \E h \in Holds :
                    /\ Item(h.flight) = Item(Beginning(r))
                    /\ pending' = [pending EXCEPT ![r] = Append(@, h)]
                    /\ ~failed[h.flight] /\ (h.hit \/ Done(h.flight)) => h.flight \in alive
      <3>1. PICK p \in inflight :
               /\ Item(p) = Item(Beginning(r))
               /\ pending' = [pending EXCEPT ![r] = Append(@, [flight |-> p, hit |-> FALSE])]
        BY <2>2 DEF BeginJoin
      <3>2. p \in Flights /\ Course(p)
        BY <1>3 DEF MInv, Flies
      <3> DEFINE h == [flight |-> p, hit |-> FALSE]
      <3>3. h \in Holds /\ h.flight = p /\ ~h.hit
        BY <3>2 DEF Holds
      <3>4. ~failed[p] /\ Done(p) => p \in alive
        BY <3>1, <3>2 DEF Course, Done, MInv, BuiltAlive
      <3> QED BY <3>1, <3>3, <3>4
    <2> QED BY <2>1, <2>2
  <1>6. /\ Walks' /\ \A g \in Flights : Awaited(g)'
        /\ at' \in [Requests -> Places] /\ pending' \in [Requests -> Seq(Holds)]
        /\ \A s \in Requests : at'[s] = "withdraw" => at[s] = "withdraw"
        /\ pending'[r] = Append(pending[r], h)
        /\ \A s \in Requests : s # r => pending'[s] = pending[s]
    <2>1. "none" \notin Unfinished
      BY DEF Unfinished, Early
    <2> QED BY <1>1, <1>2, <1>5, <2>1, HoldFrame
  <1>7. Types'
    BY <1>1, <1>4, <1>6 DEF MInv, Types
  <1>8. Queued' /\ \A g \in Flights : Course(g)'
    BY <1>1 DEF MInv, Queued, Flies, Course
  <1>9. CacheExact'
    BY <1>1, <1>4 DEF MInv, CacheExact, Once
  <1>10. Unbuilt'
    <2>1. \A i \in DOMAIN ready' : \E j \in DOMAIN ready : ready'[i] = ready[j]
      BY <1>4 DEF Entries
    <2> QED BY <1>1, <2>1 DEF MInv, Unbuilt
  <1>11. Claims'
    BY <1>1, ClaimsFrame DEF MInv
  <1>12. Blameless'
    BY <1>1, <1>6, BlameStep DEF MInv, CallerStops
  <1>13. LiveBounded' /\ BuiltAlive'
    <2>1. Entries(ready') \subseteq alive
      BY <1>4 DEF MInv, LiveBounded
    <2>2. ReadsOnly(alive)
      BY <1>1, <1>5, <1>6, <2>1, ReadsHold DEF MInv, Done
    <2> QED BY <1>1, <1>6, <2>2, AliveFrame DEF MInv
  <1> QED BY <1>6, <1>7, <1>8, <1>9, <1>10, <1>11, <1>12, <1>13 DEF MInv, Flies

LEMMA BeginProduces ==
    ASSUME MInv, NEW r \in Requests, at[r] = "begin",
           Cached(Item(Beginning(r))) = {}, Flying(Item(Beginning(r))) = {},
           inflight' = inflight \cup {Beginning(r)}, at' = [at EXCEPT ![r] = "submit"],
           UNCHANGED <<callVars, taskVars, alive, stopped, next, retained, ready, pending>>
    PROVE  MInv'
  <1> DEFINE f == Beginning(r)
  <1>1. UNCHANGED <<phase, failed, ready, pending, retained, queue, claimed, cancelled,
                    expired, stopped, next, alive>>
    BY DEF callVars, taskVars
  <1>2. /\ f \in Flights /\ phase[f] = "none" /\ ~failed[f]
        /\ Len(pending[r]) < Len(Parts[r])
    BY BeginningIsNew
  <1>3. /\ at' \in [Requests -> Places] /\ at'[r] = "submit"
        /\ \A s \in Requests : s # r => at'[s] = at[s]
    BY DEF MInv, Types, Places
  <1>4. \A s \in Requests : Beginning(s)' = Beginning(s)
    BY <1>1 DEF Beginning
  <1>5. inflight' = inflight \cup {f}
    OBVIOUS
  <1>6. /\ \A g \in inflight : Item(g) # Item(f)
        /\ \A i \in DOMAIN ready : Item(ready[i]) # Item(f)
    BY DEF Flying, Cached, Entries
  <1>7. Walk(r)'
    BY <1>1, <1>2, <1>3, <1>4, <1>5 DEF MInv, Walks, Walk
  <1> HIDE DEF f
  <1>8. Walks'
    <2>1. ASSUME NEW s \in Requests, s # r PROVE Walk(s)'
      BY <1>1, <1>3, <1>5, <2>1, WalkFrame DEF MInv, Walks, Walk
    <2> QED BY <1>7, <2>1 DEF Walks
  <1>9. ASSUME NEW g \in Flights PROVE Awaited(g)' /\ Course(g)'
    <2>1. Awaited(g) /\ Course(g) /\ g[1] \in Requests
      BY FlightFacts DEF MInv, Flies
    <2>2. Preparing(g[1]) => Preparing(g[1])'
      BY <1>3, <2>1 DEF Preparing
    <2>3. Awaited(g)'
      BY <1>1, <2>1, <2>2, AwaitedStays
    <2>4. Course(g)'
      BY <1>1, <1>2, <1>5, <2>1 DEF Course
    <2> QED BY <2>3, <2>4
  <1>10. Types'
    BY <1>1, <1>2, <1>3, <1>5 DEF MInv, Types
  <1>11. Queued'
    BY <1>1 DEF MInv, Queued
  <1>12. CacheExact'
    BY <1>1, <1>5, <1>6 DEF MInv, CacheExact
  <1>13. Unbuilt'
    BY <1>1, <1>5, <1>6 DEF MInv, Unbuilt
  <1>14. LiveBounded' /\ BuiltAlive'
    BY <1>1 DEF MInv, LiveBounded, BuiltAlive, Done
  <1>15. Claims'
    BY <1>1, ClaimsFrame DEF MInv
  <1>16. Blameless'
    BY <1>1, <1>3, BlameStep DEF MInv, CallerStops
  <1> QED BY <1>8, <1>9, <1>10, <1>11, <1>12, <1>13, <1>14, <1>15, <1>16 DEF MInv, Flies

LEMMA BeginPrepareStep ==
    ASSUME MInv, NEW r \in Requests, BeginPrepare(r)
    PROVE  MInv'
  <1>1. /\ at[r] = "begin"
        /\ UNCHANGED <<callVars, taskVars, alive, stopped, next, retained>>
    BY DEF BeginPrepare
  <1>2. CASE Cached(Item(Beginning(r))) # {}
    <2>1. /\ BeginHit(r) /\ inflight' = inflight
          /\ at' = [at EXCEPT ![r] = AfterBeginning(r)]
      BY <1>2 DEF BeginPrepare, BeginHit
    <2> QED BY <1>1, <2>1, BeginHolds
  <1>3. CASE Cached(Item(Beginning(r))) = {} /\ Flying(Item(Beginning(r))) # {}
    <2>1. /\ BeginJoin(r) /\ ready' = ready /\ inflight' = inflight
          /\ at' = [at EXCEPT ![r] = AfterBeginning(r)]
      BY <1>3 DEF BeginPrepare, BeginJoin, Flying
    <2> QED BY <1>1, <2>1, BeginHolds
  <1>4. CASE Cached(Item(Beginning(r))) = {} /\ Flying(Item(Beginning(r))) = {}
    <2>1. /\ inflight' = inflight \cup {Beginning(r)} /\ at' = [at EXCEPT ![r] = "submit"]
          /\ UNCHANGED <<ready, pending>>
      BY <1>4 DEF BeginPrepare
    <2> QED BY <1>1, <1>4, <2>1, BeginProduces
  <1> QED BY <1>2, <1>3, <1>4

LEMMA EnqueueStep ==
    ASSUME MInv, NEW r \in Requests, Enqueue(r)
    PROVE  MInv'
  <1> DEFINE f == Beginning(r)
             h == [flight |-> f, hit |-> FALSE]
  <1>1. /\ at[r] = "submit" /\ queue' = Append(queue, f)
        /\ phase' = [phase EXCEPT ![f] = "queued"]
        /\ pending' = [pending EXCEPT ![r] = Append(@, h)]
        /\ at' = [at EXCEPT ![r] = AfterBeginning(r)]
        /\ UNCHANGED <<callVars, cacheVars, alive, failed, claimed, stopped, next>>
    BY DEF Enqueue
  <1>2. UNCHANGED <<failed, ready, retained, inflight, claimed, cancelled, expired,
                    stopped, next, alive>>
    BY <1>1 DEF callVars, cacheVars
  <1>3. f \in Flights /\ phase[f] = "none" /\ ~failed[f]
    BY <1>1, BeginningIsNew
  <1>4. f \in inflight
    BY <1>1 DEF MInv, Walks, Walk
  <1>5. h \in Holds /\ h.flight = f /\ ~h.hit
    BY <1>3 DEF Holds
  <1>6. /\ phase' \in [Flights -> Phases] /\ phase'[f] = "queued"
        /\ \A g \in Flights : g # f => phase'[g] = phase[g]
    BY <1>1, <1>3 DEF MInv, Types, Phases, Unfinished, Early
  <1>7. /\ Walks' /\ \A g \in Flights : Awaited(g)'
        /\ at' \in [Requests -> Places] /\ pending' \in [Requests -> Seq(Holds)]
        /\ \A s \in Requests : at'[s] = "withdraw" => at[s] = "withdraw"
        /\ pending'[r] = Append(pending[r], h)
        /\ \A s \in Requests : s # r => pending'[s] = pending[s]
    BY <1>1, <1>2, <1>5, <1>6, HoldFrame
  <1>8. queue \in Seq(Flights)
    BY DEF MInv, Types
  <1>9. queue' \in Seq(Flights)
    BY <1>1, <1>3, <1>8, Appended
  <1> HIDE DEF f, h
  <1>10. Types'
    BY <1>2, <1>6, <1>7, <1>9 DEF MInv, Types
  <1>11. Queued'
    <2>1. /\ DOMAIN queue' = 1 .. Len(queue) + 1 /\ Len(queue) \in Nat
          /\ DOMAIN queue = 1 .. Len(queue) /\ queue'[Len(queue) + 1] = f
          /\ \A i \in 1 .. Len(queue) : queue'[i] = queue[i] /\ queue[i] \in Flights
      BY <1>1, <1>3, <1>8, Appended
    <2>2. \A i \in 1 .. Len(queue) : phase[queue[i]] = "queued" /\ queue[i] # f
      BY <1>3, <2>1 DEF MInv, Queued
    <2>3. \A i \in DOMAIN queue' : i \in 1 .. Len(queue) \/ i = Len(queue) + 1
      BY <2>1
    <2>4. \A i \in DOMAIN queue' : phase'[queue'[i]] = "queued"
      BY <1>6, <2>1, <2>2, <2>3
    <2>5. \A i, j \in 1 .. Len(queue) : queue[i] = queue[j] => i = j
      BY <2>1 DEF MInv, Queued
    <2>6. \A i, j \in DOMAIN queue' : queue'[i] = queue'[j] => i = j
      BY <2>1, <2>2, <2>3, <2>5
    <2> QED BY <2>4, <2>6 DEF Queued
  <1>12. \A g \in Flights : Course(g)'
    BY <1>2, <1>3, <1>4, <1>6 DEF MInv, Flies, Course, Early
  <1>13. CacheExact'
    BY <1>2 DEF MInv, CacheExact
  <1>14. Unbuilt'
    <2>1. \A g \in inflight : g \in Flights
      BY DEF MInv, Types
    <2> QED BY <1>2, <1>3, <1>6, <2>1 DEF MInv, Unbuilt, Early
  <1>15. Claims'
    BY <1>2, <1>3, <1>6, ClaimsFrame DEF MInv
  <1>16. Blameless'
    BY <1>2, <1>7, BlameStep DEF MInv, CallerStops
  <1>17. LiveBounded' /\ BuiltAlive'
    <2>1. \A g \in Flights : /\ Done(g)' => Done(g)
                             /\ phase'[g] \in Built => phase[g] \in Built
      BY <1>6 DEF Done, Built
    <2>2. ~Done(f)
      BY <1>3 DEF Done
    <2>3. ReadsOnly(alive)
      BY <1>2, <1>5, <1>7, <2>1, <2>2, ReadsHold DEF MInv, LiveBounded
    <2> QED BY <1>2, <1>7, <2>3, AliveFrame DEF MInv
  <1> QED BY <1>7, <1>10, <1>11, <1>12, <1>13, <1>14, <1>15, <1>16, <1>17 DEF MInv, Flies

LEMMA SubmitFailsStep ==
    ASSUME MInv, NEW r \in Requests, SubmitFails(r)
    PROVE  MInv'
  <1> DEFINE f == Beginning(r)
  <1>1. /\ at[r] = "submit" /\ WorkerStops(r)
        /\ phase' = [phase EXCEPT ![f] = "withdrawn"]
        /\ failed' = [failed EXCEPT ![f] = TRUE]
        /\ at' = [at EXCEPT ![r] = "withdraw"]
        /\ UNCHANGED <<callVars, cacheVars, alive, queue, claimed, stopped, pending, next>>
    BY DEF SubmitFails
  <1>2. UNCHANGED <<ready, retained, inflight, claimed, queue, cancelled, expired,
                    stopped, pending, next, alive>>
    BY <1>1 DEF callVars, cacheVars
  <1>3. /\ f \in Flights /\ f[1] = r /\ phase[f] = "none"
        /\ Len(pending[r]) < Len(Parts[r])
    BY <1>1, BeginningIsNew
  <1>4. /\ at' \in [Requests -> Places] /\ at'[r] = "withdraw"
        /\ \A s \in Requests : s # r => at'[s] = at[s]
    BY <1>1 DEF MInv, Types, Places
  <1>5. /\ phase' \in [Flights -> Phases] /\ phase'[f] = "withdrawn"
        /\ \A g \in Flights : g # f => phase'[g] = phase[g]
        /\ failed' \in [Flights -> BOOLEAN] /\ failed'[f]
        /\ \A g \in Flights : g # f => failed'[g] = failed[g]
    BY <1>1, <1>3 DEF MInv, Types, Phases, Unfinished, Early
  <1>6. \A s \in Requests : Beginning(s)' = Beginning(s)
    BY <1>2 DEF Beginning
  <1>7. Walk(r)'
    <2>1. Walk(r)
      BY DEF MInv, Walks
    <2>2. phase'[Beginning(r)] = "withdrawn" /\ Beginning(r)' = Beginning(r)
      BY <1>5, <1>6
    <2>3. Len(pending'[r]) < Len(Parts[r]) /\ next'[r] = 1
      BY <1>1, <1>2, <1>3, <2>1 DEF Walk
    <2> QED BY <1>2, <1>4, <2>1, <2>2, <2>3 DEF Walk
  <1>8. ASSUME NEW s \in Requests, s # r PROVE Walk(s)'
    <2>1. Walk(s)
      BY DEF MInv, Walks
    <2>2. \A i \in DOMAIN Parts[s] : phase'[<<s, i>>] = phase[<<s, i>>]
      BY <1>3, <1>5, <1>8, FlightFacts
    <2>3. at[s] = "withdraw" => phase'[Beginning(s)] = "withdrawn"
      <3>1. at[s] = "withdraw" => Len(pending[s]) + 1 \in DOMAIN Parts[s]
        BY <2>1, BeginningFacts DEF MInv, Walk
      <3> QED BY <2>1, <2>2, <3>1 DEF Walk, Beginning
    <2> QED BY <1>2, <1>4, <1>6, <1>8, <2>1, <2>2, <2>3 DEF Walk
  <1> HIDE DEF f
  <1>9. ASSUME NEW g \in Flights PROVE Awaited(g)' /\ Course(g)'
    <2>1. Awaited(g) /\ Course(g) /\ g[1] \in Requests
      BY FlightFacts DEF MInv, Flies
    <2>2. Preparing(g[1]) => Preparing(g[1])'
      BY <1>4, <2>1 DEF Preparing
    <2>3. phase'[g] \in Unfinished => phase[g] \in Unfinished
      BY <1>5 DEF Unfinished, Early
    <2>4. Awaited(g)'
      BY <1>2, <2>1, <2>2, <2>3, AwaitedStays
    <2>5. Course(g)'
      BY <1>2, <1>5, <2>1 DEF Course, Early
    <2> QED BY <2>4, <2>5
  <1>10. Types'
    BY <1>2, <1>4, <1>5 DEF MInv, Types
  <1>11. Queued'
    <2>1. \A i \in DOMAIN queue : queue[i] \in Flights /\ queue[i] # f
      BY <1>3, LenProperties DEF MInv, Types, Queued
    <2> QED BY <1>2, <1>5, <2>1 DEF MInv, Queued
  <1>12. CacheExact'
    BY <1>2 DEF MInv, CacheExact
  <1>13. Unbuilt'
    <2>1. \A g \in inflight : g \in Flights
      BY DEF MInv, Types
    <2> QED BY <1>2, <1>5, <2>1 DEF MInv, Unbuilt, Early
  <1>14. Claims'
    BY <1>2, <1>5, ClaimsFrame DEF MInv
  <1>15. Blameless'
    <2>1. stopped[r] \/ HasReason(r)
      BY <1>1 DEF WorkerStops, HasReason, CallerStops
    <2> QED BY <1>2, <1>3, <1>4, <1>5, <2>1, BlameStep DEF MInv, CallerStops
  <1>16. LiveBounded' /\ BuiltAlive'
    <2>1. \A g \in Flights : ~failed'[g] => phase'[g] = phase[g]
      BY <1>5
    <2>2. ReadsOnly(alive)
      BY <1>2, <1>5, <2>1, ReadsFrame DEF MInv, LiveBounded, Done
    <2> QED BY <1>2, <2>2, AliveFrame DEF MInv, Types
  <1> QED BY <1>7, <1>8, <1>9, <1>10, <1>11, <1>12, <1>13, <1>14, <1>15, <1>16
          DEF MInv, Flies, Walks

LEMMA WithdrawStep ==
    ASSUME MInv, NEW r \in Requests, Withdraw(r)
    PROVE  MInv'
  <1> DEFINE f == Beginning(r)
  <1>1. /\ at[r] = "withdraw"
        /\ phase' = [phase EXCEPT ![f] = "over"]
        /\ stopped' = [stopped EXCEPT ![r] = TRUE]
        /\ inflight' = inflight \ {f}
        /\ at' = [at EXCEPT ![r] = "await"]
        /\ UNCHANGED <<callVars, alive, failed, queue, claimed, pending, next, ready, retained>>
    BY DEF Withdraw
  <1>2. UNCHANGED <<ready, retained, claimed, queue, cancelled, expired, failed,
                    pending, next, alive>>
    BY <1>1 DEF callVars
  <1>a. Walk(r)
    BY DEF MInv, Walks
  <1>3. /\ f \in Flights /\ f[1] = r /\ phase[f] = "withdrawn" /\ failed[f]
    <2>1. f \in Flights /\ f[1] = r /\ phase[f] = "withdrawn"
      BY <1>1, <1>a, BeginningFacts DEF MInv, Walk
    <2> QED BY <2>1 DEF MInv, Flies, Course
  <1>4. /\ at' \in [Requests -> Places] /\ at'[r] = "await"
        /\ \A s \in Requests : s # r => at'[s] = at[s]
        /\ stopped' \in [Requests -> BOOLEAN]
        /\ \A s \in Requests : s # r => stopped'[s] = stopped[s]
    BY <1>1 DEF MInv, Types, Places
  <1>5. /\ phase' \in [Flights -> Phases] /\ phase'[f] = "over"
        /\ \A g \in Flights : g # f => phase'[g] = phase[g]
    BY <1>1, <1>3 DEF MInv, Types, Phases, Unfinished, Early
  <1>6. \A s \in Requests : Beginning(s)' = Beginning(s)
    BY <1>2 DEF Beginning
  <1>7. Walk(r)'
    BY <1>2, <1>4, <1>a DEF Walk
  <1>8. ASSUME NEW s \in Requests, s # r PROVE Walk(s)'
    <2>1. Walk(s)
      BY DEF MInv, Walks
    <2>2. \A i \in DOMAIN Parts[s] : phase'[<<s, i>>] = phase[<<s, i>>]
      BY <1>3, <1>5, <1>8, FlightFacts
    <2>3. at[s] = "withdraw" => phase'[Beginning(s)] = "withdrawn"
      <3>1. at[s] = "withdraw" => Len(pending[s]) + 1 \in DOMAIN Parts[s]
        BY <2>1, BeginningFacts DEF MInv, Walk
      <3> QED BY <2>1, <2>2, <3>1 DEF Walk, Beginning
    <2>4. at[s] = "submit" => Beginning(s) \in inflight'
      <3>1. Beginning(s) # f
        BY <1>8 DEF Beginning
      <3> QED BY <1>1, <2>1, <3>1 DEF Walk
    <2> QED BY <1>2, <1>4, <1>6, <1>8, <2>1, <2>2, <2>3, <2>4 DEF Walk
  <1> HIDE DEF f
  <1>9. ASSUME NEW g \in Flights PROVE Awaited(g)' /\ Course(g)'
    <2>1. Awaited(g) /\ Course(g) /\ g[1] \in Requests
      BY FlightFacts DEF MInv, Flies
    <2>2. Preparing(g[1]) => Preparing(g[1])'
      BY <1>4, <2>1 DEF Preparing
    <2>3. phase'[g] \in Unfinished => phase[g] \in Unfinished
      BY <1>5 DEF Unfinished, Early
    <2>4. Awaited(g)'
      BY <1>2, <2>1, <2>2, <2>3, AwaitedStays
    <2>5. Course(g)'
      BY <1>1, <1>2, <1>5, <2>1 DEF Course, Early
    <2> QED BY <2>4, <2>5
  <1>10. Types'
    BY <1>1, <1>2, <1>4, <1>5 DEF MInv, Types
  <1>11. Queued'
    <2>1. \A i \in DOMAIN queue : queue[i] \in Flights /\ queue[i] # f
      BY <1>3, LenProperties DEF MInv, Types, Queued
    <2> QED BY <1>2, <1>5, <2>1 DEF MInv, Queued
  <1>12. CacheExact'
    BY <1>1, <1>2 DEF MInv, CacheExact
  <1>13. Unbuilt'
    <2>1. \A g \in inflight : g \in Flights
      BY DEF MInv, Types
    <2> QED BY <1>1, <1>2, <1>5, <2>1 DEF MInv, Unbuilt, Early
  <1>14. Claims'
    BY <1>2, <1>5, ClaimsFrame DEF MInv
  <1>15. Blameless'
    <2>1. \A s \in Requests : stopped'[s] \/ at'[s] = "withdraw" =>
             stopped[s] \/ at[s] = "withdraw"
      BY <1>1, <1>4
    <2> QED BY <1>2, <2>1, BlameStep DEF MInv, CallerStops
  <1>16. LiveBounded' /\ BuiltAlive'
    <2>1. \A g \in Flights : ~failed'[g] => phase'[g] = phase[g]
      BY <1>2, <1>3, <1>5
    <2>2. ReadsOnly(alive)
      BY <1>2, <2>1, ReadsFrame DEF MInv, LiveBounded, Done
    <2> QED BY <1>2, <2>2, AliveFrame DEF MInv, Types
  <1> QED BY <1>7, <1>8, <1>9, <1>10, <1>11, <1>12, <1>13, <1>14, <1>15, <1>16
          DEF MInv, Flies, Walks

-----------------------------------------------------------------------------
(***************************************************************************)
(* The steps of the tasks.                                                 *)
(***************************************************************************)
LEMMA ReclaimNone ==
    ASSUME Types, LiveBounded, Reclaim({}), ReadsOnly(alive),
           pending' \in [Requests -> Seq(Holds)]
    PROVE  /\ LiveBounded' /\ BuiltAlive'
           /\ alive' \in SUBSET Flights /\ IsFiniteSet(alive')
  <1>1. alive \cup {} = alive
    OBVIOUS
  <1>2. Total(alive \cup {}) <= Limit /\ ReadsOnly(alive \cup {})
    BY <1>1, Zenon DEF LiveBounded
  <1> QED BY <1>2, ReclaimStep, FS_EmptySet

\* What every step of a running task does and leaves alone.
TaskMoves(f, p) ==
    /\ phase[f] \in (Unfinished \cup {"done"}) \ {"queued"}
    /\ p \in {"alloc", "denied", "build", "publish", "done", "over"}
    /\ p \in Unfinished => phase[f] \in Unfinished
    /\ phase' = [phase EXCEPT ![f] = p]
    /\ UNCHANGED <<callVars, requestVars, queue>>
    /\ inflight' = inflight \/ inflight' = inflight \ {f}

LEMMA TaskCore ==
    ASSUME MInv, NEW f \in Flights, NEW p, TaskMoves(f, p)
    PROVE  /\ Walks' /\ Queued' /\ \A g \in Flights : Awaited(g)'
           /\ phase' \in [Flights -> Phases] /\ phase'[f] = p
           /\ \A g \in Flights : g # f => phase'[g] = phase[g]
           /\ UNCHANGED <<cancelled, expired, at, stopped, pending, next, queue>>
           /\ pending' \in [Requests -> Seq(Holds)]
           /\ inflight' \in SUBSET inflight
           /\ \A g \in Flights : phase[g] \notin {"none", "queued", "claim"}
                                    => phase'[g] \notin {"none", "queued", "claim"}
  <1>1. UNCHANGED <<cancelled, expired, at, stopped, pending, next, queue>>
    BY DEF TaskMoves, callVars, requestVars
  <1>2. p \in Phases /\ p \notin {"none", "withdrawn", "queued", "claim"}
    BY DEF TaskMoves, Phases, Unfinished, Early
  <1>3. /\ phase' \in [Flights -> Phases] /\ phase'[f] = p
        /\ \A g \in Flights : g # f => phase'[g] = phase[g]
    BY <1>2 DEF TaskMoves, MInv, Types
  <1>4. Walks' /\ \A g \in Flights : Awaited(g)'
    BY <1>1, <1>2, TaskFrame DEF TaskMoves, MInv
  <1>5. Queued'
    <2>1. \A i \in DOMAIN queue : queue[i] \in Flights /\ queue[i] # f
      BY LenProperties DEF MInv, Types, Queued, TaskMoves
    <2> QED BY <1>1, <1>3, <2>1 DEF MInv, Queued
  <1>6. pending' \in [Requests -> Seq(Holds)]
    BY <1>1 DEF MInv, Types
  <1>7. inflight' \in SUBSET inflight
    BY DEF TaskMoves
  <1> QED BY <1>1, <1>2, <1>3, <1>4, <1>5, <1>6, <1>7

LEMMA TakeStep ==
    ASSUME MInv, Take
    PROVE  MInv'
  <1> DEFINE f == Head(queue)
  <1>1. /\ queue # <<>> /\ phase' = [phase EXCEPT ![f] = "claim"] /\ queue' = Tail(queue)
        /\ UNCHANGED <<callVars, requestVars, cacheVars, alive, failed, claimed>>
    BY DEF Take
  <1>2. UNCHANGED <<ready, retained, inflight, claimed, cancelled, expired, failed,
                    at, stopped, pending, next, alive>>
    BY <1>1 DEF callVars, requestVars, cacheVars
  <1>3. /\ queue \in Seq(Flights) /\ Len(queue) \in Nat /\ Len(queue) > 0
        /\ DOMAIN queue = 1 .. Len(queue) /\ \A i \in DOMAIN queue : queue[i] \in Flights
    BY <1>1, LenProperties, EmptySeq DEF MInv, Types
  <1>4. /\ f = queue[1] /\ queue' \in Seq(Flights) /\ DOMAIN queue' = 1 .. Len(queue) - 1
        /\ \A i \in 1 .. Len(queue) - 1 : queue'[i] = queue[i + 1]
    BY <1>1, <1>3
  <1>5. f \in Flights /\ phase[f] = "queued"
    BY <1>3, <1>4 DEF MInv, Queued
  <1> HIDE DEF f
  <1>6. /\ phase' \in [Flights -> Phases] /\ phase'[f] = "claim"
        /\ \A g \in Flights : g # f => phase'[g] = phase[g]
    BY <1>1, <1>5 DEF MInv, Types, Phases, Unfinished, Early
  <1>7. Walks' /\ \A g \in Flights : Awaited(g)'
    <2>1. "claim" \in Phases /\ phase[f] \in Unfinished
      BY <1>5 DEF Phases, Unfinished, Early
    <2> QED BY <1>1, <1>2, <1>5, <2>1, TaskFrame DEF MInv
  <1>8. Queued'
    <2>1. \A i \in 1 .. Len(queue) - 1 : i + 1 \in DOMAIN queue /\ i + 1 # 1
      BY <1>3
    <2>2. \A i \in 1 .. Len(queue) - 1 : phase[queue[i + 1]] = "queued" /\ queue[i + 1] # f
      BY <1>3, <1>4, <2>1 DEF MInv, Queued
    <2>3. \A i \in DOMAIN queue' : phase'[queue'[i]] = "queued"
      BY <1>3, <1>4, <1>6, <2>1, <2>2
    <2>4. ASSUME NEW i \in DOMAIN queue', NEW j \in DOMAIN queue', queue'[i] = queue'[j]
          PROVE  i = j
      <3>1. i + 1 = j + 1
        BY <1>4, <2>1, <2>4 DEF MInv, Queued
      <3> QED BY <1>3, <1>4, <3>1
    <2> QED BY <2>3, <2>4 DEF Queued
  <1>9. Types'
    BY <1>2, <1>4, <1>6 DEF MInv, Types
  <1>10. \A g \in Flights : Course(g)'
    BY <1>2, <1>5, <1>6 DEF MInv, Flies, Course, Early
  <1>11. CacheExact'
    BY <1>2 DEF MInv, CacheExact
  <1>12. Unbuilt'
    <2>1. \A g \in inflight : g \in Flights
      BY DEF MInv, Types
    <2> QED BY <1>2, <1>5, <1>6, <2>1 DEF MInv, Unbuilt, Early
  <1>13. Claims'
    BY <1>2, <1>5, <1>6, ClaimsFrame DEF MInv
  <1>14. Blameless'
    BY <1>2, BlameStep DEF MInv, CallerStops
  <1>15. LiveBounded' /\ BuiltAlive'
    <2>1. \A g \in Flights : /\ Done(g)' => Done(g)
                             /\ phase'[g] \in Built => phase[g] \in Built
      BY <1>6 DEF Done, Built
    <2>2. ReadsOnly(alive)
      BY <1>2, <2>1, ReadsFrame DEF MInv, LiveBounded
    <2> QED BY <1>2, <2>2, AliveFrame DEF MInv, Types
  <1> QED BY <1>7, <1>8, <1>9, <1>10, <1>11, <1>12, <1>13, <1>14, <1>15 DEF MInv, Flies

LEMMA BuildFailsStep ==
    ASSUME MInv, NEW f \in Flights, phase[f] \in {"claim", "alloc", "build"}, BuildFails(f),
           stopped[f[1]] \/ HasReason(f[1]), Claims', claimed' \in [Requests -> Nat]
    PROVE  MInv'
  <1>1. /\ phase' = [phase EXCEPT ![f] = "publish"]
        /\ failed' = [failed EXCEPT ![f] = TRUE]
        /\ UNCHANGED <<callVars, requestVars, cacheVars, queue>>
        /\ Reclaim({})
    BY DEF BuildFails
  <1>2. UNCHANGED <<ready, retained, inflight>>
    BY <1>1 DEF cacheVars
  <1>3. TaskMoves(f, "publish")
    BY <1>1, <1>2 DEF TaskMoves, Unfinished, Early
  <1>4. /\ Walks' /\ Queued' /\ \A g \in Flights : Awaited(g)'
        /\ phase' \in [Flights -> Phases] /\ phase'[f] = "publish"
        /\ \A g \in Flights : g # f => phase'[g] = phase[g]
        /\ UNCHANGED <<cancelled, expired, at, stopped, pending, next, queue>>
        /\ pending' \in [Requests -> Seq(Holds)]
    BY <1>3, TaskCore
  <1>5. /\ failed' \in [Flights -> BOOLEAN] /\ failed'[f]
        /\ \A g \in Flights : g # f => failed'[g] = failed[g]
    BY <1>1 DEF MInv, Types
  <1>6. \A g \in Flights : Course(g)'
    BY <1>2, <1>4, <1>5 DEF MInv, Flies, Course, Early
  <1>7. CacheExact'
    BY <1>2 DEF MInv, CacheExact
  <1>8. Unbuilt'
    <2>1. \A g \in inflight : g \in Flights
      BY DEF MInv, Types
    <2> QED BY <1>2, <1>4, <2>1 DEF MInv, Unbuilt, Early
  <1>9. Blameless'
    BY <1>4, <1>5, BlameStep DEF MInv, CallerStops
  <1>10. /\ LiveBounded' /\ BuiltAlive'
         /\ alive' \in SUBSET Flights /\ IsFiniteSet(alive')
    <2>1. \A g \in Flights : ~failed'[g] => phase'[g] = phase[g]
      BY <1>4, <1>5
    <2>2. ReadsOnly(alive)
      BY <1>2, <1>4, <1>5, <2>1, ReadsFrame DEF MInv, LiveBounded, Done
    <2> QED BY <1>1, <1>4, <2>2, ReclaimNone DEF MInv
  <1>11. Types'
    BY <1>2, <1>4, <1>5, <1>10 DEF MInv, Types
  <1> QED BY <1>4, <1>6, <1>7, <1>8, <1>9, <1>10, <1>11 DEF MInv, Flies

\* A task that goes on.
LEMMA TaskGoesOn ==
    ASSUME MInv, NEW f \in Flights, NEW p, TaskMoves(f, p), failed' = failed,
           p \in Early => phase[f] \in Early,
           IF p = "over" THEN inflight' = inflight \ {f} ELSE inflight' = inflight
    PROVE  /\ Flies' /\ Blameless'
           /\ claimed' = claimed => Claims'
  <1>1. /\ \A g \in Flights : Awaited(g)'
        /\ phase'[f] = p /\ \A g \in Flights : g # f => phase'[g] = phase[g]
        /\ UNCHANGED <<cancelled, expired, at, stopped, pending, next, queue>>
        /\ \A g \in Flights : phase[g] \notin {"none", "queued", "claim"}
                                 => phase'[g] \notin {"none", "queued", "claim"}
        /\ p \notin {"none", "withdrawn"}
    <2>1. p \notin {"none", "withdrawn"}
      BY DEF TaskMoves
    <2> QED BY <2>1, TaskCore
  <1>2. ASSUME NEW g \in Flights PROVE Course(g)'
    <2>1. Course(g)
      BY DEF MInv, Flies
    <2>2. CASE g = f
      BY <1>1, <2>1, <2>2 DEF Course, Early
    <2>3. CASE g # f
      BY <1>1, <2>1, <2>3 DEF Course
    <2> QED BY <2>2, <2>3
  <1>3. Blameless'
    BY <1>1, BlameStep DEF MInv, CallerStops
  <1>4. claimed' = claimed => Claims'
    BY <1>1, ClaimsFrame DEF MInv
  <1> QED BY <1>1, <1>2, <1>3, <1>4 DEF Flies

\* A flight that claims its extent: the claims of its request stay within its parts.
LEMMA ClaimStep ==
    ASSUME MInv, NEW f \in Flights, phase[f] = "claim",
           claimed' = [claimed EXCEPT ![f[1]] = Claim(f[1], Size(f))],
           phase'[f] \notin {"none", "queued", "claim"},
           \A g \in Flights : g # f => phase'[g] = phase[g]
    PROVE  /\ Claims' /\ claimed' \in [Requests -> Nat]
           /\ Claim(f[1], Size(f)) > MaxRequest => HasReason(f[1])
  <1> DEFINE r == f[1]
             i == f[2]
             old == Past(r)
             new == Past(r)'
             D == DOMAIN Parts[r]
  <1>1. r \in Requests /\ i \in D /\ f = <<r, i>>
    BY FlightFacts
  <1>2. Size(f) \in Nat /\ Size(f) = Bytes[Parts[r][i]]
    BY SizeFacts
  <1>3. claimed \in [Requests -> Nat] /\ claimed[r] <= SumOver(PartSizes(r), old)
    BY <1>1 DEF MInv, Types, Claims
  <1>4. claimed'[r] = claimed[r] + Size(f) /\ claimed' \in [Requests -> Nat]
    BY <1>1, <1>2, <1>3 DEF Claim
  <1>5. i \notin old /\ i \in new /\ new \ {i} = old /\ new \in SUBSET D /\ old \in SUBSET D
    <2>1. \A j \in D : j # i => <<r, j>> \in Flights /\ <<r, j>> # f
      BY <1>1, FlightFacts
    <2>2. \A j \in D : j # i => phase'[<<r, j>>] = phase[<<r, j>>]
      BY <2>1
    <2>3. phase[<<r, i>>] = "claim" /\ phase'[<<r, i>>] \notin {"none", "queued", "claim"}
      BY <1>1
    <2>4. ASSUME NEW j \in D PROVE j \in new <=> (j = i \/ j \in old)
      BY <2>2, <2>3 DEF Past
    <2>5. new \in SUBSET D /\ old \in SUBSET D /\ i \notin old
      BY <2>3 DEF Past
    <2> HIDE DEF new, old
    <2> QED BY <1>1, <2>4, <2>5
  <1> HIDE DEF new, old
  <1>6. /\ SumOver(PartSizes(r), new) = Bytes[Parts[r][i]] + SumOver(PartSizes(r), new \ {i})
        /\ SumOver(PartSizes(r), new) \in Nat
    BY <1>1, <1>5, PartSums
  <1>7. SumOver(PartSizes(r), old) \in Nat
    BY <1>1, <1>5, PartSums
  <1>8. SumOver(PartSizes(r), new \ {i}) = SumOver(PartSizes(r), old)
    BY <1>5
  <1>9. claimed'[r] <= SumOver(PartSizes(r), new) /\ claimed'[r] \in Nat
    BY <1>1, <1>2, <1>3, <1>4, <1>6, <1>7, <1>8
  <1>10. Claims'
    <2> SUFFICES ASSUME NEW s \in Requests
                 PROVE  claimed'[s] <= SumOver(PartSizes(s), Past(s)')
      BY DEF Claims, PartSizes
    <2>1. CASE s = r
      BY <1>9, <2>1 DEF new
    <2>2. CASE s # r
      <3>1. \A j \in DOMAIN Parts[s] : phase'[<<s, j>>] = phase[<<s, j>>]
        BY <2>2, FlightFacts
      <3>2. Past(s)' = Past(s)
        BY <3>1 DEF Past
      <3>3. claimed'[s] = claimed[s]
        BY <1>1, <1>3, <2>2
      <3>4. claimed[s] <= SumOver(PartSizes(s), Past(s))
        BY DEF MInv, Claims
      <3> QED BY <3>2, <3>3, <3>4
    <2> QED BY <2>1, <2>2
  <1>11. Claim(r, Size(f)) > MaxRequest => HasReason(r)
    <2>1. /\ SumOver(PartSizes(r), new) <= SumOver(PartSizes(r), D)
          /\ SumOver(PartSizes(r), D) \in Nat
      BY <1>1, <1>5, PartSums
    <2>2. PromptBytes(r) = SumOver(PartSizes(r), D)
      BY DEF PromptBytes, SumOver
    <2>3. Claim(r, Size(f)) = claimed'[r]
      BY <1>4 DEF Claim
    <2>4. Claim(r, Size(f)) > MaxRequest => PromptBytes(r) > MaxRequest
      BY <1>6, <1>9, <2>1, <2>2, <2>3, MediaAssumption
    <2> QED BY <2>4 DEF HasReason
  <1> QED BY <1>4, <1>10, <1>11

LEMMA DecodeAndClaimStep ==
    ASSUME MInv, NEW f \in Flights, DecodeAndClaim(f)
    PROVE  MInv'
  <1>1. phase[f] = "claim" /\ phase \in [Flights -> Phases]
    BY DEF DecodeAndClaim, MInv, Types
  <1>2. CASE WorkerStops(f[1]) \/ Item(f) \in Broken
    <2>1. BuildFails(f) /\ claimed' = claimed
      BY <1>2 DEF DecodeAndClaim
    <2>2. stopped[f[1]] \/ HasReason(f[1])
      <3>1. CASE WorkerStops(f[1])
        BY <3>1 DEF WorkerStops, HasReason, CallerStops
      <3>2. CASE Item(f) \in Broken
        BY <3>2, FlightFacts DEF HasReason, Item
      <3> QED BY <1>2, <3>1, <3>2
    <2>3. Claims'
      BY <1>1, <2>1, ClaimsFrame DEF MInv, BuildFails
    <2>4. claimed' \in [Requests -> Nat]
      BY <2>1 DEF MInv, Types
    <2> QED BY <1>1, <2>1, <2>2, <2>3, <2>4, BuildFailsStep
  <1>3. CASE ~(WorkerStops(f[1]) \/ Item(f) \in Broken) /\ Claim(f[1], Size(f)) > MaxRequest
    <2>1. BuildFails(f) /\ claimed' = [claimed EXCEPT ![f[1]] = Claim(f[1], Size(f))]
      BY <1>3 DEF DecodeAndClaim
    <2>2. phase'[f] = "publish" /\ \A g \in Flights : g # f => phase'[g] = phase[g]
      BY <1>1, <2>1 DEF BuildFails
    <2>3. Claims' /\ claimed' \in [Requests -> Nat] /\ HasReason(f[1])
      BY <1>1, <1>3, <2>1, <2>2, ClaimStep
    <2> QED BY <1>1, <2>1, <2>3, BuildFailsStep
  <1>4. CASE ~(WorkerStops(f[1]) \/ Item(f) \in Broken) /\ ~(Claim(f[1], Size(f)) > MaxRequest)
    <2>1. /\ phase' = [phase EXCEPT ![f] = "alloc"]
          /\ claimed' = [claimed EXCEPT ![f[1]] = Claim(f[1], Size(f))]
          /\ UNCHANGED <<callVars, requestVars, cacheVars, alive, failed, queue>>
      BY <1>4 DEF DecodeAndClaim
    <2>2. UNCHANGED <<ready, retained, inflight, alive, failed, queue>>
      BY <2>1 DEF cacheVars
    <2>3. TaskMoves(f, "alloc")
      BY <1>1, <2>1, <2>2 DEF TaskMoves, Unfinished, Early
    <2>4. /\ Walks' /\ Queued' /\ phase' \in [Flights -> Phases] /\ phase'[f] = "alloc"
          /\ \A g \in Flights : g # f => phase'[g] = phase[g]
          /\ UNCHANGED <<cancelled, expired, at, stopped, pending, next, queue>>
      BY <2>3, TaskCore
    <2>5. Flies' /\ Blameless'
      BY <1>1, <2>2, <2>3, TaskGoesOn DEF Early
    <2>6. Claims' /\ claimed' \in [Requests -> Nat]
      BY <1>1, <2>1, <2>4, ClaimStep
    <2>7. Types'
      BY <2>2, <2>4, <2>6 DEF MInv, Types
    <2>8. CacheExact'
      BY <2>2 DEF MInv, CacheExact
    <2>9. Unbuilt'
      <3>1. \A g \in inflight : g \in Flights
        BY DEF MInv, Types
      <3> QED BY <1>1, <2>2, <2>4, <3>1 DEF MInv, Unbuilt, Early
    <2>10. LiveBounded' /\ BuiltAlive'
      <3>1. \A g \in Flights : /\ Done(g)' => Done(g)
                               /\ phase'[g] \in Built => phase[g] \in Built
        BY <2>4 DEF Done, Built
      <3>2. ReadsOnly(alive)
        BY <2>2, <2>4, <3>1, ReadsFrame DEF MInv, LiveBounded
      <3> QED BY <2>2, <2>4, <3>2, AliveFrame DEF MInv, Types
    <2> QED BY <2>4, <2>5, <2>6, <2>7, <2>8, <2>9, <2>10 DEF MInv
  <1> QED BY <1>2, <1>3, <1>4

LEMMA AllocateStep ==
    ASSUME MInv, NEW f \in Flights, Allocate(f)
    PROVE  MInv'
  <1>1. phase[f] = "alloc" /\ claimed' = claimed /\ phase \in [Flights -> Phases]
    BY DEF Allocate, MInv, Types
  <1>2. CASE WorkerStops(f[1])
    <2>1. BuildFails(f)
      BY <1>2 DEF Allocate
    <2>2. stopped[f[1]] \/ HasReason(f[1])
      BY <1>2 DEF WorkerStops, HasReason, CallerStops
    <2>3. Claims'
      BY <1>1, <2>1, ClaimsFrame DEF MInv, BuildFails
    <2>4. claimed' \in [Requests -> Nat]
      BY <1>1 DEF MInv, Types
    <2> QED BY <1>1, <2>1, <2>2, <2>3, <2>4, BuildFailsStep
  <1>3. CASE ~WorkerStops(f[1])
    <2> DEFINE p == IF TryReserve(f) THEN "build" ELSE "denied"
               new == IF TryReserve(f) THEN {f} ELSE {}
    <2>1. /\ phase' = [phase EXCEPT ![f] = p]
          /\ UNCHANGED <<callVars, requestVars, cacheVars, failed, queue>>
          /\ Reclaim(new)
      BY <1>3 DEF Allocate
    <2>2. UNCHANGED <<ready, retained, inflight, failed, queue>>
      BY <2>1 DEF cacheVars
    <2>3. TaskMoves(f, p)
      BY <1>1, <2>1, <2>2 DEF TaskMoves, Unfinished, Early
    <2>4. /\ Walks' /\ Queued' /\ phase' \in [Flights -> Phases] /\ phase'[f] = p
          /\ \A g \in Flights : g # f => phase'[g] = phase[g]
          /\ UNCHANGED <<cancelled, expired, at, stopped, pending, next, queue>>
          /\ pending' \in [Requests -> Seq(Holds)]
      BY <2>3, TaskCore
    <2>5. Flies' /\ Blameless' /\ Claims'
      BY <1>1, <2>2, <2>3, TaskGoesOn DEF Early
    <2>6. CacheExact'
      BY <2>2 DEF MInv, CacheExact
    <2>7. Unbuilt'
      <3>1. \A g \in inflight : g \in Flights
        BY DEF MInv, Types
      <3> QED BY <1>1, <2>2, <2>4, <3>1 DEF MInv, Unbuilt, Early
    <2>8. /\ LiveBounded' /\ BuiltAlive'
          /\ alive' \in SUBSET Flights /\ IsFiniteSet(alive')
      <3>1. p \in {"build", "denied"} /\ (p = "build" => f \in new)
        OBVIOUS
      <3>2. IsFiniteSet(new) /\ new \in SUBSET Flights
        BY FS_EmptySet, FS_Singleton
      <3>3. Total(alive \cup new) <= Limit
        <4>1. CASE TryReserve(f)
          <5>1. new = {f}
            BY <4>1
          <5>2. Total(alive \cup {f}) <= Total(alive) + Size(f)
            BY TotalGains DEF MInv, Types
          <5>3. Total(alive) \in Nat /\ Total(alive \cup {f}) \in Nat
            <6>1. IsFiniteSet(alive \cup {f}) /\ alive \cup {f} \in SUBSET Flights
              BY TotalGains DEF MInv, Types
            <6> QED BY <6>1, TotalFacts DEF MInv, Types
          <5>4. Total(alive) + Size(f) <= Limit /\ Size(f) \in Nat /\ Limit \in Nat
            BY <4>1, SizeFacts, MediaAssumption DEF TryReserve
          <5>5. Total(alive \cup {f}) <= Limit
            BY <5>2, <5>3, <5>4
          <5> QED BY <5>1, <5>5, Zenon
        <4>2. CASE ~TryReserve(f)
          <5>1. alive \cup new = alive
            BY <4>2
          <5>2. Total(alive) <= Limit
            BY DEF MInv, LiveBounded
          <5> HIDE DEF new
          <5> QED BY <5>1, <5>2
        <4> QED BY <4>1, <4>2
      <3> HIDE DEF p, new
      <3>4. \A g \in Flights : /\ Done(g)' => Done(g)
                               /\ phase'[g] \in Built => phase[g] \in Built \/ g \in new
        BY <2>4, <3>1 DEF Done, Built
      <3>5. ReadsOnly(alive \cup new)
        <4>1. alive \subseteq alive \cup new /\ Entries(ready') \subseteq alive \cup new
          BY <2>2 DEF MInv, LiveBounded
        <4> QED BY <2>2, <2>4, <3>4, <4>1, ReadsFrame DEF MInv
      <3> QED BY <2>1, <2>4, <3>2, <3>3, <3>5, ReclaimStep DEF MInv
    <2>9. Types'
      BY <1>1, <2>2, <2>4, <2>8 DEF MInv, Types
    <2> QED BY <2>4, <2>5, <2>6, <2>7, <2>8, <2>9 DEF MInv
  <1> QED BY <1>2, <1>3

LEMMA EvictOrWaitStep ==
    ASSUME MInv, NEW f \in Flights, EvictOrWait(f)
    PROVE  MInv'
  <1>1. /\ phase[f] = "denied" /\ claimed' = claimed
        /\ phase' = [phase EXCEPT ![f] = "alloc"]
        /\ UNCHANGED <<callVars, requestVars, inflight, failed, queue, claimed>>
        /\ Reclaim({})
    BY DEF EvictOrWait
  <1>2. /\ ready \in Seq(Flights) /\ Once(ready)
        /\ retained = Total(Entries(ready)) /\ retained <= CacheCapacity
    BY DEF MInv, Types, CacheExact, Once
  <1>3. TaskMoves(f, "alloc")
    BY <1>1 DEF TaskMoves, Unfinished, Early
  <1>4. /\ Walks' /\ Queued' /\ phase' \in [Flights -> Phases] /\ phase'[f] = "alloc"
        /\ \A g \in Flights : g # f => phase'[g] = phase[g]
        /\ UNCHANGED <<cancelled, expired, at, stopped, pending, next, queue>>
        /\ pending' \in [Requests -> Seq(Holds)]
    BY <1>3, TaskCore
  <1>5. Flies' /\ Blameless' /\ Claims'
    BY <1>1, <1>3, TaskGoesOn DEF Early
  <1>6. /\ ready' \in Seq(Flights) /\ Once(ready') /\ Entries(ready') \in SUBSET Entries(ready)
        /\ retained' = Total(Entries(ready')) /\ retained' <= CacheCapacity
    <2>1. CASE ready = <<>>
      BY <1>2, <2>1 DEF EvictOrWait
    <2>2. CASE ready # <<>>
      <3> DEFINE k == Len(ready) - 1
      <3>1. Len(ready) \in Nat /\ Len(ready) > 0
        BY <1>2, <2>2, LenProperties, EmptySeq
      <3>2. k \in 0 .. Len(ready) /\ {ready[Len(ready)]} = Behind(ready, k)
        <4>1. k + 1 .. Len(ready) = {Len(ready)} /\ k \in 0 .. Len(ready)
          BY <3>1
        <4> QED BY <4>1 DEF Behind
      <3>3. ready' = Front(ready, k) /\ retained' = retained - Total({ready[Len(ready)]})
        BY <2>2 DEF EvictOrWait, Front, EvictedBytes
      <3>4. retained' = retained - Total(Behind(ready, k))
        BY <3>2, <3>3
      <3> HIDE DEF k
      <3>5. /\ Total(Entries(ready)) = Total(Behind(ready, k)) + Total(Entries(Front(ready, k)))
            /\ Total(Behind(ready, k)) \in Nat /\ Total(Entries(Front(ready, k))) \in Nat
        BY <1>2, <3>2, BytesOfFront
      <3>6. /\ ready' \in Seq(Flights) /\ Once(ready')
            /\ Entries(ready') \in SUBSET Entries(ready)
        BY <1>2, <3>2, <3>3, FrontFacts, FrontEntries
      <3>7. retained' = Total(Entries(Front(ready, k))) /\ retained' <= CacheCapacity
        BY <1>2, <3>4, <3>5, MediaAssumption
      <3> QED BY <3>3, <3>6, <3>7
    <2> QED BY <2>1, <2>2
  <1>7. CacheExact'
    BY <1>1, <1>6 DEF MInv, CacheExact, Once
  <1>8. Unbuilt'
    <2>1. \A g \in inflight : g \in Flights
      BY DEF MInv, Types
    <2>2. \A i \in DOMAIN ready' : \E j \in DOMAIN ready : ready'[i] = ready[j]
      BY <1>6 DEF Entries
    <2> QED BY <1>1, <1>4, <2>1, <2>2 DEF MInv, Unbuilt, Early
  <1>9. /\ LiveBounded' /\ BuiltAlive'
        /\ alive' \in SUBSET Flights /\ IsFiniteSet(alive')
    <2>1. \A g \in Flights : /\ Done(g)' => Done(g)
                             /\ phase'[g] \in Built => phase[g] \in Built
      BY <1>4 DEF Done, Built
    <2>2. ReadsOnly(alive)
      <3>1. Entries(ready') \subseteq alive
        BY <1>6 DEF MInv, LiveBounded
      <3> QED BY <1>1, <1>4, <2>1, <3>1, ReadsFrame DEF MInv
    <2> QED BY <1>1, <1>4, <2>2, ReclaimNone DEF MInv
  <1>10. Types'
    BY <1>1, <1>4, <1>6, <1>9 DEF MInv, Types
  <1> QED BY <1>4, <1>5, <1>7, <1>8, <1>9, <1>10 DEF MInv

\* Eviction makes room for a payload that fits the cache at all.
LEMMA RoomIsMade ==
    ASSUME MInv, NEW bytes \in Nat, bytes <= CacheCapacity
    PROVE  LET kept == Kept(bytes) IN
           /\ kept \in 0 .. Len(ready)
           /\ retained - EvictedBytes(Behind(ready, kept)) = Total(Entries(Front(ready, kept)))
           /\ Total(Entries(Front(ready, kept))) <= CacheCapacity - bytes
           /\ Total(Entries(Front(ready, kept))) \in Nat
  <1> DEFINE room == {n \in 1 .. Len(ready) :
                         retained - EvictedBytes({ready[i] : i \in n + 1 .. Len(ready)})
                             <= CacheCapacity - bytes}
             T == {0} \cup room
             kept == Max(T)
  <1>1. Kept(bytes) = kept
    BY DEF Kept
  <1>2. /\ ready \in Seq(Flights) /\ Once(ready) /\ Len(ready) \in Nat
        /\ retained = Total(Entries(ready))
    BY LenProperties DEF MInv, Types, CacheExact, Once
  <1>3. T \in SUBSET (0 .. Len(ready)) /\ T # {}
    BY <1>2
  <1>4. kept \in T /\ kept \in 0 .. Len(ready)
    <2> HIDE DEF T
    <2> QED BY <1>2, <1>3, LargestNumber
  <1>5. kept \in room => retained - EvictedBytes(Behind(ready, kept)) <= CacheCapacity - bytes
    BY DEF Behind
  <1>6. kept \in room \/ kept = 0
    BY <1>4
  <1> HIDE DEF kept, T, room
  <1>7. /\ Total(Entries(ready)) = Total(Behind(ready, kept)) + Total(Entries(Front(ready, kept)))
        /\ Total(Behind(ready, kept)) \in Nat /\ Total(Entries(Front(ready, kept))) \in Nat
    BY <1>2, <1>4, BytesOfFront
  <1>8. retained - EvictedBytes(Behind(ready, kept)) = Total(Entries(Front(ready, kept)))
    BY <1>2, <1>7 DEF EvictedBytes
  <1>9. CASE kept \in room
    BY <1>1, <1>4, <1>5, <1>7, <1>8, <1>9
  <1>10. CASE kept = 0
    <2>1. DOMAIN Front(ready, kept) = {}
      BY <1>2, <1>4, <1>10, FrontFacts
    <2>2. Entries(Front(ready, kept)) = {}
      BY <2>1 DEF Entries
    <2>3. Total({}) = 0
      BY TotalFacts, FS_EmptySet
    <2>4. Total(Entries(Front(ready, kept))) = 0
      BY <2>2, <2>3, Zenon
    <2> QED BY <1>1, <1>4, <1>7, <1>8, <2>4, MediaAssumption
  <1> QED BY <1>6, <1>9, <1>10

\* What the payload that was built does to the cache.
LEMMA CacheGains ==
    ASSUME MInv, NEW f \in Flights, Build(f), ~WorkerStops(f[1])
    PROVE  /\ ready' \in Seq(Flights) /\ Once(ready')
           /\ Entries(ready') \in SUBSET (Entries(ready) \cup {f})
           /\ retained' = Total(Entries(ready')) /\ retained' <= CacheCapacity
  <1>1. phase[f] = "build"
    BY DEF Build
  <1>2. /\ ready \in Seq(Flights) /\ Once(ready) /\ Len(ready) \in Nat
        /\ retained = Total(Entries(ready)) /\ retained <= CacheCapacity
    BY LenProperties DEF MInv, Types, CacheExact, Once
  <1>3. \A g \in Entries(ready) : Item(g) # Item(f)
    <2>1. f \in inflight
      BY <1>1 DEF MInv, Flies, Course, Early
    <2> QED BY <1>1, <2>1 DEF MInv, Unbuilt, Early, Entries
  <1>4. Size(f) \in Nat
    BY SizeFacts
  <1>5. CASE Size(f) > CacheCapacity
    <2>1. ready' = ready /\ retained' = retained
      BY <1>5 DEF Build
    <2> QED BY <1>2, <2>1
  <1>6. CASE ~(Size(f) > CacheCapacity)
    <2> DEFINE kept == Kept(Size(f))
               left == retained - EvictedBytes({ready[i] : i \in kept + 1 .. Len(ready)})
               s == Front(ready, kept)
    <2>1. Size(f) <= CacheCapacity /\ CacheCapacity \in Nat
      BY <1>4, <1>6, MediaAssumption
    <2>2. /\ kept \in 0 .. Len(ready)
          /\ left = Total(Entries(s)) /\ Total(Entries(s)) <= CacheCapacity - Size(f)
          /\ Total(Entries(s)) \in Nat
      BY <1>4, <2>1, RoomIsMade DEF Behind
    <2>3. ~(left > CacheCapacity - Size(f))
      BY <1>4, <2>1, <2>2
    <2>4. ready' = Pushed(f, s) /\ retained' = left + Size(f)
      BY <1>6, <2>3 DEF Build, Pushed, Front
    <2> HIDE DEF kept, left
    <2>5. s \in Seq(Flights) /\ Entries(s) \in SUBSET Entries(ready) /\ Once(s)
      BY <1>2, <2>2, FrontFacts, FrontEntries
    <2> HIDE DEF s
    <2>6. ready' \in Seq(Flights) /\ Entries(ready') = Entries(s) \cup {f} /\ Once(ready')
      <3>1. \A g \in Entries(s) : Item(g) # Item(f)
        BY <1>3, <2>5
      <3> QED BY <2>4, <2>5, <3>1, PushedFacts, PushedEntries
    <2>7. Total(Entries(s) \cup {f}) = Total(Entries(s)) + Size(f)
      <3>1. f \notin Entries(s)
        BY <1>3, <2>5
      <3>2. IsFiniteSet(Entries(s)) /\ Entries(s) \in SUBSET Flights
        BY <2>5, EntriesFacts
      <3> QED BY <3>1, <3>2, TotalGains
    <2>8. Total(Entries(ready')) = Total(Entries(s)) + Size(f)
      BY <2>6, <2>7
    <2>9. retained' = Total(Entries(ready')) /\ retained' <= CacheCapacity
      BY <1>4, <2>1, <2>2, <2>4, <2>8
    <2> QED BY <2>5, <2>6, <2>9
  <1> QED BY <1>5, <1>6

LEMMA BuildStep ==
    ASSUME MInv, NEW f \in Flights, Build(f)
    PROVE  MInv'
  <1>1. phase[f] = "build" /\ claimed' = claimed /\ phase \in [Flights -> Phases]
    BY DEF Build, MInv, Types
  <1>2. CASE WorkerStops(f[1])
    <2>1. BuildFails(f)
      BY <1>2 DEF Build
    <2>2. stopped[f[1]] \/ HasReason(f[1])
      BY <1>2 DEF WorkerStops, HasReason, CallerStops
    <2>3. Claims'
      BY <1>1, <2>1, ClaimsFrame DEF MInv, BuildFails
    <2>4. claimed' \in [Requests -> Nat]
      BY <1>1 DEF MInv, Types
    <2> QED BY <1>1, <2>1, <2>2, <2>3, <2>4, BuildFailsStep
  <1>3. CASE ~WorkerStops(f[1])
    <2>1. /\ phase' = [phase EXCEPT ![f] = "publish"]
          /\ UNCHANGED <<callVars, requestVars, inflight, failed, queue>>
          /\ Reclaim({})
      BY <1>3 DEF Build
    <2>2. /\ ready' \in Seq(Flights) /\ Once(ready')
          /\ Entries(ready') \in SUBSET (Entries(ready) \cup {f})
          /\ retained' = Total(Entries(ready')) /\ retained' <= CacheCapacity
      BY <1>3, CacheGains
    <2>3. TaskMoves(f, "publish")
      BY <1>1, <2>1 DEF TaskMoves, Unfinished, Early
    <2>4. /\ Walks' /\ Queued' /\ phase' \in [Flights -> Phases] /\ phase'[f] = "publish"
          /\ \A g \in Flights : g # f => phase'[g] = phase[g]
          /\ UNCHANGED <<cancelled, expired, at, stopped, pending, next, queue>>
          /\ pending' \in [Requests -> Seq(Holds)]
      BY <2>3, TaskCore
    <2>5. Flies' /\ Blameless' /\ Claims'
      BY <1>1, <2>1, <2>3, TaskGoesOn DEF Early
    <2>6. CacheExact'
      BY <2>1, <2>2 DEF MInv, CacheExact, Once
    <2>7. f \in inflight /\ ~failed[f] /\ f \in alive
      BY <1>1 DEF MInv, Flies, Course, Early, BuiltAlive
    <2>8. Unbuilt'
      <3> SUFFICES ASSUME NEW g \in inflight, phase'[g] \in Early \cup {"none"},
                          NEW i \in DOMAIN ready'
                   PROVE  Item(ready'[i]) # Item(g)
        BY <2>1 DEF Unbuilt
      <3>1. g \in Flights /\ g # f /\ phase[g] \in Early \cup {"none"}
        BY <2>4 DEF MInv, Types, Early
      <3>2. Item(f) # Item(g)
        BY <2>7, <3>1 DEF MInv, CacheExact
      <3>3. ready'[i] = f \/ \E j \in DOMAIN ready : ready'[i] = ready[j]
        BY <2>2 DEF Entries
      <3> QED BY <3>1, <3>2, <3>3 DEF MInv, Unbuilt
    <2>9. /\ LiveBounded' /\ BuiltAlive'
          /\ alive' \in SUBSET Flights /\ IsFiniteSet(alive')
      <3>1. \A g \in Flights : /\ Done(g)' => Done(g)
                               /\ phase'[g] \in Built => phase[g] \in Built
        BY <1>1, <2>4 DEF Done, Built
      <3>2. ReadsOnly(alive)
        <4>1. Entries(ready') \subseteq alive
          BY <2>2, <2>7 DEF MInv, LiveBounded
        <4> QED BY <2>1, <2>4, <3>1, <4>1, ReadsFrame DEF MInv
      <3> QED BY <2>1, <2>4, <3>2, ReclaimNone DEF MInv
    <2>10. Types'
      BY <1>1, <2>1, <2>2, <2>4, <2>9 DEF MInv, Types
    <2> QED BY <2>4, <2>5, <2>6, <2>8, <2>9, <2>10 DEF MInv
  <1> QED BY <1>2, <1>3

LEMMA PublishStep ==
    ASSUME MInv, NEW f \in Flights, Publish(f)
    PROVE  MInv'
  <1>1. /\ phase[f] = "publish" /\ phase' = [phase EXCEPT ![f] = "done"]
        /\ UNCHANGED <<callVars, requestVars, cacheVars, alive, failed, queue, claimed>>
    BY DEF Publish
  <1>2. UNCHANGED <<ready, retained, inflight, alive, failed, queue, claimed>>
    BY <1>1 DEF cacheVars
  <1>3. TaskMoves(f, "done")
    BY <1>1, <1>2 DEF TaskMoves, Unfinished, Early
  <1>4. /\ Walks' /\ Queued' /\ phase' \in [Flights -> Phases] /\ phase'[f] = "done"
        /\ \A g \in Flights : g # f => phase'[g] = phase[g]
        /\ UNCHANGED <<cancelled, expired, at, stopped, pending, next, queue>>
    BY <1>3, TaskCore
  <1>5. Flies' /\ Blameless' /\ Claims'
    BY <1>1, <1>2, <1>3, TaskGoesOn DEF Early
  <1>6. CacheExact'
    BY <1>2 DEF MInv, CacheExact
  <1>7. Unbuilt'
    <2>1. \A g \in inflight : g \in Flights
      BY DEF MInv, Types
    <2> QED BY <1>2, <1>4, <2>1 DEF MInv, Unbuilt, Early
  <1>8. LiveBounded' /\ BuiltAlive'
    <2>1. ~failed[f] => f \in alive
      BY <1>1 DEF MInv, BuiltAlive
    <2>2. \A g \in Flights : /\ ~failed'[g] /\ Done(g)' => Done(g) \/ g \in alive
                             /\ phase'[g] \in Built => phase[g] \in Built
      BY <1>1, <1>2, <1>4, <2>1 DEF Done, Built
    <2>3. ReadsOnly(alive)
      BY <1>2, <1>4, <2>2, ReadsFrame DEF MInv, LiveBounded
    <2> QED BY <1>2, <1>4, <2>3, AliveFrame DEF MInv, Types
  <1>9. Types'
    BY <1>2, <1>4 DEF MInv, Types
  <1> QED BY <1>4, <1>5, <1>6, <1>7, <1>8, <1>9 DEF MInv

LEMMA EndTaskStep ==
    ASSUME MInv, NEW f \in Flights, EndTask(f)
    PROVE  MInv'
  <1>1. /\ phase[f] = "done" /\ phase' = [phase EXCEPT ![f] = "over"]
        /\ inflight' = inflight \ {f}
        /\ UNCHANGED <<callVars, requestVars, ready, retained, failed, queue, claimed>>
        /\ Reclaim({})
    BY DEF EndTask
  <1>2. TaskMoves(f, "over")
    BY <1>1 DEF TaskMoves, Unfinished, Early
  <1>3. /\ Walks' /\ Queued' /\ phase' \in [Flights -> Phases] /\ phase'[f] = "over"
        /\ \A g \in Flights : g # f => phase'[g] = phase[g]
        /\ UNCHANGED <<cancelled, expired, at, stopped, pending, next, queue>>
        /\ pending' \in [Requests -> Seq(Holds)]
    BY <1>2, TaskCore
  <1>4. Flies' /\ Blameless' /\ Claims'
    BY <1>1, <1>2, TaskGoesOn DEF Early
  <1>5. CacheExact'
    BY <1>1 DEF MInv, CacheExact
  <1>6. Unbuilt'
    <2>1. \A g \in inflight' : g \in inflight /\ g \in Flights /\ g # f
      BY <1>1 DEF MInv, Types
    <2> QED BY <1>1, <1>3, <2>1 DEF MInv, Unbuilt
  <1>7. /\ LiveBounded' /\ BuiltAlive'
        /\ alive' \in SUBSET Flights /\ IsFiniteSet(alive')
    <2>1. \A g \in Flights : /\ Done(g)' => Done(g)
                             /\ phase'[g] \in Built => phase[g] \in Built
      BY <1>1, <1>3 DEF Done, Built
    <2>2. ReadsOnly(alive)
      BY <1>1, <1>3, <2>1, ReadsFrame DEF MInv, LiveBounded
    <2> QED BY <1>1, <1>3, <2>2, ReclaimNone DEF MInv
  <1>8. Types'
    BY <1>1, <1>3, <1>7 DEF MInv, Types
  <1> QED BY <1>3, <1>4, <1>5, <1>6, <1>7, <1>8 DEF MInv

-----------------------------------------------------------------------------
(***************************************************************************)
(* The invariant and what follows from it.                                 *)
(***************************************************************************)

\* Every step of a request, of the pool and of a task keeps the invariant.
LEMMA NextStep ==
    ASSUME MInv, [Next]_vars
    PROVE  MInv'
  <1>1. ASSUME NEW r \in Requests, Process(r)
        PROVE  MInv'
    <2>1. CASE AcquireRequest(r) \/ GiveUp(r)
      BY <2>1, AcquireRequestStep, GiveUpStep
    <2>2. CASE StopBeginning(r) \/ BeginPrepare(r)
      BY <2>2, StopBeginningStep, BeginPrepareStep
    <2>3. CASE Enqueue(r) \/ SubmitFails(r) \/ Withdraw(r)
      BY <2>3, EnqueueStep, SubmitFailsStep, WithdrawStep
    <2>4. CASE AwaitStops(r) \/ Await(r)
      BY <2>4, AwaitStopsStep, AwaitStep
    <2>5. CASE EndMedia(r) \/ Encode(r)
      BY <2>5, EndMediaStep, EncodeStep
    <2> QED BY <1>1, <2>1, <2>2, <2>3, <2>4, <2>5 DEF Process
  <1>2. ASSUME NEW r \in Requests, Consume(r) \/ Cancel(r) \/ Expire(r)
        PROVE  MInv'
    BY <1>2, ConsumeStep, CancelStep
  <1>3. CASE Take
    BY <1>3, TakeStep
  <1>4. ASSUME NEW f \in Flights, Task(f)
        PROVE  MInv'
    <2>1. CASE DecodeAndClaim(f) \/ Allocate(f) \/ EvictOrWait(f)
      BY <2>1, DecodeAndClaimStep, AllocateStep, EvictOrWaitStep
    <2>2. CASE Build(f) \/ Publish(f) \/ EndTask(f)
      BY <2>2, BuildStep, PublishStep, EndTaskStep
    <2> QED BY <1>4, <2>1, <2>2 DEF Task
  <1>5. CASE UNCHANGED vars
    <2>1. /\ UNCHANGED <<requestVars, cacheVars, taskVars, alive>>
          /\ cancelled' = cancelled /\ expired' = expired
      BY <1>5 DEF vars, callVars
    <2>2. cancelled' \in [Requests -> BOOLEAN] /\ expired' \in [Requests -> BOOLEAN]
      BY <2>1 DEF MInv, Types
    <2>3. \A r \in Requests : CallerStops(r) => CallerStops(r)'
      BY <2>1 DEF CallerStops
    <2> QED BY <2>1, <2>2, <2>3, ReasonStep
  <1> QED BY <1>1, <1>2, <1>3, <1>4, <1>5 DEF Next

LEMMA Invariance == Spec => []MInv
  <1>1. MInv /\ [Next]_vars => MInv'
    BY NextStep
  <1> QED BY InitHolds, <1>1, PTL DEF Spec

\* A builder that is queued or runs belongs to a request that is still inside
\* Processor::process, for every number of requests, parts and threads: the budget,
\* the policy and the stop flag that it holds by reference are not destroyed, however
\* the request was cancelled or its other parts failed.
THEOREM FramesOutliveBuilders == Spec => []FrameOutlivesBuilder
  <1>1. MInv => FrameOutlivesBuilder
    BY DEF MInv, Flies, Awaited, Unfinished, Early, FrameOutlivesBuilder
  <1> QED BY Invariance, <1>1, PTL

\* The cache of MediaPreprocessCache is exact for every capacity and every order of
\* builds, hits, evictions and failures: one flight and one entry for an item, and
\* retained_bytes the sum of the entries, within the capacity.
THEOREM CacheIsExact == Spec => []CacheExact
  <1>1. MInv => CacheExact
    BY DEF MInv
  <1> QED BY Invariance, <1>1, PTL

\* The payloads that exist stay within live_capacity_bytes, and what the cache or a
\* request can read exists, whatever is evicted while it is read.
THEOREM LiveBytesBounded == Spec => []LiveBounded
  <1>1. MInv => LiveBounded
    BY DEF MInv
  <1> QED BY Invariance, <1>1, PTL

\* stop_preparation is set in a request only for a reason in its own prompt or call,
\* or in that of a request it is connected with by shared items: MediaCacheFlight::error
\* and the claims of a ConcurrentMediaBudget reach nobody else.
THEOREM FailuresAreIsolated == Spec => []Isolation
  <1>1. MInv => Isolation
    BY DEF MInv, Blameless, Isolation
  <1> QED BY Invariance, <1>1, PTL
=============================================================================
