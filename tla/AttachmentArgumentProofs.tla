---------------------- MODULE AttachmentArgumentProofs -----------------------
(***************************************************************************)
(* strsplit stays within its array, leaks nothing and returns the parts of *)
(* its text; the loop of set_attachment_points computes TcOf and XdpOf and *)
(* refuses two XDP modes; a cut argument adds no hook: for arguments of    *)
(* any length, any limit and any buffer.                                   *)
(***************************************************************************)
EXTENDS AttachmentArgument, FiniteSetTheorems, WellFoundedInduction, TLAPS

\* While the loop runs at most one XDP token is behind it, so every token
\* behind it is scanned.
Seen == 1..(i - 1)

LoopInv ==
    /\ i \in 1..(Len(attach_points) + 1)
    /\ tc_attach_points = {attach_points[j] : j \in Seen} \cap TcPoints
    /\ xdp_attach_point = {attach_points[j] : j \in Seen} \cap XdpModes
    /\ pc = "loop" =>
         /\ xdp_flags \in 0..1
         /\ xdp_flags = 0 => \A j \in Seen : attach_points[j] \notin XdpModes
         /\ xdp_flags = 1 => \E j \in Seen :
                               /\ attach_points[j] \in XdpModes
                               /\ \A k \in Seen : k # j => attach_points[k] \notin XdpModes
    /\ pc = "done" => /\ i = Len(attach_points) + 1
                      /\ \E j \in Nat : \A k \in Seen : k # j => attach_points[k] \notin XdpModes
    /\ pc = "refused" =>
         /\ i > 1
         /\ attach_points[i - 1] \in XdpModes
         /\ \E j \in 1..(i - 2) :
              /\ attach_points[j] \in XdpModes
              /\ \A k \in 1..(i - 2) : k # j => attach_points[k] \notin XdpModes

IInv == TypeOK /\ LoopInv

LEMMA SeqDomain == ASSUME NEW S, NEW seq \in Seq(S) PROVE DOMAIN seq = 1..Len(seq)
  OBVIOUS

LEMMA PartsAreTokens ==
  IInv => attach_points \in Seq(Tokens) /\ DOMAIN attach_points = 1..Len(attach_points)
<1>1. IInv => attach_points \in Seq(Tokens)
  BY Zenon DEF IInv, TypeOK
<1> QED
  BY <1>1, SeqDomain

LEMMA IInvInit == ArgumentInit => IInv
<1> SUFFICES ASSUME ArgumentInit PROVE IInv
  OBVIOUS
<1>1. attach_points = <<>> /\ Len(attach_points) = 0 /\ attach_points \in Seq(Tokens)
  BY DEF ArgumentInit
<1> QED
  BY <1>1 DEF ArgumentInit, IInv, TypeOK, LoopInv, Seen

\* Every step of the loop keeps the invariant.
LEMMA IInvNext == IInv /\ [Next]_vars => IInv'
<1> SUFFICES ASSUME IInv, [Next]_vars PROVE IInv'
  OBVIOUS
<1> USE DEF IInv, TypeOK, LoopInv
<1>0. attach_points \in Seq(Tokens)
  BY PartsAreTokens
<1>s. TcPoints \cap XdpModes = {} /\ Hooks = TcPoints \cup XdpModes
  BY DEF TcPoints, XdpModes, Hooks
<1>g. ASSUME pc = "loop", i <= Len(attach_points), i' = i + 1, attach_points' = attach_points
      PROVE  /\ Seen' = Seen \cup {i}
             /\ i \notin Seen
             /\ i' \in 1..(Len(attach_points') + 1)
  BY <1>0, <1>g DEF Seen
<1>1. CASE TcToken
  <2> USE <1>1 DEF TcToken
  <2>1. Seen' = Seen \cup {i} /\ i \notin Seen /\ i' \in 1..(Len(attach_points') + 1)
    BY <1>g
  <2>2. attach_points[i] \in TcPoints /\ attach_points[i] \notin XdpModes
    BY <1>s
  <2>3. TypeOK'
    OBVIOUS
  <2>4. /\ tc_attach_points' = {attach_points'[j] : j \in Seen'} \cap TcPoints
        /\ xdp_attach_point' = {attach_points'[j] : j \in Seen'} \cap XdpModes
    BY <2>1, <2>2
  <2>5. LoopInv'
    BY <2>1, <2>2, <2>4
  <2> QED
    BY <2>3, <2>5
<1>2. CASE XdpToken
  <2> USE <1>2 DEF XdpToken
  <2>1. Seen' = Seen \cup {i} /\ i \notin Seen /\ i' \in 1..(Len(attach_points') + 1)
    BY <1>g
  <2>2. attach_points[i] \in XdpModes /\ attach_points[i] \notin TcPoints
    BY <1>s
  <2>3. TypeOK'
    OBVIOUS
  <2>4. /\ tc_attach_points' = {attach_points'[j] : j \in Seen'} \cap TcPoints
        /\ xdp_attach_point' = {attach_points'[j] : j \in Seen'} \cap XdpModes
    BY <2>1, <2>2
  <2>5. CASE xdp_flags = 0
    BY <2>1, <2>2, <2>4, <2>5
  <2>6. CASE xdp_flags = 1
    <3>1. Seen = 1..(i' - 2) /\ i' > 1 /\ i' - 1 = i
      BY DEF Seen
    <3> QED
      BY <2>1, <2>2, <2>4, <2>6, <3>1
  <2> QED
    BY <2>3, <2>5, <2>6
<1>3. CASE InvalidToken
  <2> USE <1>3 DEF InvalidToken
  <2>1. Seen' = Seen \cup {i} /\ i \notin Seen /\ i' \in 1..(Len(attach_points') + 1)
    BY <1>g
  <2>2. attach_points[i] \notin XdpModes /\ attach_points[i] \notin TcPoints
    BY <1>s
  <2>3. TypeOK'
    OBVIOUS
  <2>4. /\ tc_attach_points' = {attach_points'[j] : j \in Seen'} \cap TcPoints
        /\ xdp_attach_point' = {attach_points'[j] : j \in Seen'} \cap XdpModes
    BY <2>1, <2>2
  <2>5. LoopInv'
    BY <2>1, <2>2, <2>4
  <2> QED
    BY <2>3, <2>5
<1>4. CASE Return
  <2> USE <1>4 DEF Return
  <2>1. Seen' = Seen /\ i' = Len(attach_points') + 1 /\ Seen \subseteq Nat
    BY <1>0 DEF Seen
  <2>2. \E j \in Nat : \A k \in Seen : k # j => attach_points[k] \notin XdpModes
    BY <2>1
  <2> QED
    BY <2>1, <2>2
<1>5. CASE UNCHANGED vars
  BY <1>5 DEF vars, Seen
<1> QED
  BY <1>1, <1>2, <1>3, <1>4, <1>5 DEF Next

LEMMA TokenOfToken == \A part : TokenOf(part) \in Tokens
  BY DEF TokenOf, Tokens

\* So does every other step of set_attachment_points.
LEMMA ArgumentIInvNext == IInv /\ [ArgumentNext]_argument => IInv'
<1> SUFFICES ASSUME IInv, [ArgumentNext]_argument PROVE IInv'
  OBVIOUS
<1>1. CASE UNCHANGED vars
  BY <1>1, IInvNext
<1>2. CASE NotSplit
  BY <1>2 DEF NotSplit, IInv, TypeOK, LoopInv, Seen
<1>3. CASE BeginLoop
  <2>1. attach_points' \in Seq(Tokens)
    BY <1>3, TokenOfToken DEF BeginLoop, TokensOf
  <2>2. i' = 1 /\ Seen' = {}
    BY <1>3 DEF BeginLoop, Reset, Seen
  <2> QED
    BY <1>3, <2>1, <2>2 DEF BeginLoop, Reset, IInv, TypeOK, LoopInv
<1>4. CASE LoopStep
  BY <1>4, IInvNext DEF LoopStep
<1> QED
  BY <1>1, <1>2, <1>3, <1>4 DEF ArgumentNext, argument, SplitStep

\* Behind the loop are exactly the scanned tokens.
LEMMA ScannedIsSeen ==
    ASSUME IInv, pc \in {"done", "refused"}
    PROVE  Scanned(attach_points) = Seen
<1> USE DEF IInv, TypeOK, LoopInv
<1>0. attach_points \in Seq(Tokens) /\ DOMAIN attach_points = 1..Len(attach_points)
  BY PartsAreTokens
<1>1. CASE pc = "done"
  <2>1. Seen = DOMAIN attach_points
    BY <1>0, <1>1 DEF Seen
  <2>2. ASSUME NEW k \in DOMAIN attach_points, NEW l \in DOMAIN attach_points, k < l
        PROVE  attach_points[k] \notin XdpModes \/ attach_points[l] \notin XdpModes
    BY <1>0, <1>1, <2>1, <2>2
  <2> QED
    BY <2>1, <2>2 DEF Scanned
<1>2. CASE pc = "refused"
  <2>1. PICK j \in 1..(i - 2) :
          /\ attach_points[j] \in XdpModes
          /\ \A k \in 1..(i - 2) : k # j => attach_points[k] \notin XdpModes
    BY <1>2
  <2>2. /\ Seen \subseteq DOMAIN attach_points
        /\ i - 1 \in DOMAIN attach_points
        /\ j \in DOMAIN attach_points
        /\ j < i - 1
        /\ attach_points[i - 1] \in XdpModes
    BY <1>0, <1>2, <2>1 DEF Seen
  <2>3. ASSUME NEW m \in Seen PROVE m \in Scanned(attach_points)
    <3>1. ASSUME NEW k \in DOMAIN attach_points, NEW l \in DOMAIN attach_points, k < l, l < m
          PROVE  attach_points[k] \notin XdpModes \/ attach_points[l] \notin XdpModes
      <4>1. k \in 1..(i - 2) /\ l \in 1..(i - 2) /\ k # l
        BY <1>0, <1>2, <3>1 DEF Seen
      <4> QED
        BY <2>1, <4>1
    <3> QED
      BY <2>2, <3>1 DEF Scanned
  <2>4. ASSUME NEW m \in Scanned(attach_points) PROVE m \in Seen
    <3>1. m \in DOMAIN attach_points /\ ~(i - 1 < m)
      BY <2>1, <2>2 DEF Scanned
    <3> QED
      BY <1>0, <1>2, <3>1 DEF Seen
  <2> QED
    BY <2>3, <2>4
<1> QED
  BY <1>1, <1>2

\* The locals of set_attachment_points keep their types.
THEOREM TypeCorrect == ArgumentSpec => []TypeOK
<1>1. IInv => TypeOK
  BY DEF IInv
<1> QED
  BY IInvInit, ArgumentIInvNext, <1>1, PTL DEF ArgumentSpec

\* Whatever the argument and however the loop ends, the flag words of the
\* context are TcOf and XdpOf of it.
THEOREM LoopComputesPoints == ArgumentSpec => []ComputesPoints
<1>1. IInv => ComputesPoints
  <2> SUFFICES ASSUME IInv, pc \in {"done", "refused"} PROVE ComputesPoints
    BY DEF ComputesPoints
  <2>1. Scanned(attach_points) = Seen
    BY ScannedIsSeen
  <2> QED
    BY <2>1 DEF ComputesPoints, TcOf, XdpOf, IInv, LoopInv
<1> QED
  BY IInvInit, ArgumentIInvNext, <1>1, PTL DEF ArgumentSpec

LEMMA TwoModesIntro ==
  ASSUME NEW raw, NEW j \in DOMAIN raw, NEW k \in DOMAIN raw, j < k,
         raw[j] \in XdpModes, raw[k] \in XdpModes
  PROVE  TwoModes(raw)
  BY DEF TwoModes

\* Exactly an argument with two XDP tokens is refused.
THEOREM LoopRefusesTwoModes == ArgumentSpec => []RefusesTwoModes
<1>1. IInv => RefusesTwoModes
  <2> SUFFICES ASSUME IInv PROVE RefusesTwoModes
    OBVIOUS
  <2> USE DEF IInv, TypeOK, LoopInv
  <2>0. attach_points \in Seq(Tokens) /\ DOMAIN attach_points = 1..Len(attach_points)
    BY PartsAreTokens
  <2>1. CASE pc = "refused"
    <3>1. PICK j \in 1..(i - 2) : attach_points[j] \in XdpModes
      BY <2>1
    <3>2. /\ j \in DOMAIN attach_points /\ i - 1 \in DOMAIN attach_points /\ j < i - 1
          /\ attach_points[i - 1] \in XdpModes
      BY <2>0, <2>1, <3>1
    <3>3. TwoModes(attach_points)
      BY <3>1, <3>2, TwoModesIntro
    <3> QED
      BY <2>1, <3>3 DEF RefusesTwoModes
  <2>2. CASE pc = "done"
    <3>1. ~TwoModes(attach_points)
      BY <2>0, <2>2 DEF TwoModes, Seen
    <3> QED
      BY <2>2, <3>1 DEF RefusesTwoModes
  <2>3. CASE pc \notin {"done", "refused"}
    BY <2>3 DEF RefusesTwoModes
  <2> QED
    BY <2>1, <2>2, <2>3
<1> QED
  BY IInvInit, ArgumentIInvNext, <1>1, PTL DEF ArgumentSpec

-----------------------------------------------------------------------------
(* strsplit.                                                               *)

LEMMA SomeParts == str \in Texts /\ max_parts \in Limits => MaxParts \in Nat \ {0}
<1> SUFFICES ASSUME str \in Texts, max_parts \in Limits PROVE MaxParts \in Nat \ {0}
  OBVIOUS
<1>1. str \in Seq(Symbols) /\ max_parts \in Nat
  BY TextsAssumption, LimitsAssumption
<1>2. IsFiniteSet(DOMAIN str)
  BY <1>1, FS_Interval
<1>3. CountDelims(str) \in Nat
  BY <1>2, FS_Subset, FS_CardinalityType DEF CountDelims
<1> QED
  BY <1>1, <1>3 DEF MaxParts

\* While the loop runs there is room for one more part; the heap holds the
\* array, the copy of the text and the parts stored so far.
SplitInv ==
    /\ str \in Texts /\ max_parts \in Limits
    /\ index \in Nat
    /\ at \in {"enter", "loop", "end", "returned", "NULL"}
    /\ at = "enter" => heap = {} /\ index = 0
    /\ at = "loop" => index < MaxParts
    /\ at \in {"end", "returned"} => index <= MaxParts
    /\ at \in {"loop", "end"} => heap = {Array, Copy} \cup {Part(k) : k \in 1..index}
    /\ SplitOwnsHeap

LEMMA SplitInvInit == SplitInit => SplitInv
  BY DEF SplitInit, SplitInv, SplitOwnsHeap

\* A part is neither the array nor the copy.
LEMMA Names3 == Array # Copy /\ \A k : Part(k) # Array /\ Part(k) # Copy
  BY DEF Array, Copy, Part

LEMMA HeapGrows ==
  ASSUME NEW k \in Nat
  PROVE  {Part(l) : l \in 1..(k + 1)} = {Part(l) : l \in 1..k} \cup {Part(k + 1)}
  BY DEF Part

\* Storing a part keeps the heap in step with the index.
LEMMA Stored ==
  ASSUME index \in Nat, heap = {Array, Copy} \cup {Part(k) : k \in 1..index},
         NEW end, Store(end)
  PROVE  index' = index + 1 /\ heap' = {Array, Copy} \cup {Part(k) : k \in 1..index'}
<1>1. index' = index + 1 /\ heap' = heap \cup {Part(index + 1)}
  BY DEF Store
<1> QED
  BY <1>1, HeapGrows

LEMMA SplitInvNext == SplitInv /\ [SplitNext]_split => SplitInv'
<1> SUFFICES ASSUME SplitInv, [SplitNext]_split PROVE SplitInv'
  OBVIOUS
<1>0. MaxParts \in Nat \ {0}
  BY SomeParts DEF SplitInv
<1>m. UNCHANGED <<str, max_parts>> /\ MaxParts' = MaxParts
  BY DEF SplitNext, split, Allocate, AllocateFails, SplitPart, LastPart, StrdupFails, Finish, MaxParts, CountDelims
<1>1. CASE Allocate
  <2>1. {Part(k) : k \in 1..index} = {} /\ index' = index /\ index = 0
    BY <1>1 DEF Allocate, SplitInv
  <2> QED
    BY <1>0, <1>1, <1>m, <2>1 DEF Allocate, SplitInv, SplitOwnsHeap
<1>2. CASE AllocateFails
  BY <1>2, <1>m DEF AllocateFails, SplitInv, SplitOwnsHeap
<1>3. CASE SplitPart
  <2>1. at = "loop" /\ at' = "loop" /\ index < MaxParts - 1
    BY <1>3 DEF SplitPart, MoreParts
  <2>2. index' = index + 1 /\ heap' = {Array, Copy} \cup {Part(k) : k \in 1..index'}
    BY <1>3, <2>1, Stored DEF SplitPart, SplitInv
  <2>3. index' \in Nat /\ index' < MaxParts'
    BY <1>0, <1>m, <2>1, <2>2 DEF SplitInv
  <2> QED
    BY <1>m, <2>1, <2>2, <2>3 DEF SplitInv, SplitOwnsHeap
<1>4. CASE LastPart
  <2>1. at = "loop" /\ at' = "end" /\ index < MaxParts
    BY <1>4 DEF LastPart, SplitInv
  <2>2. \/ index' = index + 1 /\ heap' = {Array, Copy} \cup {Part(k) : k \in 1..index'}
        \/ index' = index /\ heap' = {Array, Copy} \cup {Part(k) : k \in 1..index'}
    BY <1>4, <2>1, Stored DEF LastPart, SplitInv
  <2>3. index' \in Nat /\ index' <= MaxParts'
    BY <1>0, <1>m, <2>1, <2>2 DEF SplitInv
  <2> QED
    BY <1>m, <2>1, <2>2, <2>3 DEF SplitInv, SplitOwnsHeap
<1>5. CASE StrdupFails
  <2>1. heap' = {}
    <3>1. heap = {Array, Copy} \cup {Part(k) : k \in 1..index}
      BY <1>5 DEF StrdupFails, SplitInv
    <3>2. heap' = heap \ ({Copy} \cup ({Array} \cup {Part(k) : k \in 1..index}))
      BY <1>5 DEF StrdupFails, strsplit_free
    <3> QED
      BY <3>1, <3>2
  <2> QED
    BY <1>5, <1>m, <2>1 DEF StrdupFails, SplitInv, SplitOwnsHeap
<1>6. CASE Finish
  <2>1. heap' = {Array} \cup {Part(k) : k \in 1..index'}
    BY <1>6, Names3 DEF Finish, SplitInv
  <2> QED
    BY <1>6, <1>m, <2>1 DEF Finish, SplitInv, SplitOwnsHeap
<1>7. CASE UNCHANGED split
  BY <1>7, <1>m DEF split, SplitInv, SplitOwnsHeap
<1> QED
  BY <1>1, <1>2, <1>3, <1>4, <1>5, <1>6, <1>7 DEF SplitNext

LEMMA ArgumentSplitInv == ArgumentSpec => []SplitInv
<1>1. ArgumentInit => SplitInv
  BY SplitInvInit DEF ArgumentInit
<1>2. [ArgumentNext]_argument => [SplitNext]_split
  BY DEF ArgumentNext, argument, SplitStep, NotSplit, BeginLoop, LoopStep
<1> QED
  BY <1>1, <1>2, SplitInvNext, PTL DEF ArgumentSpec

\* However many delimiters the text has and whatever the limit, the parts and
\* the NULL behind them fit into the array strsplit has allocated.
THEOREM StaysInBounds == ArgumentSpec => []SplitInBounds
<1>1. SplitInv => SplitInBounds
  BY SomeParts DEF SplitInv, SplitInBounds
<1> QED
  BY <1>1, ArgumentSplitInv, PTL

\* strsplit leaks nothing when it fails and otherwise hands over what
\* strsplit_free frees.
THEOREM OwnsHeap == ArgumentSpec => []SplitOwnsHeap
<1>1. SplitInv => SplitOwnsHeap
  BY DEF SplitInv
<1> QED
  BY <1>1, ArgumentSplitInv, PTL

-----------------------------------------------------------------------------
(* Positions of a text.                                                    *)

\* Every set of numbers has a least one: what induction is to come from here.
LEMMA LeastNumber ==
  ASSUME NEW T \in SUBSET Nat, T # {}
  PROVE  \E m \in T : \A k \in T : m <= k
<1> DEFINE R == OpToRel(<, Nat)
<1>1. IsWellFoundedOn(R, Nat)
  BY NatLessThanWellFounded, Zenon
<1>2. R = {x \in Nat \X Nat : x[1] < x[2]}
  BY DEF OpToRel
<1> HIDE DEF R
<1>3. PICK m \in T : \A k \in T : ~ (<<k, m>> \in R)
  BY <1>1, WFMin
<1>4. \A k \in T : ~ (k < m)
  BY <1>2, <1>3
<1> QED
  BY <1>4

LEMMA TextFacts ==
  ASSUME NEW text \in Seq(Symbols)
  PROVE  /\ Len(text) \in Nat /\ DOMAIN text = 1..Len(text) /\ EndOf(text) = Len(text) + 1
         /\ \A j \in 1..Len(text) : text[j] \in Symbols
  BY DEF EndOf

\* There is a first position with one of the symbols, the end at the latest.
LEMMA FirstFromFacts ==
  ASSUME NEW text \in Seq(Symbols), NEW j \in 1..(Len(text) + 1), NEW symbols
  PROVE  LET k == FirstFrom(text, j, symbols)
         IN  /\ k \in j..EndOf(text)
             /\ k = EndOf(text) \/ text[k] \in symbols
             /\ \A l \in j..(k - 1) : text[l] \notin symbols
<1> DEFINE T == {k \in j..EndOf(text) : k = EndOf(text) \/ text[k] \in symbols}
<1>1. T \in SUBSET Nat /\ EndOf(text) \in T
  BY TextFacts
<1>2. PICK m \in T : \A k \in T : m <= k
  BY <1>1, LeastNumber
<1>3. \A l \in j..(m - 1) : text[l] \notin symbols
  BY <1>1, <1>2, TextFacts
<1> QED
  BY <1>2, <1>3, Zenon DEF FirstFrom

\* The starts of parts before a position, and the delimiters before it.
Begun(text, p)  == {k \in Starts(text) : k < p}
Delims(text, p) == {k \in 1..(p - 1) : text[k] = Delim}

LEMMA StartsFacts ==
  ASSUME NEW text \in Seq(Symbols)
  PROVE  /\ Starts(text) \subseteq 1..Len(text) /\ Len(text) \in Nat
         /\ \A j \in Starts(text) : j \in 1..(Len(text) + 1)
<1>1. Starts(text) \subseteq 1..Len(text) /\ Len(text) \in Nat
  BY TextFacts DEF Starts
<1> QED
  BY <1>1

LEMMA FiniteParts ==
  ASSUME NEW text \in Seq(Symbols), NEW p \in 1..(Len(text) + 1)
  PROVE  /\ IsFiniteSet(Begun(text, p)) /\ Cardinality(Begun(text, p)) \in Nat
         /\ IsFiniteSet(Delims(text, p)) /\ Cardinality(Delims(text, p)) \in Nat
         /\ Delims(text, p) \subseteq {k \in DOMAIN text : text[k] = Delim}
         /\ IsFiniteSet({k \in DOMAIN text : text[k] = Delim})
<1>1. IsFiniteSet(1..Len(text)) /\ DOMAIN text = 1..Len(text) /\ Len(text) \in Nat
  BY TextFacts, FS_Interval
<1>2. Begun(text, p) \subseteq 1..Len(text)
  BY <1>1 DEF Starts, Begun
<1>3. Delims(text, p) \subseteq {k \in DOMAIN text : text[k] = Delim}
  BY <1>1 DEF Delims
<1>4. {k \in DOMAIN text : text[k] = Delim} \subseteq 1..Len(text)
  BY <1>1
<1>5. \A S : S \subseteq 1..Len(text) => IsFiniteSet(S) /\ Cardinality(S) \in Nat
  BY <1>1, FS_Subset, FS_CardinalityType
<1> QED
  BY <1>2, <1>3, <1>4, <1>5

\* The ordinals of the parts are in their order, from 1 on.
LEMMA OrdinalFacts ==
  ASSUME NEW text \in Seq(Symbols), NEW j \in Starts(text)
  PROVE  /\ Ordinal(text, j) = Cardinality(Begun(text, j)) + 1
         /\ Ordinal(text, j) \in Nat \ {0}
         /\ \A p \in 1..(Len(text) + 1) : j < p => Ordinal(text, j) <= Cardinality(Begun(text, p))
<1>0. /\ Len(text) \in Nat /\ j \in 1..Len(text) /\ j \in 1..(Len(text) + 1)
      /\ Starts(text) \subseteq 1..Len(text)
  BY StartsFacts
<1> DEFINE upto == {k \in Starts(text) : k <= j}
<1>1. upto = Begun(text, j) \cup {j} /\ j \notin Begun(text, j)
  BY <1>0 DEF Begun
<1>2. IsFiniteSet(Begun(text, j)) /\ Cardinality(Begun(text, j)) \in Nat
  BY <1>0, FiniteParts
<1>3. Cardinality(upto) = Cardinality(Begun(text, j)) + 1
  BY <1>1, <1>2, FS_AddElement
<1>4. Ordinal(text, j) = Cardinality(upto)
  BY DEF Ordinal
<1>5. ASSUME NEW p \in 1..(Len(text) + 1), j < p
      PROVE  Ordinal(text, j) <= Cardinality(Begun(text, p))
  <2>1. upto \subseteq Begun(text, p)
    BY <1>0, <1>5 DEF Begun
  <2>2. IsFiniteSet(Begun(text, p))
    BY FiniteParts
  <2>3. Cardinality(upto) <= Cardinality(Begun(text, p))
    BY <2>1, <2>2, FS_Subset, Zenon
  <2> QED
    BY <1>4, <2>3, Zenon
<1> QED
  BY <1>2, <1>3, <1>4, <1>5

LEMMA OrdinalsDiffer ==
  ASSUME NEW text \in Seq(Symbols), NEW j \in Starts(text), NEW k \in Starts(text), j < k
  PROVE  Ordinal(text, j) < Ordinal(text, k)
<1>1. Len(text) \in Nat /\ k \in 1..(Len(text) + 1)
  BY StartsFacts
<1>2. Ordinal(text, j) <= Cardinality(Begun(text, k)) /\ Cardinality(Begun(text, k)) \in Nat
  BY <1>1, OrdinalFacts, FiniteParts
<1> QED
  BY <1>2, OrdinalFacts

\* The starts that get a part of their own.
Limited(text, limit) == {j \in Starts(text) : limit = 0 \/ Ordinal(text, j) <= limit}

\* A sequence with a part for every one of them, in their order, is Parts.
LEMMA PartsAre ==
  ASSUME NEW text \in Seq(Symbols), NEW limit \in Nat, NEW S, NEW r \in Seq(S),
         Len(r) = Cardinality(Limited(text, limit)),
         \A j \in Limited(text, limit) : r[Ordinal(text, j)] =
              SubSeq(text, j, IF Ordinal(text, j) = limit THEN Len(text)
                              ELSE FirstFrom(text, j, {Delim}) - 1),
         \A k \in 1..Len(r) : \E j \in Limited(text, limit) : Ordinal(text, j) = k
  PROVE  r = Parts(text, limit)
<1> DEFINE first(k) == CHOOSE j \in Limited(text, limit) : Ordinal(text, j) = k
           last(k)  == IF k = limit THEN Len(text) ELSE FirstFrom(text, first(k), {Delim}) - 1
<1>1. ASSUME NEW k \in 1..Len(r) PROVE r[k] = SubSeq(text, first(k), last(k))
  <2>1. first(k) \in Limited(text, limit) /\ Ordinal(text, first(k)) = k
    BY Zenon
  <2> QED
    BY <2>1, Zenon
<1>2. r = [k \in 1..Len(r) |-> r[k]]
  OBVIOUS
<1>3. r = [k \in 1..Cardinality(Limited(text, limit)) |-> SubSeq(text, first(k), last(k))]
  BY <1>1, <1>2, Zenon
<1> QED
  BY <1>3 DEF Parts, Limited

-----------------------------------------------------------------------------
(* The parts strsplit stores.                                              *)

\* The delimiters from j on are skipped: no part starts among them, and one
\* starts behind them if the text does not end there.
LEMMA Skipped ==
  ASSUME NEW text \in Seq(Symbols), NEW j \in 1..(Len(text) + 1),
         j = 1 \/ text[j - 1] = Delim
  PROVE  LET s == FirstFrom(text, j, Symbols \ {Delim})
         IN  /\ s \in j..EndOf(text)
             /\ s < EndOf(text) => s \in Starts(text)
             /\ \A k \in Starts(text) : k < j \/ s <= k
<1> DEFINE s == FirstFrom(text, j, Symbols \ {Delim})
<1>1. /\ s \in j..EndOf(text)
      /\ s = EndOf(text) \/ text[s] \in Symbols \ {Delim}
      /\ \A l \in j..(s - 1) : text[l] \notin Symbols \ {Delim}
  BY FirstFromFacts, Zenon
<1> HIDE DEF s
<1>2. /\ Len(text) \in Nat /\ DOMAIN text = 1..Len(text) /\ EndOf(text) = Len(text) + 1
      /\ \A k \in 1..Len(text) : text[k] \in Symbols
  BY TextFacts
<1>3. \A l \in j..(s - 1) : text[l] = Delim
  BY <1>1, <1>2
<1>4. ASSUME NEW k \in Starts(text), ~(k < j), ~(s <= k) PROVE FALSE
  <2>1. k \in j..(s - 1) /\ text[k] # Delim
    BY <1>1, <1>2, <1>4 DEF Starts
  <2> QED
    BY <1>3, <2>1
<1>5. ASSUME s < EndOf(text) PROVE s \in Starts(text)
  <2>1. s \in 1..Len(text) /\ text[s] # Delim
    BY <1>1, <1>2, <1>5
  <2>2. s = 1 \/ text[s - 1] = Delim
    <3>1. CASE s = j
      BY <3>1
    <3>2. CASE s # j
      BY <1>1, <1>2, <1>3, <3>2
    <3> QED
      BY <3>1, <3>2
  <2> QED
    BY <1>2, <2>1, <2>2 DEF Starts
<1> QED
  BY <1>1, <1>4, <1>5 DEF s

\* Within a part no other starts.
LEMMA WithinPart ==
  ASSUME NEW text \in Seq(Symbols), NEW p \in Starts(text)
  PROVE  LET e == FirstFrom(text, p, {Delim})
         IN  /\ e \in p..EndOf(text)
             /\ e < EndOf(text) => e \in 1..Len(text) /\ text[e] = Delim
             /\ \A k \in Starts(text) : k <= p \/ e < k
<1> DEFINE e == FirstFrom(text, p, {Delim})
<1>0. /\ Len(text) \in Nat /\ DOMAIN text = 1..Len(text) /\ EndOf(text) = Len(text) + 1
      /\ Starts(text) \subseteq 1..Len(text) /\ p \in 1..(Len(text) + 1)
  BY TextFacts, StartsFacts
<1>1. /\ e \in p..EndOf(text)
      /\ e = EndOf(text) \/ text[e] \in {Delim}
      /\ \A l \in p..(e - 1) : text[l] \notin {Delim}
  BY <1>0, FirstFromFacts, Zenon
<1> HIDE DEF e
<1>2. ASSUME NEW k \in Starts(text), ~(k <= p), ~(e < k) PROVE FALSE
  <2>1. k - 1 \in p..(e - 1) /\ k # 1 /\ text[k] # Delim /\ text[k - 1] = Delim
    BY <1>0, <1>1, <1>2 DEF Starts
  <2> QED
    BY <1>1, <2>1
<1>3. e < EndOf(text) => e \in 1..Len(text) /\ text[e] = Delim
  BY <1>0, <1>1
<1> QED
  BY <1>1, <1>2, <1>3 DEF e

\* From one part to the next.
LEMMA NextPart ==
  ASSUME NEW text \in Seq(Symbols), NEW p \in Starts(text), FirstFrom(text, p, {Delim}) < EndOf(text)
  PROVE  LET s == FirstFrom(text, FirstFrom(text, p, {Delim}) + 1, Symbols \ {Delim})
         IN  /\ s \in 1..(Len(text) + 1)
             /\ s < EndOf(text) => s \in Starts(text)
             /\ Begun(text, s) = Begun(text, p) \cup {p}
             /\ Cardinality(Begun(text, s)) = Cardinality(Begun(text, p)) + 1
             /\ Cardinality(Delims(text, s)) >= Cardinality(Delims(text, p)) + 1
<1> DEFINE e == FirstFrom(text, p, {Delim})
           s == FirstFrom(text, e + 1, Symbols \ {Delim})
<1>0. /\ Len(text) \in Nat /\ EndOf(text) = Len(text) + 1
      /\ Starts(text) \subseteq 1..Len(text) /\ p \in 1..(Len(text) + 1)
  BY TextFacts, StartsFacts
<1>1. /\ e \in p..EndOf(text) /\ e \in 1..Len(text) /\ text[e] = Delim
      /\ \A k \in Starts(text) : k <= p \/ e < k
  BY WithinPart, Zenon
<1>2. e + 1 \in 1..(Len(text) + 1) /\ (e + 1) - 1 = e
  BY <1>0, <1>1
<1>3. /\ s \in (e + 1)..EndOf(text)
      /\ s < EndOf(text) => s \in Starts(text)
      /\ \A k \in Starts(text) : k < e + 1 \/ s <= k
  BY <1>1, <1>2, Skipped, Zenon
<1> HIDE DEF e, s
<1>4. Begun(text, s) = Begun(text, p) \cup {p} /\ p \notin Begun(text, p)
  <2>1. ASSUME NEW k \in Starts(text) PROVE k < s <=> k < p \/ k = p
    <3>1. /\ k \in 1..Len(text) /\ (k <= p \/ e < k) /\ (k < e + 1 \/ s <= k)
          /\ s \in (e + 1)..EndOf(text) /\ e \in p..EndOf(text) /\ e \in 1..Len(text)
      BY <1>0, <1>1, <1>3, <2>1
    <3> QED
      BY <1>0, <3>1
  <2>2. Begun(text, s) = {k \in Starts(text) : k < p \/ k = p}
    BY <2>1, Zenon DEF Begun
  <2>3. {k \in Starts(text) : k < p \/ k = p} = Begun(text, p) \cup {p}
    BY Zenon DEF Begun
  <2>4. ~(p < p)
    BY <1>0
  <2> QED
    BY <2>2, <2>3, <2>4, Zenon DEF Begun
<1>5. Delims(text, p) \cup {e} \subseteq Delims(text, s) /\ e \notin Delims(text, p)
  BY <1>0, <1>1, <1>3 DEF Delims
<1>6. s \in 1..(Len(text) + 1)
  BY <1>0, <1>1, <1>3
<1>f. IsFiniteSet(Begun(text, p)) /\ IsFiniteSet(Delims(text, p)) /\ IsFiniteSet(Delims(text, s))
  BY <1>0, <1>6, FiniteParts
<1>7. Cardinality(Begun(text, s)) = Cardinality(Begun(text, p)) + 1
  BY <1>4, <1>f, FS_AddElement
<1>8. Cardinality(Delims(text, p) \cup {e}) = Cardinality(Delims(text, p)) + 1
  BY <1>5, <1>f, FS_AddElement
<1>9. Cardinality(Delims(text, p) \cup {e}) <= Cardinality(Delims(text, s))
  BY <1>5, <1>f, FS_Subset
<1>10. Cardinality(Delims(text, p)) \in Nat /\ Cardinality(Delims(text, s)) \in Nat
  BY <1>0, <1>6, FiniteParts
<1> QED
  <2>1. Cardinality(Delims(text, s)) >= Cardinality(Delims(text, p)) + 1
    BY <1>8, <1>9, <1>10
  <2> QED
    BY <1>3, <1>4, <1>6, <1>7, <2>1, Zenon DEF s, e

\* r has the parts of the text that start before p, each up to its delimiter.
Stores(r, text, p) ==
    /\ r \in Seq(Seq(Symbols)) /\ Len(r) = Cardinality(Begun(text, p))
    /\ \A j \in Begun(text, p) :
          r[Ordinal(text, j)] = SubSeq(text, j, FirstFrom(text, j, {Delim}) - 1)
    /\ \A k \in 1..Len(r) : \E j \in Begun(text, p) : Ordinal(text, j) = k

\* r has those and, for the start at p, the part q.
StoresTo(r, text, p, q) ==
    /\ r \in Seq(Seq(Symbols)) /\ Len(r) = Cardinality(Begun(text, p)) + 1
    /\ \A j \in Begun(text, p) :
          /\ r[Ordinal(text, j)] = SubSeq(text, j, FirstFrom(text, j, {Delim}) - 1)
          /\ Ordinal(text, j) \in 1..Cardinality(Begun(text, p))
    /\ r[Ordinal(text, p)] = q
    /\ \A k \in 1..Len(r) : \E j \in Begun(text, p) \cup {p} : Ordinal(text, j) = k

LEMMA Appending ==
  ASSUME NEW S, NEW r \in Seq(S), NEW x \in S
  PROVE  /\ Append(r, x) \in Seq(S) /\ Len(Append(r, x)) = Len(r) + 1
         /\ \A k \in 1..Len(r) : Append(r, x)[k] = r[k]
         /\ Append(r, x)[Len(r) + 1] = x
         /\ Len(r) \in Nat /\ 1..(Len(r) + 1) = 1..Len(r) \cup {Len(r) + 1}
  OBVIOUS

\* One part more.
LEMMA StoresMore ==
  ASSUME NEW text \in Seq(Symbols), NEW p \in Starts(text), NEW r, Stores(r, text, p),
         NEW q \in Seq(Symbols)
  PROVE  StoresTo(Append(r, q), text, p, q)
<1>0. p \in 1..(Len(text) + 1) /\ Cardinality(Begun(text, p)) \in Nat
  BY StartsFacts, FiniteParts
<1>1. r \in Seq(Seq(Symbols)) /\ Len(r) = Cardinality(Begun(text, p))
  BY DEF Stores
<1>2. /\ Append(r, q) \in Seq(Seq(Symbols)) /\ Len(Append(r, q)) = Len(r) + 1
      /\ \A k \in 1..Len(r) : Append(r, q)[k] = r[k]
      /\ Append(r, q)[Len(r) + 1] = q
      /\ 1..(Len(r) + 1) = 1..Len(r) \cup {Len(r) + 1}
  BY <1>1, Appending
<1>3. Ordinal(text, p) = Len(r) + 1
  BY <1>1, OrdinalFacts
<1>4. ASSUME NEW j \in Begun(text, p)
      PROVE  /\ Ordinal(text, j) \in 1..Len(r)
             /\ r[Ordinal(text, j)] = SubSeq(text, j, FirstFrom(text, j, {Delim}) - 1)
  <2>1. j \in Starts(text) /\ j < p
    BY DEF Begun
  <2>2. Ordinal(text, j) <= Cardinality(Begun(text, p)) /\ Ordinal(text, j) \in Nat \ {0}
    BY <1>0, <2>1, OrdinalFacts
  <2>3. r[Ordinal(text, j)] = SubSeq(text, j, FirstFrom(text, j, {Delim}) - 1)
    BY DEF Stores
  <2> QED
    BY <1>0, <1>1, <2>2, <2>3
<1>5. ASSUME NEW k \in 1..Len(Append(r, q))
      PROVE  \E j \in Begun(text, p) \cup {p} : Ordinal(text, j) = k
  <2>1. CASE k \in 1..Len(r)
    BY <2>1 DEF Stores
  <2>2. CASE k = Len(r) + 1
    BY <1>3, <2>2
  <2> QED
    BY <1>2, <2>1, <2>2
<1>6. ASSUME NEW j \in Begun(text, p)
      PROVE  /\ Append(r, q)[Ordinal(text, j)] = SubSeq(text, j, FirstFrom(text, j, {Delim}) - 1)
             /\ Ordinal(text, j) \in 1..Cardinality(Begun(text, p))
  BY <1>1, <1>2, <1>4
<1>7. Append(r, q)[Ordinal(text, p)] = q /\ Len(Append(r, q)) = Cardinality(Begun(text, p)) + 1
  BY <1>1, <1>2, <1>3
<1> QED
  BY <1>2, <1>5, <1>6, <1>7, Zenon DEF StoresTo

\* Where the loop stands when it reaches p with n parts stored in r.
LoopAt(text, p, n, r) ==
    /\ p \in 1..(Len(text) + 1)
    /\ p < EndOf(text) => p \in Starts(text)
    /\ Cardinality(Begun(text, p)) = n
    /\ n <= Cardinality(Delims(text, p))
    /\ Stores(r, text, p)

\* Before the first iteration.
LEMMA LoopBegins ==
  ASSUME NEW text \in Seq(Symbols), NEW s, s = FirstFrom(text, 1, Symbols \ {Delim})
  PROVE  LoopAt(text, s, 0, <<>>)
<1>0. /\ Len(text) \in Nat /\ EndOf(text) = Len(text) + 1
      /\ Starts(text) \subseteq 1..Len(text) /\ 1 \in 1..(Len(text) + 1)
  BY TextFacts, StartsFacts
<1>1. /\ s \in 1..EndOf(text)
      /\ s < EndOf(text) => s \in Starts(text)
      /\ \A k \in Starts(text) : k < 1 \/ s <= k
  BY <1>0, Skipped, Zenon
<1>2. s \in 1..(Len(text) + 1)
  BY <1>0, <1>1
<1>3. Begun(text, s) = {}
  <2>1. ASSUME NEW k \in Starts(text), k < s PROVE FALSE
    <3>1. k < 1 \/ s <= k
      BY <1>1
    <3>2. k \in 1..Len(text)
      BY <1>0
    <3> QED
      BY <1>0, <1>2, <2>1, <3>1, <3>2
  <2> QED
    BY <2>1, Zenon DEF Begun
<1>4. Cardinality(Begun(text, s)) = 0
  BY <1>3, FS_EmptySet
<1>5. Stores(<<>>, text, s)
  <2>1. <<>> \in Seq(Seq(Symbols)) /\ Len(<<>>) = 0 /\ 1..Len(<<>>) = {}
    OBVIOUS
  <2> QED
    BY <1>3, <1>4, <2>1, Zenon DEF Stores
<1>6. 0 <= Cardinality(Delims(text, s))
  <2>1. Cardinality(Delims(text, s)) \in Nat
    BY <1>2, FiniteParts
  <2> QED
    BY <2>1
<1> QED
  BY <1>1, <1>2, <1>4, <1>5, <1>6 DEF LoopAt

LEMMA PartOfText ==
  ASSUME NEW text \in Seq(Symbols), NEW p \in 1..(Len(text) + 1), NEW e \in 1..(Len(text) + 1)
  PROVE  SubSeq(text, p, e - 1) \in Seq(Symbols)
  OBVIOUS

\* After an iteration.
LEMMA LoopGoesOn ==
  ASSUME NEW text \in Seq(Symbols), NEW p, NEW n, NEW r, LoopAt(text, p, n, r),
         p < EndOf(text), FirstFrom(text, p, {Delim}) < EndOf(text)
  PROVE  LoopAt(text, FirstFrom(text, FirstFrom(text, p, {Delim}) + 1, Symbols \ {Delim}), n + 1,
                Append(r, SubSeq(text, p, FirstFrom(text, p, {Delim}) - 1)))
<1> DEFINE e == FirstFrom(text, p, {Delim})
           s == FirstFrom(text, e + 1, Symbols \ {Delim})
           q == SubSeq(text, p, e - 1)
<1>1. /\ p \in Starts(text) /\ p \in 1..(Len(text) + 1) /\ Cardinality(Begun(text, p)) = n
      /\ n <= Cardinality(Delims(text, p)) /\ Stores(r, text, p)
  BY DEF LoopAt
<1>2. /\ s \in 1..(Len(text) + 1)
      /\ s < EndOf(text) => s \in Starts(text)
      /\ Begun(text, s) = Begun(text, p) \cup {p}
      /\ Cardinality(Begun(text, s)) = n + 1
      /\ Cardinality(Delims(text, s)) >= Cardinality(Delims(text, p)) + 1
  <2>1. /\ s \in 1..(Len(text) + 1)
        /\ s < EndOf(text) => s \in Starts(text)
        /\ Begun(text, s) = Begun(text, p) \cup {p}
        /\ Cardinality(Begun(text, s)) = Cardinality(Begun(text, p)) + 1
        /\ Cardinality(Delims(text, s)) >= Cardinality(Delims(text, p)) + 1
    BY <1>1, NextPart, Zenon
  <2> HIDE DEF s
  <2> QED
    BY <1>1, <2>1
<1>q. q \in Seq(Symbols)
  <2>1. p \in 1..(Len(text) + 1) /\ Len(text) \in Nat /\ EndOf(text) = Len(text) + 1
    BY <1>1, TextFacts
  <2>2. e \in p..EndOf(text)
    BY <1>1, WithinPart, Zenon
  <2> HIDE DEF e
  <2> QED
    BY <2>1, <2>2, PartOfText
<1> HIDE DEF s, q
<1>3. n + 1 <= Cardinality(Delims(text, s))
  <2>1. /\ n \in Nat /\ Cardinality(Delims(text, p)) \in Nat
        /\ Cardinality(Delims(text, s)) \in Nat
    BY <1>1, <1>2, FiniteParts
  <2> QED
    BY <1>1, <1>2, <2>1
<1>4. StoresTo(Append(r, q), text, p, q)
  BY <1>1, <1>q, StoresMore
<1>5. ASSUME NEW j \in Begun(text, s)
      PROVE  Append(r, q)[Ordinal(text, j)] = SubSeq(text, j, FirstFrom(text, j, {Delim}) - 1)
  <2>1. q = SubSeq(text, p, FirstFrom(text, p, {Delim}) - 1)
    BY DEF q
  <2>2. j \in Begun(text, p) \/ j = p
    BY <1>2, <1>5
  <2> QED
    BY <1>4, <2>1, <2>2, Zenon DEF StoresTo
<1>6. Stores(Append(r, q), text, s)
  <2>1. Len(Append(r, q)) = Cardinality(Begun(text, s))
    BY <1>1, <1>2, <1>4, Zenon DEF StoresTo
  <2> QED
    BY <2>1, <1>2, <1>4, <1>5, Zenon DEF Stores, StoresTo
<1> QED
  BY <1>2, <1>3, <1>6, Zenon DEF LoopAt, s, q

\* With a limit of 0 there is room for a part behind the last delimiter only
\* when no delimiter is left.
LEMMA DelimsRunOut ==
  ASSUME NEW text \in Seq(Symbols), NEW p \in Starts(text), NEW e, e = FirstFrom(text, p, {Delim}),
         CountDelims(text) <= Cardinality(Delims(text, p))
  PROVE  e = EndOf(text)
<1>0. /\ Len(text) \in Nat /\ EndOf(text) = Len(text) + 1 /\ DOMAIN text = 1..Len(text)
      /\ Starts(text) \subseteq 1..Len(text) /\ p \in 1..(Len(text) + 1)
  BY TextFacts, StartsFacts
<1>1. e \in p..EndOf(text) /\ (e < EndOf(text) => e \in 1..Len(text) /\ text[e] = Delim)
  BY WithinPart, Zenon
<1> DEFINE all == {k \in DOMAIN text : text[k] = Delim}
<1>2. /\ IsFiniteSet(Delims(text, p)) /\ Cardinality(Delims(text, p)) \in Nat
      /\ Delims(text, p) \subseteq all /\ IsFiniteSet(all)
  BY <1>0, FiniteParts
<1>3. CountDelims(text) = Cardinality(all)
  BY DEF CountDelims
<1>4. ASSUME e < EndOf(text) PROVE FALSE
  <2>1. e \notin Delims(text, p) /\ e \in all
    <3>1. e \in 1..Len(text) /\ text[e] = Delim /\ e \notin 1..(p - 1)
      BY <1>0, <1>1, <1>4
    <3> QED
      BY <1>0, <3>1, Zenon DEF Delims
  <2>2. Cardinality(Delims(text, p) \cup {e}) = Cardinality(Delims(text, p)) + 1
    BY <1>2, <2>1, FS_AddElement
  <2>3. Cardinality(Delims(text, p) \cup {e}) <= Cardinality(all)
    <3>1. Delims(text, p) \cup {e} \subseteq all
      BY <1>2, <2>1, Zenon
    <3> QED
      BY <1>2, <3>1, FS_Subset, Zenon
  <2>4. Cardinality(all) \in Nat
    BY <1>2, FS_CardinalityType
  <2> HIDE DEF all
  <2> QED
    BY <1>2, <1>3, <2>2, <2>3, <2>4
<1> QED
  BY <1>0, <1>1, <1>4

\* The starts that get a part of their own are those before p and p itself,
\* when the loop ends at p.
LEMMA LoopEndsLimited ==
  ASSUME NEW text \in Seq(Symbols), NEW limit \in Nat, NEW p \in Starts(text),
         limit = 0 \/ Cardinality(Begun(text, p)) < limit,
         Cardinality(Begun(text, p)) + 1 = limit \/ FirstFrom(text, p, {Delim}) = EndOf(text)
  PROVE  Limited(text, limit) = Begun(text, p) \cup {p}
<1> DEFINE n == Cardinality(Begun(text, p))
           e == FirstFrom(text, p, {Delim})
<1>0. /\ Len(text) \in Nat /\ EndOf(text) = Len(text) + 1
      /\ Starts(text) \subseteq 1..Len(text) /\ p \in 1..(Len(text) + 1)
  BY TextFacts, StartsFacts
<1>1. n \in Nat
  BY <1>0, FiniteParts
<1>2. Ordinal(text, p) = n + 1
  BY OrdinalFacts
<1>3. limit = 0 \/ n < limit
  OBVIOUS
<1>4. n + 1 = limit \/ e = EndOf(text)
  OBVIOUS
<1>5. \A k \in Starts(text) : k <= p \/ e < k
  BY WithinPart, Zenon
<1> HIDE DEF n, e
<1>6. ASSUME NEW j \in Begun(text, p) PROVE j \in Limited(text, limit)
  <2>1. j \in Starts(text) /\ j < p
    BY DEF Begun
  <2>2. Ordinal(text, j) <= n /\ Ordinal(text, j) \in Nat
    BY <1>0, <2>1, OrdinalFacts DEF n
  <2>3. limit = 0 \/ Ordinal(text, j) <= limit
    BY <1>1, <1>3, <2>2
  <2> QED
    BY <2>1, <2>3, Zenon DEF Limited
<1>7. p \in Limited(text, limit)
  <2>1. limit = 0 \/ Ordinal(text, p) <= limit
    BY <1>1, <1>2, <1>3
  <2> QED
    BY <2>1, Zenon DEF Limited
<1>8. ASSUME NEW j \in Limited(text, limit) PROVE j \in Begun(text, p) \cup {p}
  <2>1. j \in Starts(text) /\ (limit = 0 \/ Ordinal(text, j) <= limit)
    BY Zenon DEF Limited
  <2>2. j \in 1..Len(text)
    BY <1>0, <2>1
  <2>3. CASE j < p
    BY <2>1, <2>3, Zenon DEF Begun
  <2>4. CASE j = p
    BY <2>4
  <2>5. CASE p < j
    <3>1. CASE e = EndOf(text)
      <4>1. j <= p \/ e < j
        BY <1>5, <2>1
      <4> QED
        BY <1>0, <2>2, <2>5, <3>1, <4>1
    <3>2. CASE n + 1 = limit
      <4>1. Ordinal(text, p) < Ordinal(text, j)
        BY <2>1, <2>5, OrdinalsDiffer
      <4>2. Ordinal(text, j) \in Nat
        BY <2>1, OrdinalFacts
      <4> QED
        BY <1>1, <1>2, <2>1, <3>2, <4>1, <4>2
    <3> QED
      BY <1>4, <3>1, <3>2
  <2> QED
    BY <1>0, <2>2, <2>3, <2>4, <2>5
<1> QED
  BY <1>6, <1>7, <1>8, Zenon

\* The text ended in delimiters: every start has its part.
LEMMA EndsInDelims ==
  ASSUME NEW text \in Seq(Symbols), NEW limit \in Nat, NEW n, NEW r,
         LoopAt(text, EndOf(text), n, r), limit = 0 \/ n < limit
  PROVE  r = Parts(text, limit)
<1> DEFINE p == EndOf(text)
<1>0. /\ Len(text) \in Nat /\ p = Len(text) + 1 /\ p \in 1..(Len(text) + 1)
      /\ Starts(text) \subseteq 1..Len(text)
  BY TextFacts, StartsFacts
<1>1. /\ Cardinality(Begun(text, p)) = n /\ Stores(r, text, p)
      /\ Cardinality(Begun(text, p)) \in Nat
  BY <1>0, FiniteParts DEF LoopAt
<1> HIDE DEF p
<1>2. \A j \in Starts(text) : j \in Begun(text, p)
  BY <1>0 DEF Begun
<1>3. ASSUME NEW j \in Starts(text)
      PROVE  (limit = 0 \/ Ordinal(text, j) <= limit) /\ Ordinal(text, j) # limit
  <2>1. j < p
    BY <1>0
  <2>2. Ordinal(text, j) <= n /\ Ordinal(text, j) \in Nat \ {0}
    BY <1>0, <1>1, <2>1, OrdinalFacts
  <2> QED
    BY <1>1, <2>2
<1>4. Limited(text, limit) = Begun(text, p)
  BY <1>2, <1>3, Zenon DEF Limited, Begun
<1>5. /\ r \in Seq(Seq(Symbols)) /\ Len(r) = Cardinality(Limited(text, limit))
      /\ \A k \in 1..Len(r) : \E j \in Limited(text, limit) : Ordinal(text, j) = k
  BY <1>1, <1>4, Zenon DEF Stores
<1>6. ASSUME NEW j \in Limited(text, limit)
      PROVE  r[Ordinal(text, j)] =
                SubSeq(text, j, IF Ordinal(text, j) = limit THEN Len(text)
                                ELSE FirstFrom(text, j, {Delim}) - 1)
  <2>1. j \in Begun(text, p) /\ j \in Starts(text)
    BY <1>4, Zenon DEF Begun
  <2>2. r[Ordinal(text, j)] = SubSeq(text, j, FirstFrom(text, j, {Delim}) - 1)
    BY <1>1, <2>1, Zenon DEF Stores
  <2>3. Ordinal(text, j) # limit
    BY <1>3, <2>1, Zenon
  <2> QED
    BY <2>2, <2>3, Zenon
<1> QED
  BY <1>5, <1>6, PartsAre, Zenon

\* What is left of the text is the last part.
LEMMA EndsInPart ==
  ASSUME NEW text \in Seq(Symbols), NEW limit \in Nat, NEW p, NEW n, NEW r,
         LoopAt(text, p, n, r), p < EndOf(text),
         limit = 0 \/ n < limit,
         n + 1 = limit \/ FirstFrom(text, p, {Delim}) = EndOf(text)
  PROVE  Append(r, SubSeq(text, p, EndOf(text) - 1)) = Parts(text, limit)
<1> DEFINE q == SubSeq(text, p, EndOf(text) - 1)
           t == Append(r, q)
<1>0. /\ Len(text) \in Nat /\ EndOf(text) = Len(text) + 1 /\ EndOf(text) - 1 = Len(text)
      /\ Starts(text) \subseteq 1..Len(text) /\ EndOf(text) \in 1..(Len(text) + 1)
  BY TextFacts, StartsFacts
<1>1. /\ p \in Starts(text) /\ p \in 1..(Len(text) + 1)
      /\ Cardinality(Begun(text, p)) = n /\ Stores(r, text, p)
  BY DEF LoopAt
<1>2. n \in Nat
  BY <1>1, FiniteParts
<1>q. q \in Seq(Symbols) /\ q = SubSeq(text, p, Len(text))
  BY <1>0, <1>1, PartOfText
<1> HIDE DEF q
<1>3. StoresTo(t, text, p, q)
  BY <1>1, <1>q, StoresMore
<1> HIDE DEF t
<1>4. Limited(text, limit) = Begun(text, p) \cup {p}
  BY <1>1, LoopEndsLimited
<1>5. Cardinality(Begun(text, p) \cup {p}) = n + 1
  <2>1. p \notin Begun(text, p) /\ IsFiniteSet(Begun(text, p))
    <3>1. ~(p < p)
      BY <1>1
    <3>2. IsFiniteSet(Begun(text, p))
      BY <1>1, FiniteParts
    <3> QED
      BY <3>1, <3>2, Zenon DEF Begun
  <2> QED
    BY <1>1, <2>1, FS_AddElement
<1>6. /\ t \in Seq(Seq(Symbols)) /\ Len(t) = Cardinality(Limited(text, limit))
      /\ \A k \in 1..Len(t) : \E j \in Limited(text, limit) : Ordinal(text, j) = k
  BY <1>1, <1>3, <1>4, <1>5, Zenon DEF StoresTo
<1>7. ASSUME NEW j \in Limited(text, limit)
      PROVE  t[Ordinal(text, j)] =
                SubSeq(text, j, IF Ordinal(text, j) = limit THEN Len(text)
                                ELSE FirstFrom(text, j, {Delim}) - 1)
  <2>1. CASE j \in Begun(text, p)
    <3>1. /\ t[Ordinal(text, j)] = SubSeq(text, j, FirstFrom(text, j, {Delim}) - 1)
          /\ Ordinal(text, j) \in 1..n
      BY <1>1, <1>3, <2>1, Zenon DEF StoresTo
    <3>2. Ordinal(text, j) # limit
      BY <1>2, <3>1
    <3> QED
      BY <3>1, <3>2, Zenon
  <2>2. CASE j = p
    <3>1. t[Ordinal(text, p)] = q
      BY <1>3, Zenon DEF StoresTo
    <3>2. Ordinal(text, p) = n + 1
      BY <1>1, OrdinalFacts
    <3>3. CASE Ordinal(text, p) = limit
      BY <1>q, <2>2, <3>1, <3>3, Zenon
    <3>4. CASE Ordinal(text, p) # limit
      <4>1. FirstFrom(text, p, {Delim}) - 1 = Len(text)
        BY <1>0, <3>2, <3>4
      <4> QED
        BY <1>q, <2>2, <3>1, <3>4, <4>1, Zenon
    <3> QED
      BY <3>3, <3>4
  <2> QED
    BY <1>4, <2>1, <2>2, Zenon
<1>8. t = Parts(text, limit)
  BY <1>6, <1>7, PartsAre, Zenon
<1> QED
  BY <1>8 DEF t, q

\* Of the call: what is stored are the parts before `start', and behind the
\* loop they are the parts of the text.
PartsInv ==
    /\ at = "enter" => index = 0 /\ result = <<>>
    /\ at = "loop" => LoopAt(str, start, index, result)
    /\ at \in {"end", "returned"} => result = Parts(str, max_parts)

LEMMA PartsInvInit == SplitInit => PartsInv
  BY DEF SplitInit, PartsInv

LEMMA PartsInvNext == SplitInv /\ PartsInv /\ [SplitNext]_split => PartsInv'
<1> SUFFICES ASSUME SplitInv, PartsInv, [SplitNext]_split PROVE PartsInv'
  OBVIOUS
<1>0. str \in Seq(Symbols) /\ max_parts \in Nat
  BY TextsAssumption, LimitsAssumption DEF SplitInv
<1>1. CASE Allocate
  <2>1. /\ at = "enter" /\ at' = "loop" /\ index' = 0 /\ result' = <<>> /\ str' = str
        /\ start' = FirstFrom(str, 1, Symbols \ {Delim})
    BY <1>1 DEF Allocate, PartsInv, Skip
  <2>2. LoopAt(str, start', 0, <<>>)
    BY <1>0, <2>1, LoopBegins
  <2> QED
    BY <2>1, <2>2 DEF PartsInv
<1>2. CASE AllocateFails
  BY <1>2 DEF AllocateFails, PartsInv
<1>3. CASE SplitPart
  <2>1. /\ at = "loop" /\ at' = "loop" /\ index' = index + 1 /\ str' = str
        /\ start < EndOf(str) /\ FirstFrom(str, start, {Delim}) < EndOf(str)
        /\ result' = Append(result, SubSeq(str, start, FirstFrom(str, start, {Delim}) - 1))
        /\ start' = FirstFrom(str, FirstFrom(str, start, {Delim}) + 1, Symbols \ {Delim})
    BY <1>3, Zenon DEF SplitPart, MoreParts, Store, NextDelim, Skip
  <2>2. LoopAt(str, start, index, result)
    BY <2>1, Zenon DEF PartsInv
  <2>3. LoopAt(str, start', index + 1, result')
    BY <1>0, <2>1, <2>2, LoopGoesOn
  <2> QED
    BY <2>1, <2>3, Zenon DEF PartsInv
<1>4. CASE LastPart
  <2>1. /\ at = "loop" /\ at' = "end" /\ str' = str /\ max_parts' = max_parts
        /\ start < EndOf(str) => result' = Append(result, SubSeq(str, start, EndOf(str) - 1))
        /\ ~(start < EndOf(str)) => result' = result
        /\ ~(start < EndOf(str) /\ index < MaxParts - 1 /\ FirstFrom(str, start, {Delim}) < EndOf(str))
    BY <1>4, Zenon DEF LastPart, MoreParts, Store, NextDelim
  <2>2. LoopAt(str, start, index, result)
    BY <2>1, Zenon DEF PartsInv
  <2>3. index \in Nat /\ index < MaxParts /\ MaxParts \in Nat
    BY <2>1, SomeParts DEF SplitInv
  <2>4. max_parts = 0 \/ index < max_parts
    BY <2>3 DEF MaxParts
  <2>5. /\ start \in 1..(Len(str) + 1) /\ Len(str) \in Nat /\ EndOf(str) = Len(str) + 1
        /\ start < EndOf(str) => start \in Starts(str)
    BY <1>0, <2>2, TextFacts DEF LoopAt
  <2>6. CASE start < EndOf(str)
    <3>1. FirstFrom(str, start, {Delim}) \in start..EndOf(str)
      BY <1>0, <2>5, <2>6, WithinPart, Zenon
    <3>2. index + 1 = max_parts \/ FirstFrom(str, start, {Delim}) = EndOf(str)
      <4>1. CASE FirstFrom(str, start, {Delim}) = EndOf(str)
        BY <4>1
      <4>2. CASE FirstFrom(str, start, {Delim}) # EndOf(str)
        <5>1. FirstFrom(str, start, {Delim}) < EndOf(str)
          BY <2>5, <3>1, <4>2
        <5>2. index + 1 = MaxParts
          BY <2>1, <2>3, <2>6, <5>1
        <5>3. CASE max_parts = 0
          <6>1. CountDelims(str) + 1 = MaxParts
            BY <5>3 DEF MaxParts
          <6>2. index <= Cardinality(Delims(str, start)) /\ Cardinality(Delims(str, start)) \in Nat
            BY <1>0, <2>2, <2>5, FiniteParts DEF LoopAt
          <6>3. CountDelims(str) \in Nat
            BY <1>0, <2>5, FiniteParts, FS_CardinalityType DEF CountDelims
          <6>4. CountDelims(str) <= Cardinality(Delims(str, start))
            BY <2>3, <5>2, <6>1, <6>2, <6>3
          <6>5. FirstFrom(str, start, {Delim}) = EndOf(str)
            BY <1>0, <2>5, <2>6, <6>4, DelimsRunOut
          <6> QED
            BY <4>2, <6>5
        <5>4. CASE max_parts # 0
          BY <5>2, <5>4 DEF MaxParts
        <5> QED
          BY <5>3, <5>4
      <4> QED
        BY <4>1, <4>2
    <3>3. result' = Parts(str, max_parts)
      BY <1>0, <2>1, <2>2, <2>4, <2>6, <3>2, EndsInPart
    <3> QED
      BY <2>1, <3>3 DEF PartsInv
  <2>7. CASE ~(start < EndOf(str))
    <3>1. start = EndOf(str)
      BY <2>5, <2>7
    <3>2. result = Parts(str, max_parts)
      BY <1>0, <2>2, <2>4, <3>1, EndsInDelims
    <3>3. result' = Parts(str, max_parts)
      BY <2>1, <2>7, <3>2
    <3> QED
      BY <2>1, <3>3 DEF PartsInv
  <2> QED
    BY <2>6, <2>7
<1>5. CASE StrdupFails
  BY <1>5 DEF StrdupFails, PartsInv
<1>6. CASE Finish
  BY <1>6 DEF Finish, PartsInv
<1>7. CASE UNCHANGED split
  BY <1>7 DEF split, PartsInv
<1> QED
  BY <1>1, <1>2, <1>3, <1>4, <1>5, <1>6, <1>7 DEF SplitNext

LEMMA ArgumentPartsInv == ArgumentSpec => []PartsInv
<1>1. ArgumentInit => PartsInv
  BY PartsInvInit DEF ArgumentInit
<1>2. [ArgumentNext]_argument => [SplitNext]_split
  BY DEF ArgumentNext, argument, SplitStep, NotSplit, BeginLoop, LoopStep
<1> QED
  BY <1>1, <1>2, ArgumentSplitInv, PartsInvNext, PTL DEF ArgumentSpec

\* Whatever the text, its delimiters and the limit, strsplit returns the parts
\* of the text, in order, and no part is lost without a limit.
THEOREM SplitsAtDelims == ArgumentSpec => []SplitsIntoParts
<1>1. PartsInv => SplitsIntoParts
  BY Zenon DEF PartsInv, SplitsIntoParts
<1> QED
  BY <1>1, ArgumentPartsInv, PTL

-----------------------------------------------------------------------------
(* remove_char.                                                            *)

KeptTo(part, kept, j) ==
    IF j = 0 THEN <<>>
    ELSE IF part[j] = " " THEN kept[j - 1] ELSE Append(kept[j - 1], part[j])

\* The function RemoveSpaces is defined by.
Kept(part) ==
    LET kept[j \in 0..Len(part)] ==
            IF j = 0 THEN <<>>
            ELSE IF part[j] = " " THEN kept[j - 1] ELSE Append(kept[j - 1], part[j])
    IN  kept

LEMMA KeptToFacts ==
  ASSUME NEW part, NEW f, NEW g, NEW j, j = 0 \/ f[j - 1] = g[j - 1]
  PROVE  /\ KeptTo(part, f, j) = KeptTo(part, g, j)
         /\ KeptTo(part, f, 0) = <<>>
<1>1. CASE j = 0
  BY <1>1, Zenon DEF KeptTo
<1>2. CASE j # 0 /\ part[j] = " "
  BY <1>2, Zenon DEF KeptTo
<1>3. CASE j # 0 /\ part[j] # " "
  BY <1>3, Zenon DEF KeptTo
<1> QED
  BY <1>1, <1>2, <1>3

LEMMA KeptExists ==
  ASSUME NEW part, NEW len \in Nat
  PROVE  \E f : f = [j \in 0..len |-> KeptTo(part, f, j)]
<1> DEFINE IsKept(f, n) == f = [j \in 0..n |-> KeptTo(part, f, j)]
           T == {n \in Nat : ~ \E f : IsKept(f, n)}
<1>1. SUFFICES ASSUME T # {} PROVE FALSE
  <2>1. len \notin T
    BY <1>1, Zenon
  <2> QED
    BY <2>1, Zenon
<1>2. PICK m \in T : \A n \in T : m <= n
  <2>1. T \in SUBSET Nat
    BY Zenon
  <2> HIDE DEF T
  <2> QED
    BY <1>1, <2>1, LeastNumber
<1>3. m \in Nat
  OBVIOUS
<1>4. CASE m = 0
  <2> DEFINE g == [j \in 0..0 |-> <<>>]
  <2>1. IsKept(g, 0)
    <3>1. ASSUME NEW j \in 0..0 PROVE <<>> = KeptTo(part, g, j)
      <4>1. j = 0
        BY <3>1
      <4> QED
        BY <4>1, KeptToFacts, Zenon
    <3> QED
      BY <3>1, Zenon
  <2> QED
    BY <1>4, <2>1, Zenon
<1>5. CASE m # 0
  <2>1. m - 1 \in Nat /\ ~(m <= m - 1)
    BY <1>3, <1>5
  <2>2. PICK f : IsKept(f, m - 1)
    BY <1>2, <2>1, Zenon
  <2> DEFINE g == [j \in 0..m |-> IF j = m THEN KeptTo(part, f, m) ELSE f[j]]
  <2>3. ASSUME NEW j \in 0..m PROVE g[j] = KeptTo(part, g, j)
    <3>1. CASE j = 0
      <4>1. g[0] = f[0] /\ 0 \in 0..(m - 1)
        BY <1>3, <1>5
      <4>2. f[0] = KeptTo(part, f, 0)
        BY <2>2, <4>1, Zenon
      <4> QED
        BY <3>1, <4>1, <4>2, Zenon DEF KeptTo
    <3>2. CASE j # 0
      <4>1. j - 1 \in 0..m /\ j - 1 # m /\ j \in Nat
        BY <1>3, <3>2
      <4>2. g[j - 1] = f[j - 1]
        BY <4>1, Zenon
      <4>3. KeptTo(part, g, j) = KeptTo(part, f, j)
        <5> HIDE DEF g
        <5> QED
          BY <4>2, KeptToFacts
      <4>4. g[j] = KeptTo(part, f, j)
        <5>1. CASE j = m
          BY <5>1, Zenon
        <5>2. CASE j # m
          <6>1. j \in 0..(m - 1)
            BY <1>3, <5>2
          <6>2. f[j] = KeptTo(part, f, j)
            BY <2>2, <6>1, Zenon
          <6> QED
            BY <5>2, <6>2, Zenon
        <5> QED
          BY <5>1, <5>2
      <4> QED
        BY <4>3, <4>4, Zenon
    <3> QED
      BY <3>1, <3>2
  <2>4. IsKept(g, m)
    <3>1. g = [j \in 0..m |-> g[j]]
      BY Zenon
    <3> HIDE DEF g
    <3> QED
      BY <2>3, <3>1, Zenon
  <2> QED
    BY <1>2, <2>4, Zenon
<1> QED
  BY <1>4, <1>5

\* The step of the loop of remove_char.
LEMMA KeptStep ==
  ASSUME NEW part \in Seq(Symbols)
  PROVE  /\ RemoveSpaces(part) = Kept(part)[Len(part)]
         /\ Kept(part)[0] = <<>>
         /\ \A j \in 1..Len(part) :
               Kept(part)[j] = IF part[j] = " " THEN Kept(part)[j - 1]
                               ELSE Append(Kept(part)[j - 1], part[j])
<1>0. Len(part) \in Nat
  BY TextFacts
<1>1. \E f : f = [j \in 0..Len(part) |->
                    IF j = 0 THEN <<>>
                    ELSE IF part[j] = " " THEN f[j - 1] ELSE Append(f[j - 1], part[j])]
  BY <1>0, KeptExists, Zenon DEF KeptTo
<1>2. Kept(part) = [j \in 0..Len(part) |->
                      IF j = 0 THEN <<>>
                      ELSE IF part[j] = " " THEN Kept(part)[j - 1]
                           ELSE Append(Kept(part)[j - 1], part[j])]
  BY <1>1, Zenon DEF Kept
<1>3. RemoveSpaces(part) = Kept(part)[Len(part)]
  BY Zenon DEF RemoveSpaces, Kept
<1>4. Kept(part)[0] = <<>>
  <2>1. 0 \in 0..Len(part)
    BY <1>0
  <2> QED
    BY <1>2, <2>1, Zenon
<1>5. ASSUME NEW j \in 1..Len(part)
      PROVE  Kept(part)[j] = IF part[j] = " " THEN Kept(part)[j - 1]
                             ELSE Append(Kept(part)[j - 1], part[j])
  <2>1. j \in 0..Len(part) /\ j # 0
    BY <1>0
  <2> QED
    BY <1>2, <2>1, Zenon
<1> QED
  BY <1>3, <1>4, <1>5

\* a is the beginning of b.
Begins(a, b) == Len(a) <= Len(b) /\ \A l \in 1..Len(a) : a[l] = b[l]

LEMMA AppendBegins ==
  ASSUME NEW S, NEW a \in Seq(S), NEW b \in Seq(S), NEW x \in S
  PROVE  /\ Begins(b, b)
         /\ Append(b, x) \in Seq(S)
         /\ Begins(a, b) => Begins(a, Append(b, x))
         /\ Begins(b, Append(b, x))
<1>1. /\ Append(b, x) \in Seq(S) /\ Len(Append(b, x)) = Len(b) + 1
      /\ \A k \in 1..Len(b) : Append(b, x)[k] = b[k]
      /\ Len(b) \in Nat /\ Len(a) \in Nat
  BY Appending
<1> QED
  BY <1>1 DEF Begins

\* What is kept only grows.
LEMMA KeptGrows ==
  ASSUME NEW part \in Seq(Symbols)
  PROVE  \A j \in 0..Len(part) :
            /\ Kept(part)[j] \in Seq(Symbols)
            /\ \A k \in 0..j : Begins(Kept(part)[k], Kept(part)[j])
<1> DEFINE K == Kept(part)
           P(j) == K[j] \in Seq(Symbols) /\ \A k \in 0..j : Begins(K[k], K[j])
           T == {j \in 0..Len(part) : ~P(j)}
<1>0. Len(part) \in Nat /\ \A j \in 1..Len(part) : part[j] \in Symbols
  BY TextFacts
<1>k. /\ K[0] = <<>>
      /\ \A j \in 1..Len(part) :
            K[j] = IF part[j] = " " THEN K[j - 1] ELSE Append(K[j - 1], part[j])
  BY KeptStep, Zenon
<1> HIDE DEF K
<1>1. SUFFICES ASSUME T # {} PROVE FALSE
  BY <1>1, Zenon DEF K
<1>2. PICK m \in T : \A j \in T : m <= j
  <2>1. T \in SUBSET Nat
    BY <1>0
  <2> HIDE DEF T
  <2> QED
    BY <1>1, <2>1, LeastNumber
<1>3. m \in 0..Len(part) /\ ~P(m)
  BY Zenon
<1>4. CASE m = 0
  <2>1. <<>> \in Seq(Symbols) /\ Begins(<<>>, <<>>)
    BY DEF Begins
  <2>2. \A k \in 0..0 : k = 0
    OBVIOUS
  <2> QED
    BY <1>3, <1>4, <1>k, <2>1, <2>2, Zenon
<1>5. CASE m # 0
  <2>1. m - 1 \in 0..Len(part) /\ ~(m <= m - 1) /\ m \in 1..Len(part) /\ m - 1 \in 0..(m - 1)
    BY <1>0, <1>3, <1>5
  <2>2. P(m - 1)
    BY <1>2, <2>1, Zenon
  <2>3. \A k \in 0..m : k \in 0..(m - 1) \/ k = m
    BY <1>0, <1>3
  <2>4. CASE part[m] = " "
    <3>1. K[m] = K[m - 1]
      BY <1>k, <2>1, <2>4, Zenon
    <3>2. Begins(K[m], K[m])
      BY <2>1, <2>2, <3>1, Zenon
    <3> QED
      BY <1>3, <2>2, <2>3, <3>1, <3>2, Zenon
  <2>5. CASE part[m] # " "
    <3>1. K[m] = Append(K[m - 1], part[m])
      BY <1>k, <2>1, <2>5, Zenon
    <3>2. K[m - 1] \in Seq(Symbols) /\ part[m] \in Symbols
      BY <1>0, <2>1, <2>2
    <3>3. K[m] \in Seq(Symbols)
      BY <3>1, <3>2, AppendBegins
    <3>4. Begins(K[m], K[m])
      BY <3>3 DEF Begins
    <3>5. ASSUME NEW k \in 0..(m - 1) PROVE Begins(K[k], K[m])
      <4>1. Begins(K[k], K[m - 1]) /\ k \in 0..Len(part) /\ ~(m <= k) /\ k \in 0..k
        BY <1>0, <1>3, <2>2, <3>5
      <4>2. K[k] \in Seq(Symbols)
        BY <1>2, <4>1, Zenon
      <4> QED
        BY <3>1, <3>2, <4>1, <4>2, AppendBegins
    <3> QED
      BY <1>3, <2>3, <3>3, <3>4, <3>5, Zenon
  <2> QED
    BY <2>4, <2>5
<1> QED
  BY <1>4, <1>5

\* The spaces taken out of the beginning of a part.
LEMMA KeptOfBeginning ==
  ASSUME NEW part \in Seq(Symbols), NEW n \in 0..Len(part)
  PROVE  RemoveSpaces(SubSeq(part, 1, n)) = Kept(part)[n]
<1> DEFINE b == SubSeq(part, 1, n)
           K == Kept(part)
           B == Kept(b)
           T == {j \in 0..n : B[j] # K[j]}
<1>0. /\ Len(part) \in Nat /\ n \in Nat /\ n <= Len(part)
      /\ b \in Seq(Symbols) /\ Len(b) = n
      /\ \A j \in 1..n : b[j] = part[j]
  BY TextFacts
<1> HIDE DEF b
<1>k. /\ K[0] = <<>>
      /\ \A j \in 1..Len(part) :
            K[j] = IF part[j] = " " THEN K[j - 1] ELSE Append(K[j - 1], part[j])
  BY KeptStep, Zenon
<1>b. /\ RemoveSpaces(b) = B[n]
      /\ B[0] = <<>>
      /\ \A j \in 1..n :
            B[j] = IF b[j] = " " THEN B[j - 1] ELSE Append(B[j - 1], b[j])
  BY <1>0, KeptStep
<1> HIDE DEF K, B
<1>1. ASSUME T # {} PROVE FALSE
  <2>1. T \in SUBSET Nat
    BY <1>0
  <2>2. PICK m \in T : \A j \in T : m <= j
    <3> HIDE DEF T
    <3> QED
      BY <1>1, <2>1, LeastNumber
  <2>3. m \in 0..n /\ B[m] # K[m]
    BY Zenon
  <2>4. m # 0
    BY <1>k, <1>b, <2>3, Zenon
  <2>5. m - 1 \in 0..n /\ ~(m <= m - 1) /\ m \in 1..n /\ m \in 1..Len(part)
    BY <1>0, <2>3, <2>4
  <2>6. B[m - 1] = K[m - 1]
    BY <2>2, <2>5, Zenon
  <2>7. B[m] = IF b[m] = " " THEN B[m - 1] ELSE Append(B[m - 1], b[m])
    BY <1>b, <2>5, Zenon
  <2>8. K[m] = IF part[m] = " " THEN K[m - 1] ELSE Append(K[m - 1], part[m])
    BY <1>k, <2>5, Zenon
  <2>9. b[m] = part[m]
    BY <1>0, <2>5, Zenon
  <2> QED
    BY <2>3, <2>6, <2>7, <2>8, <2>9, Zenon
<1>2. n \in 0..n
  BY <1>0
<1>3. B[n] = K[n]
  BY <1>1, <1>2, Zenon
<1> QED
  BY <1>b, <1>3, Zenon DEF b, K

\* The beginning of one of the names of a hook is no other name.
LEMMA BeginningOfName ==
  ASSUME NEW word \in Seq(Symbols), NEW begun \in Seq(Symbols), Begins(begun, word),
         NEW h \in Hooks, NEW g \in Hooks, word \in Names(h), begun \in Names(g)
  PROVE  g = h
<1>1. (word = <<h>> \/ word = <<"FLAG", h>>) /\ (begun = <<g>> \/ begun = <<"FLAG", g>>)
  BY DEF Names
<1>2. g # "FLAG" /\ h # "FLAG"
  BY DEF Hooks, TcPoints, XdpModes
<1>3. Len(begun) <= Len(word) /\ \A l \in 1..Len(begun) : begun[l] = word[l]
  BY DEF Begins
<1>4. CASE begun = <<g>> /\ word = <<h>>
  BY <1>3, <1>4
<1>5. CASE begun = <<g>> /\ word = <<"FLAG", h>>
  BY <1>2, <1>3, <1>5
<1>6. CASE begun = <<"FLAG", g>> /\ word = <<h>>
  BY <1>3, <1>6
<1>7. CASE begun = <<"FLAG", g>> /\ word = <<"FLAG", h>>
  BY <1>3, <1>7
<1> QED
  BY <1>1, <1>4, <1>5, <1>6, <1>7

\* What the cut leaves of a part is the token of the part or none.
LEMMA CutToken ==
  ASSUME NEW part \in Seq(Symbols), NEW n \in 0..Len(part), TokenOf(part) # "invalid"
  PROVE  TokenOf(SubSeq(part, 1, n)) \in {TokenOf(part), "invalid"}
<1> DEFINE word == RemoveSpaces(part)
           begun == RemoveSpaces(SubSeq(part, 1, n))
<1>0. Len(part) \in Nat /\ Len(part) \in 0..Len(part) /\ n \in 0..Len(part)
  BY TextFacts
<1>1. word = Kept(part)[Len(part)] /\ begun = Kept(part)[n]
  BY KeptStep, KeptOfBeginning, Zenon
<1>2. word \in Seq(Symbols) /\ begun \in Seq(Symbols) /\ Begins(begun, word)
  BY <1>0, <1>1, KeptGrows, Zenon
<1>3. TokenOf(part) = IF \E h \in Hooks : word \in Names(h)
                      THEN CHOOSE h \in Hooks : word \in Names(h) ELSE "invalid"
  BY Zenon DEF TokenOf
<1>4. TokenOf(SubSeq(part, 1, n)) = IF \E h \in Hooks : begun \in Names(h)
                                    THEN CHOOSE h \in Hooks : begun \in Names(h) ELSE "invalid"
  BY Zenon DEF TokenOf
<1> HIDE DEF word, begun
<1>5. TokenOf(part) \in Hooks /\ word \in Names(TokenOf(part))
  BY <1>3, Zenon
<1>6. CASE \E h \in Hooks : begun \in Names(h)
  <2>1. TokenOf(SubSeq(part, 1, n)) \in Hooks /\ begun \in Names(TokenOf(SubSeq(part, 1, n)))
    BY <1>4, <1>6, Zenon
  <2>2. TokenOf(SubSeq(part, 1, n)) = TokenOf(part)
    BY <1>2, <1>5, <2>1, BeginningOfName
  <2> QED
    BY <2>2, Zenon
<1>7. CASE ~ \E h \in Hooks : begun \in Names(h)
  BY <1>4, <1>7, Zenon
<1> QED
  BY <1>6, <1>7

-----------------------------------------------------------------------------
(* The parts of a text and of its beginning.                               *)

\* Without a limit every start has its part, and every part its start.
LEMMA OrdinalsUsed ==
  ASSUME NEW text \in Seq(Symbols)
  PROVE  \A p \in 1..(Len(text) + 1) : \A k \in 1..Cardinality(Begun(text, p)) :
            \E j \in Begun(text, p) : Ordinal(text, j) = k
<1> DEFINE P(p) == \A k \in 1..Cardinality(Begun(text, p)) :
                      \E j \in Begun(text, p) : Ordinal(text, j) = k
           T == {p \in 1..(Len(text) + 1) : ~P(p)}
<1>0. Len(text) \in Nat /\ Starts(text) \subseteq 1..Len(text)
  BY StartsFacts
<1>1. SUFFICES ASSUME T # {} PROVE FALSE
  BY <1>1, Zenon
<1>2. PICK m \in T : \A p \in T : m <= p
  <2>1. T \in SUBSET Nat
    BY <1>0
  <2> HIDE DEF T
  <2> QED
    BY <1>1, <2>1, LeastNumber
<1>3. m \in 1..(Len(text) + 1) /\ ~P(m)
  BY Zenon
<1>4. CASE m = 1
  <2>1. Begun(text, 1) = {}
    <3>1. ASSUME NEW k \in Starts(text) PROVE ~(k < 1)
      <4>1. k \in 1..Len(text)
        BY <1>0, <3>1
      <4> QED
        BY <1>0, <4>1
    <3> QED
      BY <3>1, Zenon DEF Begun
  <2>2. 1..Cardinality(Begun(text, 1)) = {}
    <3>1. Cardinality(Begun(text, 1)) = 0
      BY <2>1, FS_EmptySet, Zenon
    <3> QED
      BY <3>1
  <2> QED
    BY <1>3, <1>4, <2>2, Zenon
<1>5. CASE m # 1
  <2> DEFINE p == m - 1
  <2>1. p \in 1..(Len(text) + 1) /\ ~(m <= p) /\ m = p + 1 /\ p \in Nat
    BY <1>0, <1>3, <1>5
  <2> HIDE DEF p
  <2>2. P(p)
    BY <1>2, <2>1, Zenon
  <2>3. IsFiniteSet(Begun(text, p)) /\ Cardinality(Begun(text, p)) \in Nat
    BY <2>1, FiniteParts
  <2>b. \A k \in Starts(text) : k < m <=> k < p \/ k = p
    BY <1>0, <2>1
  <2>4. CASE p \in Starts(text)
    <3>1. Begun(text, m) = Begun(text, p) \cup {p} /\ p \notin Begun(text, p)
      <4>1. ~(p < p)
        BY <2>1
      <4> QED
        BY <2>4, <2>b, <4>1, Zenon DEF Begun
    <3>2. Cardinality(Begun(text, m)) = Cardinality(Begun(text, p)) + 1
      BY <2>3, <3>1, FS_AddElement
    <3>3. Ordinal(text, p) = Cardinality(Begun(text, p)) + 1
      BY <2>4, OrdinalFacts
    <3>4. ASSUME NEW k \in 1..Cardinality(Begun(text, m))
          PROVE  \E j \in Begun(text, m) : Ordinal(text, j) = k
      <4>1. k \in 1..Cardinality(Begun(text, p)) \/ k = Cardinality(Begun(text, p)) + 1
        BY <2>3, <3>2
      <4> QED
        BY <2>2, <3>1, <3>3, <4>1, Zenon
    <3> QED
      BY <1>3, <3>4, Zenon
  <2>5. CASE p \notin Starts(text)
    <3>1. Begun(text, m) = Begun(text, p)
      BY <2>5, <2>b, Zenon DEF Begun
    <3> QED
      BY <1>3, <2>2, <3>1, Zenon
  <2> QED
    BY <2>4, <2>5
<1> QED
  BY <1>4, <1>5

\* The parts of a text without a limit, by their starts.
LEMMA PartAt ==
  ASSUME NEW text \in Seq(Symbols)
  PROVE  /\ DOMAIN Parts(text, 0) = 1..Cardinality(Starts(text))
         /\ \A j \in Starts(text) :
              /\ Ordinal(text, j) \in 1..Cardinality(Starts(text))
              /\ Parts(text, 0)[Ordinal(text, j)] =
                   SubSeq(text, j, FirstFrom(text, j, {Delim}) - 1)
         /\ \A k \in 1..Cardinality(Starts(text)) : \E j \in Starts(text) : Ordinal(text, j) = k
<1> DEFINE first(k) == CHOOSE j \in Limited(text, 0) : Ordinal(text, j) = k
           last(k)  == IF k = 0 THEN Len(text) ELSE FirstFrom(text, first(k), {Delim}) - 1
           N == Cardinality(Starts(text))
<1>0. /\ Len(text) \in Nat /\ Starts(text) \subseteq 1..Len(text)
      /\ Len(text) + 1 \in 1..(Len(text) + 1)
  BY StartsFacts
<1>1. Begun(text, Len(text) + 1) = Starts(text)
  <2>1. \A k \in Starts(text) : k < Len(text) + 1
    BY <1>0
  <2> QED
    BY <2>1, Zenon DEF Begun
<1>2. N \in Nat
  BY <1>0, <1>1, FiniteParts
<1>3. Limited(text, 0) = Starts(text)
  BY Zenon DEF Limited
<1>4. Parts(text, 0) = [k \in 1..N |-> SubSeq(text, first(k), last(k))]
  <2>1. Parts(text, 0) = [k \in 1..Cardinality(Limited(text, 0)) |-> SubSeq(text, first(k), last(k))]
    BY DEF Parts, Limited
  <2> QED
    BY <1>3, <2>1, Zenon
<1>5. \A k \in 1..N : \E j \in Starts(text) : Ordinal(text, j) = k
  <2>1. \A k \in 1..Cardinality(Begun(text, Len(text) + 1)) :
          \E j \in Begun(text, Len(text) + 1) : Ordinal(text, j) = k
    BY <1>0, OrdinalsUsed
  <2> QED
    BY <1>1, <2>1, Zenon
<1> HIDE DEF N
<1>6. ASSUME NEW j \in Starts(text)
      PROVE  /\ Ordinal(text, j) \in 1..N
             /\ Parts(text, 0)[Ordinal(text, j)] = SubSeq(text, j, FirstFrom(text, j, {Delim}) - 1)
  <2>1. Ordinal(text, j) \in 1..N
    <3>1. j < Len(text) + 1
      BY <1>0
    <3>2. Ordinal(text, j) <= N /\ Ordinal(text, j) \in Nat \ {0}
      BY <1>0, <1>1, <3>1, OrdinalFacts DEF N
    <3> QED
      BY <1>2, <3>2
  <2> DEFINE f == first(Ordinal(text, j))
  <2>2. f \in Starts(text) /\ Ordinal(text, f) = Ordinal(text, j)
    BY <1>3, Zenon
  <2> HIDE DEF f
  <2>3. f = j
    <3>1. Ordinal(text, j) \in Nat /\ f \in Int /\ j \in Int
      BY <1>0, <2>2, OrdinalFacts
    <3>2. ~(f < j) /\ ~(j < f)
      <4>1. f < j => Ordinal(text, f) < Ordinal(text, j)
        BY <2>2, OrdinalsDiffer
      <4>2. j < f => Ordinal(text, j) < Ordinal(text, f)
        BY <2>2, OrdinalsDiffer
      <4> QED
        BY <2>2, <3>1, <4>1, <4>2
    <3> QED
      BY <3>1, <3>2
  <2>4. Ordinal(text, j) # 0
    BY OrdinalFacts
  <2>5. last(Ordinal(text, j)) = FirstFrom(text, f, {Delim}) - 1
    BY <2>4, Zenon DEF f
  <2>6. Parts(text, 0)[Ordinal(text, j)] = SubSeq(text, f, last(Ordinal(text, j)))
    BY <1>4, <2>1, Zenon DEF f
  <2> QED
    BY <2>1, <2>3, <2>5, <2>6, Zenon
<1>7. DOMAIN Parts(text, 0) = 1..N
  BY <1>4, Zenon
<1> QED
  BY <1>5, <1>6, <1>7, Zenon DEF N

LEMMA LenOfParts ==
  ASSUME NEW text \in Seq(Symbols)
  PROVE  /\ Len(Parts(text, 0)) = Cardinality(Starts(text))
         /\ Cardinality(Starts(text)) \in Nat
<1>1. Cardinality(Starts(text)) \in Nat
  <2>1. IsFiniteSet(1..Len(text)) /\ Starts(text) \subseteq 1..Len(text)
    BY StartsFacts, FS_Interval
  <2> QED
    BY <2>1, FS_Subset, FS_CardinalityType
<1>2. DOMAIN Parts(text, 0) = 1..Cardinality(Starts(text))
  BY PartAt, Zenon
<1>3. ASSUME NEW f, NEW n \in Nat, DOMAIN f = 1..n PROVE Len(f) = n
  BY <1>3
<1> QED
  BY <1>1, <1>2, <1>3

\* The part that starts at j.
PartFrom(text, j) == SubSeq(text, j, FirstFrom(text, j, {Delim}) - 1)

LEMMA BeginningFacts ==
  ASSUME NEW text \in Seq(Symbols), NEW n \in 0..Len(text), NEW c, c = SubSeq(text, 1, n)
  PROVE  /\ c \in Seq(Symbols) /\ Len(c) = n /\ DOMAIN c = 1..n /\ EndOf(c) = n + 1
         /\ \A l \in 1..n : c[l] = text[l]
  BY DEF EndOf

LEMMA StartsOfBeginning ==
  ASSUME NEW text \in Seq(Symbols), NEW n \in 0..Len(text), NEW c, c = SubSeq(text, 1, n)
  PROVE  /\ Starts(c) = {j \in Starts(text) : j <= n}
         /\ \A j \in Starts(c) : Ordinal(c, j) = Ordinal(text, j)
<1>0. /\ c \in Seq(Symbols) /\ Len(c) = n /\ DOMAIN c = 1..n
      /\ \A l \in 1..n : c[l] = text[l]
  BY BeginningFacts
<1>1. DOMAIN text = 1..Len(text) /\ Len(text) \in Nat /\ n \in Nat /\ n <= Len(text)
  BY TextFacts
<1>2. ASSUME NEW j \in 1..n
      PROVE  j \in 1..Len(text) /\ c[j] = text[j] /\ (j = 1 \/ c[j - 1] = text[j - 1])
  <2>1. j \in 1..Len(text) /\ (j = 1 \/ j - 1 \in 1..n)
    BY <1>1
  <2> QED
    BY <1>0, <2>1
<1>3. ASSUME NEW j PROVE j \in Starts(c) <=> j \in {k \in Starts(text) : k <= n}
  <2>1. CASE j \in 1..n
    <3>1. j <= n
      BY <1>1, <2>1
    <3> QED
      BY <1>0, <1>1, <1>2, <2>1, <3>1, Zenon DEF Starts
  <2>2. CASE j \notin 1..n
    <3>1. j \notin Starts(c)
      BY <1>0, <2>2, Zenon DEF Starts
    <3>2. ASSUME j \in Starts(text), j <= n PROVE FALSE
      <4>1. j \in 1..Len(text)
        BY <3>2, StartsFacts
      <4> QED
        BY <1>1, <2>2, <3>2, <4>1
    <3> QED
      BY <3>1, <3>2, Zenon
  <2> QED
    BY <2>1, <2>2
<1>4. Starts(c) = {j \in Starts(text) : j <= n}
  BY <1>3, Zenon
<1>5. ASSUME NEW j \in Starts(c) PROVE Ordinal(c, j) = Ordinal(text, j)
  <2>1. j \in Starts(text) /\ j <= n /\ j \in 1..Len(text)
    BY <1>4, StartsFacts
  <2>2. ASSUME NEW k \in Starts(text), k <= j PROVE k \in Starts(c)
    <3>1. k \in 1..Len(text)
      BY <2>2, StartsFacts
    <3>2. k <= n
      BY <1>1, <2>1, <2>2, <3>1
    <3> QED
      BY <1>4, <3>2, Zenon
  <2>3. {k \in Starts(c) : k <= j} = {k \in Starts(text) : k <= j}
    BY <1>4, <2>2, Zenon
  <2> QED
    BY <2>3, Zenon DEF Ordinal
<1> QED
  BY <1>4, <1>5

LEMMA PartOfBeginningIs ==
  ASSUME NEW S, NEW text \in Seq(S), NEW n \in 0..Len(text), NEW j \in 1..n,
         NEW e \in j..(Len(text) + 1), NEW f \in j..(n + 1), f <= e
  PROVE  /\ f - j \in 0..Len(SubSeq(text, j, e - 1))
         /\ SubSeq(SubSeq(text, 1, n), j, f - 1) = SubSeq(SubSeq(text, j, e - 1), 1, f - j)
<1> DEFINE c == SubSeq(text, 1, n)
           q == SubSeq(text, j, e - 1)
           a == SubSeq(c, j, f - 1)
           b == SubSeq(q, 1, f - j)
<1>1. c \in Seq(S) /\ Len(c) = n /\ \A l \in 1..n : c[l] = text[l]
  OBVIOUS
<1>2. q \in Seq(S) /\ Len(q) = e - j /\ \A l \in 1..(e - j) : q[l] = text[l + j - 1]
  OBVIOUS
<1>3. f - j \in 0..Len(q)
  BY <1>2
<1> HIDE DEF c, q
<1>4. a \in Seq(S) /\ Len(a) = f - j /\ \A l \in 1..(f - j) : a[l] = c[l + j - 1]
  BY <1>1
<1>5. b \in Seq(S) /\ Len(b) = f - j /\ \A l \in 1..(f - j) : b[l] = q[l]
  BY <1>2, <1>3
<1> HIDE DEF a, b
<1>6. ASSUME NEW l \in 1..(f - j) PROVE a[l] = b[l]
  <2>1. l + j - 1 \in 1..n /\ l \in 1..(e - j)
    OBVIOUS
  <2> QED
    BY <1>1, <1>2, <1>4, <1>5, <2>1, Zenon
<1>7. a = b
  BY <1>4, <1>5, <1>6
<1> QED
  BY <1>3, <1>7 DEF a, b, c, q

\* The part of the beginning that starts at j is the beginning of the part of
\* the text, and all of it when its delimiter is still there.
LEMMA PartOfBeginning ==
  ASSUME NEW text \in Seq(Symbols), NEW n \in 0..Len(text), NEW c, c = SubSeq(text, 1, n),
         NEW j \in Starts(c)
  PROVE  /\ \E q \in 0..Len(PartFrom(text, j)) : PartFrom(c, j) = SubSeq(PartFrom(text, j), 1, q)
         /\ PartFrom(text, j) \in Seq(Symbols)
         /\ FirstFrom(text, j, {Delim}) <= n => PartFrom(c, j) = PartFrom(text, j)
<1> DEFINE e == FirstFrom(text, j, {Delim})
           f == FirstFrom(c, j, {Delim})
<1>0. /\ c \in Seq(Symbols) /\ Len(c) = n /\ EndOf(c) = n + 1
      /\ \A l \in 1..n : c[l] = text[l]
  <2>1. /\ SubSeq(text, 1, n) \in Seq(Symbols) /\ Len(SubSeq(text, 1, n)) = n
        /\ DOMAIN SubSeq(text, 1, n) = 1..n /\ EndOf(SubSeq(text, 1, n)) = n + 1
        /\ \A l \in 1..n : SubSeq(text, 1, n)[l] = text[l]
    BY BeginningFacts, Zenon
  <2>2. c = SubSeq(text, 1, n)
    OBVIOUS
  <2> HIDE DEF e, f
  <2> QED
    BY <2>1, <2>2, Zenon
<1>1. EndOf(text) = Len(text) + 1 /\ Len(text) \in Nat /\ n \in Nat /\ n <= Len(text)
  BY TextFacts
<1>2. j \in 1..n /\ j \in 1..(Len(text) + 1) /\ j \in 1..(Len(c) + 1)
  <2>1. j \in 1..Len(c)
    BY <1>0, StartsFacts
  <2> QED
    BY <1>0, <1>1, <2>1
<1>3. /\ e \in j..EndOf(text)
      /\ e = EndOf(text) \/ text[e] \in {Delim}
      /\ \A l \in j..(e - 1) : text[l] \notin {Delim}
  BY <1>2, FirstFromFacts, Zenon
<1>4. /\ f \in j..EndOf(c)
      /\ f = EndOf(c) \/ c[f] \in {Delim}
      /\ \A l \in j..(f - 1) : c[l] \notin {Delim}
  BY <1>0, <1>2, FirstFromFacts, Zenon
<1> HIDE DEF e, f
<1>5. e <= n => f = e
  <2>1. ASSUME e <= n, f < e PROVE FALSE
    <3>1. f \in 1..n /\ f # EndOf(c) /\ f \in j..(e - 1)
      BY <1>0, <1>1, <1>2, <1>3, <1>4, <2>1
    <3> QED
      BY <1>0, <1>3, <1>4, <3>1
  <2>2. ASSUME e <= n, e < f PROVE FALSE
    <3>1. e \in 1..n /\ e # EndOf(text) /\ e \in j..(f - 1)
      BY <1>0, <1>1, <1>2, <1>3, <1>4, <2>2
    <3> QED
      BY <1>0, <1>3, <1>4, <3>1
  <2>3. e \in Int /\ f \in Int
    BY <1>0, <1>1, <1>2, <1>3, <1>4
  <2> QED
    BY <2>1, <2>2, <2>3
<1>6. f <= e /\ f \in j..(n + 1) /\ e \in j..(Len(text) + 1)
  BY <1>0, <1>1, <1>2, <1>3, <1>4, <1>5
<1>7. /\ f - j \in 0..Len(SubSeq(text, j, e - 1))
      /\ SubSeq(c, j, f - 1) = SubSeq(SubSeq(text, j, e - 1), 1, f - j)
  BY <1>2, <1>6, PartOfBeginningIs
<1>8. SubSeq(text, j, e - 1) \in Seq(Symbols)
  BY <1>2, <1>6, PartOfText
<1>9. e <= n => SubSeq(c, j, f - 1) = SubSeq(text, j, e - 1)
  <2> SUFFICES ASSUME e <= n PROVE SubSeq(c, j, f - 1) = SubSeq(text, j, e - 1)
    OBVIOUS
  <2>1. f - j = Len(SubSeq(text, j, e - 1))
    BY <1>2, <1>5, <1>6
  <2>2. SubSeq(SubSeq(text, j, e - 1), 1, f - j) = SubSeq(text, j, e - 1)
    BY <1>8, <2>1
  <2> QED
    BY <1>7, <2>2
<1> QED
  BY <1>7, <1>8, <1>9, Zenon DEF PartFrom, e, f

-----------------------------------------------------------------------------
(* The tokens of a cut argument.                                           *)

\* cut has the tokens of raw as far as it goes, the last one perhaps spoilt.
CutOf(cut, raw) ==
    /\ cut \in Seq(Tokens) /\ raw \in Seq(Tokens)
    /\ Len(cut) <= Len(raw)
    /\ \A k \in 1..Len(cut) : cut[k] \in {raw[k], "invalid"}
    /\ \A k \in 1..Len(cut) : k < Len(cut) => cut[k] = raw[k]

\* Cutting an argument takes hooks away and adds none.
LEMMA CutTokensAddNothing ==
  ASSUME NEW cut, NEW raw, CutOf(cut, raw)
  PROVE  TcOf(cut) \subseteq TcOf(raw) /\ XdpOf(cut) \subseteq XdpOf(raw)
<1>0. /\ DOMAIN cut = 1..Len(cut) /\ DOMAIN raw = 1..Len(raw)
      /\ Len(cut) \in Nat /\ Len(raw) \in Nat /\ Len(cut) <= Len(raw)
  BY DEF CutOf
<1>1. ASSUME NEW m \in Scanned(cut), cut[m] \in Hooks
      PROVE  m \in Scanned(raw) /\ raw[m] = cut[m]
  <2>1. m \in 1..Len(cut) /\ m \in 1..Len(raw)
    BY <1>0, <1>1 DEF Scanned
  <2>2. raw[m] = cut[m]
    <3>1. cut[m] # "invalid"
      BY <1>1 DEF Hooks, TcPoints, XdpModes
    <3> QED
      BY <2>1, <3>1, Zenon DEF CutOf
  <2>3. ASSUME NEW k \in 1..Len(raw), NEW l \in 1..Len(raw), k < l, l < m
        PROVE  raw[k] \notin XdpModes \/ raw[l] \notin XdpModes
    <3>1. k \in 1..Len(cut) /\ l \in 1..Len(cut) /\ k < Len(cut) /\ l < Len(cut)
      BY <1>0, <2>1, <2>3
    <3>2. cut[k] = raw[k] /\ cut[l] = raw[l]
      BY <3>1, Zenon DEF CutOf
    <3>3. cut[k] \notin XdpModes \/ cut[l] \notin XdpModes
      BY <1>0, <1>1, <2>3, <3>1 DEF Scanned
    <3> QED
      BY <3>2, <3>3, Zenon
  <2>4. m \in Scanned(raw)
    BY <1>0, <2>1, <2>3, Zenon DEF Scanned
  <2> QED
    BY <2>2, <2>4
<1>2. ASSUME NEW h \in {cut[m] : m \in Scanned(cut)}, h \in Hooks
      PROVE  h \in {raw[m] : m \in Scanned(raw)}
  BY <1>1, <1>2, Zenon
<1>3. TcPoints \subseteq Hooks /\ XdpModes \subseteq Hooks
  BY DEF Hooks
<1> QED
  BY <1>2, <1>3, Zenon DEF TcOf, XdpOf

LEMMA TokensOfParts ==
  ASSUME NEW text \in Seq(Symbols)
  PROVE  /\ TokensOf(Parts(text, 0)) \in Seq(Tokens)
         /\ Len(TokensOf(Parts(text, 0))) = Cardinality(Starts(text))
         /\ \A j \in Starts(text) :
              TokensOf(Parts(text, 0))[Ordinal(text, j)] = TokenOf(PartFrom(text, j))
<1> DEFINE N == Cardinality(Starts(text))
           P == Parts(text, 0)
<1>1. N \in Nat /\ Len(P) = N
  BY LenOfParts
<1>2. ASSUME NEW j \in Starts(text)
      PROVE  Ordinal(text, j) \in 1..N /\ P[Ordinal(text, j)] = PartFrom(text, j)
  BY PartAt, Zenon DEF PartFrom
<1> HIDE DEF N, P
<1>3. TokensOf(P) = [k \in 1..N |-> TokenOf(P[k])]
  BY <1>1, Zenon DEF TokensOf
<1>4. \A k \in 1..N : TokenOf(P[k]) \in Tokens
  BY TokenOfToken, Zenon
<1>5. TokensOf(P) \in Seq(Tokens) /\ Len(TokensOf(P)) = N
  BY <1>1, <1>3, <1>4
<1>6. ASSUME NEW j \in Starts(text)
      PROVE  TokensOf(P)[Ordinal(text, j)] = TokenOf(PartFrom(text, j))
  BY <1>2, <1>3, Zenon
<1> QED
  BY <1>5, <1>6 DEF N, P

LEMMA CutIsCut ==
  ASSUME NEW text \in Seq(Symbols), NEW n \in 0..Len(text),
         \A j \in DOMAIN TokensOf(Parts(text, 0)) : TokensOf(Parts(text, 0))[j] # "invalid"
  PROVE  CutOf(TokensOf(Parts(SubSeq(text, 1, n), 0)), TokensOf(Parts(text, 0)))
<1> DEFINE c == SubSeq(text, 1, n)
           raw == TokensOf(Parts(text, 0))
           cut == TokensOf(Parts(c, 0))
<1>0. c \in Seq(Symbols) /\ n \in Nat /\ Len(c) = n
  BY TextFacts
<1>1. /\ Starts(c) = {j \in Starts(text) : j <= n}
      /\ \A j \in Starts(c) : Ordinal(c, j) = Ordinal(text, j)
  BY StartsOfBeginning, Zenon
<1>2. /\ raw \in Seq(Tokens) /\ Len(raw) = Cardinality(Starts(text))
      /\ \A j \in Starts(text) : raw[Ordinal(text, j)] = TokenOf(PartFrom(text, j))
  BY TokensOfParts, Zenon
<1>3. /\ cut \in Seq(Tokens) /\ Len(cut) = Cardinality(Starts(c))
      /\ \A j \in Starts(c) : cut[Ordinal(c, j)] = TokenOf(PartFrom(c, j))
  BY <1>0, TokensOfParts, Zenon
<1>4. ASSUME NEW j \in Starts(c)
      PROVE  /\ \E q \in 0..Len(PartFrom(text, j)) : PartFrom(c, j) = SubSeq(PartFrom(text, j), 1, q)
             /\ PartFrom(text, j) \in Seq(Symbols)
             /\ FirstFrom(text, j, {Delim}) <= n => PartFrom(c, j) = PartFrom(text, j)
  BY PartOfBeginning, Zenon
<1>5. \A k \in 1..Cardinality(Starts(c)) : \E j \in Starts(c) : Ordinal(c, j) = k
  BY <1>0, PartAt, Zenon
<1>6. \A k \in DOMAIN raw : raw[k] # "invalid"
  BY Zenon
<1>7. \A j \in Starts(text) : Ordinal(text, j) \in 1..Cardinality(Starts(text))
  BY PartAt, Zenon
<1> HIDE DEF c, raw, cut
<1>8. Cardinality(Starts(c)) <= Cardinality(Starts(text))
  <2>1. IsFiniteSet(1..Len(text)) /\ Starts(text) \subseteq 1..Len(text)
    BY StartsFacts, FS_Interval
  <2>2. IsFiniteSet(Starts(text)) /\ Starts(c) \subseteq Starts(text)
    BY <1>1, <2>1, FS_Subset
  <2> QED
    BY <2>2, FS_Subset
<1>9. ASSUME NEW k \in 1..Len(cut)
      PROVE  cut[k] \in {raw[k], "invalid"} /\ (k < Len(cut) => cut[k] = raw[k])
  <2>1. PICK j \in Starts(c) : Ordinal(c, j) = k
    BY <1>3, <1>5, Zenon
  <2>2. /\ j \in Starts(text) /\ Ordinal(text, j) = k
        /\ cut[k] = TokenOf(PartFrom(c, j)) /\ raw[k] = TokenOf(PartFrom(text, j))
    BY <1>1, <1>2, <1>3, <2>1, Zenon
  <2>3. raw[k] # "invalid"
    <3>1. k \in 1..Len(raw)
      BY <1>2, <1>7, <2>2, Zenon
    <3>2. DOMAIN raw = 1..Len(raw)
      BY <1>2, SeqDomain
    <3> QED
      BY <1>6, <3>1, <3>2, Zenon
  <2>4. cut[k] \in {raw[k], "invalid"}
    <3>1. PICK q \in 0..Len(PartFrom(text, j)) : PartFrom(c, j) = SubSeq(PartFrom(text, j), 1, q)
      BY <1>4
    <3>2. TokenOf(SubSeq(PartFrom(text, j), 1, q)) \in {TokenOf(PartFrom(text, j)), "invalid"}
      BY <1>4, <2>2, <2>3, CutToken
    <3> QED
      BY <2>2, <3>1, <3>2, Zenon
  <2>5. ASSUME k < Len(cut) PROVE cut[k] = raw[k]
    <3>1. k + 1 \in 1..Len(cut)
      BY <1>3, <2>5
    <3>2. PICK l \in Starts(c) : Ordinal(c, l) = k + 1
      BY <1>3, <1>5, <3>1, Zenon
    <3>3. l \in Starts(text) /\ l <= n /\ Ordinal(text, l) = k + 1
      BY <1>1, <3>2, Zenon
    <3>4. j \in Int /\ l \in Int
      BY <2>2, <3>3, StartsFacts
    <3>5. ~(l < j) /\ l # j
      <4>1. l < j => Ordinal(text, l) < Ordinal(text, j)
        BY <2>2, <3>3, OrdinalsDiffer
      <4> QED
        BY <2>2, <3>3, <4>1
    <3>6. FirstFrom(text, j, {Delim}) <= n
      <4>1. l <= j \/ FirstFrom(text, j, {Delim}) < l
        BY <2>2, <3>3, WithinPart, Zenon
      <4>2. FirstFrom(text, j, {Delim}) \in j..EndOf(text) /\ EndOf(text) \in Int
        <5>1. FirstFrom(text, j, {Delim}) \in j..EndOf(text)
          BY <2>2, WithinPart, Zenon
        <5>2. EndOf(text) \in Int
          BY TextFacts
        <5> QED
          BY <5>1, <5>2
      <4> QED
        BY <1>0, <3>3, <3>4, <3>5, <4>1, <4>2
    <3> QED
      BY <1>4, <2>2, <3>6, Zenon
  <2> QED
    BY <2>4, <2>5
<1>10. CutOf(cut, raw)
  <2>1. Len(cut) <= Len(raw)
    BY <1>2, <1>3, <1>8, Zenon
  <2> QED
    BY <1>2, <1>3, <1>9, <2>1, Zenon DEF CutOf
<1> QED
  BY <1>10 DEF c, raw, cut

LEMMA WholeIsCut ==
  ASSUME NEW raw \in Seq(Tokens)
  PROVE  CutOf(raw, raw)
  BY DEF CutOf

\* The text that is split is the cut of the typed one, and the loop runs over
\* the tokens of its parts.
CutInv ==
    /\ typed \in Texts /\ str = Cut(typed)
    /\ pc \in {"loop", "done", "refused"} => attach_points = TokensOf(Parts(str, 0))
    /\ pc \in {"split", "not split", "loop", "done", "refused"}

LEMMA CutInvNext == PartsInv /\ CutInv /\ [ArgumentNext]_argument => CutInv'
<1> SUFFICES ASSUME PartsInv, CutInv, [ArgumentNext]_argument PROVE CutInv'
  OBVIOUS
<1>1. typed' = typed /\ str' = str
  BY DEF ArgumentNext, argument, SplitStep, NotSplit, BeginLoop, LoopStep, SplitNext, Allocate,
         AllocateFails, SplitPart, LastPart, StrdupFails, Finish, split
<1>2. CASE SplitStep
  BY <1>1, <1>2 DEF SplitStep, vars, CutInv
<1>3. CASE NotSplit
  BY <1>1, <1>3 DEF NotSplit, CutInv
<1>4. CASE BeginLoop
  <2>1. /\ at = "returned" /\ max_parts = 0 /\ attach_points' = TokensOf(result)
        /\ pc' = "loop"
    BY <1>4 DEF BeginLoop, Reset
  <2>2. attach_points' = TokensOf(Parts(str, 0))
    BY <2>1 DEF PartsInv
  <2> QED
    BY <1>1, <2>1, <2>2 DEF CutInv
<1>5. CASE LoopStep
  <2>1. /\ pc = "loop" /\ attach_points' = attach_points /\ pc' \in {"loop", "done", "refused"}
    BY <1>5 DEF LoopStep, Next, TcToken, XdpToken, InvalidToken, Return
  <2> QED
    BY <1>1, <2>1 DEF CutInv
<1>6. CASE UNCHANGED argument
  BY <1>1, <1>6 DEF argument, vars, CutInv
<1> QED
  BY <1>2, <1>3, <1>4, <1>5, <1>6 DEF ArgumentNext

LEMMA ArgumentCutInv == ArgumentSpec => []CutInv
<1>1. ArgumentInit => CutInv
  BY DEF ArgumentInit, CutInv
<1> QED
  BY <1>1, CutInvNext, ArgumentPartsInv, PTL DEF ArgumentSpec

LEMMA CutIsSafe == CutInv /\ ComputesPoints => CutAddsNothing
<1> DEFINE raw == TokensOf(Parts(typed, 0))
<1> SUFFICES ASSUME CutInv, ComputesPoints, pc \in {"done", "refused"},
                    \A j \in DOMAIN raw : raw[j] # "invalid"
             PROVE  tc_attach_points \subseteq TcOf(raw) /\ xdp_attach_point \subseteq XdpOf(raw)
  BY Zenon DEF CutAddsNothing
<1>1. /\ attach_points = TokensOf(Parts(Cut(typed), 0))
      /\ tc_attach_points = TcOf(attach_points) /\ xdp_attach_point = XdpOf(attach_points)
  BY Zenon DEF CutInv, ComputesPoints
<1>2. typed \in Seq(Symbols)
  BY TextsAssumption DEF CutInv
<1>3. CutOf(TokensOf(Parts(Cut(typed), 0)), raw)
  <2>1. CASE Len(typed) < BufferSize
    <3>1. Cut(typed) = typed
      BY <2>1, Zenon DEF Cut
    <3>2. raw \in Seq(Tokens)
      BY <1>2, TokensOfParts, Zenon
    <3> HIDE DEF raw
    <3>3. CutOf(raw, raw)
      BY <3>2, WholeIsCut, Zenon
    <3> QED
      BY <3>1, <3>3, Zenon DEF raw
  <2>2. CASE ~(Len(typed) < BufferSize)
    <3>1. Cut(typed) = SubSeq(typed, 1, BufferSize - 1)
      BY <2>2, Zenon DEF Cut
    <3>2. BufferSize - 1 \in 0..Len(typed)
      <4>1. Len(typed) \in Nat
        BY <1>2
      <4> QED
        BY <2>2, <4>1, BufferAssumption
    <3>3. CutOf(TokensOf(Parts(SubSeq(typed, 1, BufferSize - 1), 0)), raw)
      BY <1>2, <3>2, CutIsCut, Zenon
    <3> QED
      BY <3>1, <3>3, Zenon
  <2> QED
    BY <2>1, <2>2
<1> HIDE DEF raw
<1> QED
  BY <1>1, <1>3, CutTokensAddNothing, Zenon

\* Wherever the buffer of load cuts an argument of hook names, and whatever
\* its size, no hook is used that was not typed.
THEOREM CutIsHarmless == ArgumentSpec => []CutAddsNothing
  BY ArgumentCutInv, LoopComputesPoints, CutIsSafe, PTL

\* From the text to the flag words: those the function leaves behind are TcOf
\* and XdpOf of what the parts of the cut text name.
FlagsOfText ==
    pc \in {"done", "refused"} =>
        LET tokens == TokensOf(Parts(Cut(typed), 0))
        IN  tc_attach_points = TcOf(tokens) /\ xdp_attach_point = XdpOf(tokens)

\* set_attachment_points as a whole, strsplit and remove_char included, is a
\* function of the text, whatever its length and its delimiters.
THEOREM FlagsAreOfText == ArgumentSpec => []FlagsOfText
<1>1. CutInv /\ ComputesPoints => FlagsOfText
  BY Zenon DEF CutInv, ComputesPoints, FlagsOfText
<1> QED
  BY <1>1, ArgumentCutInv, LoopComputesPoints, PTL
=============================================================================
