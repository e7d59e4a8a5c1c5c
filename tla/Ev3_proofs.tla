----------------------------- MODULE Ev3_proofs -----------------------------
(***************************************************************************)
(* Theorems about SnekServer for sockets and pipes of any size, any number *)
(* of clients and any plans, and about Ev3Ports for any number of ports    *)
(* and of plugs that come and go, devices of any kinds and any durations.  *)
(***************************************************************************)
EXTENDS SnekServer, Ev3Ports, SequenceTheorems, TLAPS

----------------------------------------------------------------------------
(***************************************************************************)
(* The server.  What has been read, what waits in a pipe, in the server    *)
(* and in a socket is looked at as one sequence: a byte that is passed on  *)
(* stays where it is in it, and what is dropped with a client is the end   *)
(* of it.                                                                  *)
(***************************************************************************)

----------------------------------------------------------------------------
(***************************************************************************)
(* Sequences that are passed on                                            *)
(***************************************************************************)
LEMMA MovesOn ==
  ASSUME NEW B, NEW x \in Seq(B), NEW y \in Seq(B), y # << >>
  PROVE  Append(x, Head(y)) \o Tail(y) = x \o y
<1>1. Head(y) \in B /\ Tail(y) \in Seq(B) /\ Len(Tail(y)) = Len(y) - 1 /\ Len(y) \in Nat \ {0}
      /\ Head(y) = y[1] /\ Len(x) \in Nat
  BY HeadTailProperties, EmptySeq, LenProperties
<1>2. /\ Append(x, Head(y)) \in Seq(B) /\ Len(Append(x, Head(y))) = Len(x) + 1
  BY <1>1, AppendProperties
<1>3. Append(x, Head(y)) \o Tail(y) \in Seq(B) /\ x \o y \in Seq(B)
      /\ Len(Append(x, Head(y)) \o Tail(y)) = Len(x \o y)
      /\ Len(x \o y) = Len(x) + Len(y)
  BY <1>1, <1>2, ConcatProperties
<1>4. ASSUME NEW i \in 1..Len(x \o y)
      PROVE  (Append(x, Head(y)) \o Tail(y))[i] = (x \o y)[i]
  <2>1. CASE i <= Len(x)
    BY <1>1, <1>2, <1>3, <2>1, ConcatProperties, AppendProperties
  <2>2. CASE i = Len(x) + 1
    BY <1>1, <1>2, <1>3, <2>2, ConcatProperties, AppendProperties
  <2>3. CASE i > Len(x) + 1
    <3>1. i - Len(x) - 1 \in 1..Len(Tail(y))
      BY <1>1, <1>3, <2>3
    <3>2. (Append(x, Head(y)) \o Tail(y))[i] = Tail(y)[i - (Len(x) + 1)]
      BY <1>1, <1>2, <1>3, <2>3, ConcatProperties
    <3>3. Tail(y)[i - (Len(x) + 1)] = y[i - Len(x)]
      BY <1>1, <3>1, HeadTailProperties
    <3>4. (x \o y)[i] = y[i - Len(x)]
      BY <1>1, <1>3, <2>3, ConcatProperties
    <3> QED
      BY <3>2, <3>3, <3>4
  <2> QED
    BY <1>1, <1>3, <2>1, <2>2, <2>3
<1> QED
  BY <1>3, <1>4, SeqEqual

LEMMA JoinsOn ==
  ASSUME NEW B, NEW x \in Seq(B), NEW y \in Seq(B), NEW b \in B
  PROVE  x \o Append(y, b) = Append(x \o y, b) /\ Append(x, b) = x \o <<b>>
<1>1. <<b>> \in Seq(B) /\ x \o y \in Seq(B)
  BY ConcatProperties
<1> QED
  BY <1>1, AppendIsConcat, ConcatAssociative

----------------------------------------------------------------------------
(***************************************************************************)
(* What snek reads                                                         *)
(***************************************************************************)
Typed == Nat \X Nat

Chain(q) ==
  /\ q # << >> => q[1][2] = 1
  /\ \A i \in 1..(Len(q) - 1) : Continues(q[i], q[i + 1])

LEMMA ChainGrows ==
  ASSUME NEW q \in Seq(Typed), NEW b \in Typed, Chain(q),
         IF q = << >> THEN b[2] = 1 ELSE Continues(q[Len(q)], b)
  PROVE  Chain(Append(q, b))
<1>1. /\ Append(q, b) \in Seq(Typed) /\ Append(q, b) # << >> /\ Len(Append(q, b)) = Len(q) + 1
      /\ \A i \in 1..Len(q) : Append(q, b)[i] = q[i]
      /\ Append(q, b)[Len(q) + 1] = b /\ Len(q) \in Nat /\ (q # << >> => Len(q) # 0)
  BY AppendProperties, LenProperties, EmptySeq
<1>2. Append(q, b)[1][2] = 1
  BY <1>1 DEF Chain
<1>3. ASSUME NEW i \in 1..Len(q) PROVE Continues(Append(q, b)[i], Append(q, b)[i + 1])
  <2>1. CASE i = Len(q)
    BY <1>1, <2>1
  <2>2. CASE i # Len(q)
    <3>1. i \in 1..(Len(q) - 1) /\ i + 1 \in 1..Len(q)
      BY <1>1, <2>2
    <3> QED
      BY <1>1, <3>1 DEF Chain
  <2> QED
    BY <2>1, <2>2
<1> QED
  BY <1>1, <1>2, <1>3 DEF Chain

\* The first part of a sequence
LEMMA FirstPart ==
  ASSUME NEW B, NEW x \in Seq(B), NEW y \in Seq(B)
  PROVE  /\ Len(x) \in Nat /\ Len(x) <= Len(x \o y) /\ Len(x \o y) \in Nat /\ x \o y \in Seq(B)
         /\ \A i \in 1..Len(x) : i \in 1..Len(x \o y) /\ (x \o y)[i] = x[i]
         /\ x # << >> => Len(x) >= 1 /\ x \o y # << >>
<1>1. /\ Len(x) \in Nat /\ Len(y) \in Nat /\ Len(x \o y) = Len(x) + Len(y) /\ x \o y \in Seq(B)
      /\ x # << >> => Len(x) >= 1 /\ x \o y # << >>
  BY ConcatProperties, LenProperties, EmptySeq, ConcatEqualIffEmpty
<1>2. ASSUME NEW i \in 1..Len(x) PROVE i \in 1..Len(x \o y) /\ (x \o y)[i] = x[i]
  BY <1>1, ConcatProperties
<1> QED
  BY <1>1, <1>2

LEMMA ChainBegins ==
  ASSUME NEW x \in Seq(Typed), NEW y \in Seq(Typed), Chain(x \o y)
  PROVE  Chain(x)
<1>1. /\ Len(x) \in Nat /\ Len(x) <= Len(x \o y) /\ Len(x \o y) \in Nat
      /\ \A i \in 1..Len(x) : (x \o y)[i] = x[i]
      /\ x # << >> => Len(x) >= 1 /\ x \o y # << >>
  BY FirstPart
<1>2. \A i \in 1..(Len(x) - 1) : i \in 1..(Len(x \o y) - 1) /\ i \in 1..Len(x) /\ i + 1 \in 1..Len(x)
  BY <1>1
<1> QED
  BY <1>1, <1>2 DEF Chain

\* What a client has typed that the server has not read yet
Untouched(k, n) == [i \in 1..n |-> <<k, i>>]

LEMMA ChainGoesOn ==
  ASSUME NEW x \in Seq(Typed), NEW k \in Nat, NEW n \in Nat, Chain(x),
         \A i \in 1..Len(x) : x[i][1] < k
  PROVE  /\ Untouched(k, n) \in Seq(Typed) /\ Chain(x \o Untouched(k, n))
         /\ \A i \in 1..Len(x \o Untouched(k, n)) : (x \o Untouched(k, n))[i][1] <= k
<1> DEFINE y == Untouched(k, n)
           q == x \o y
<1>1. y \in Seq(Typed) /\ Len(y) = n /\ \A i \in 1..n : y[i] = <<k, i>>
  BY DEF Untouched, Typed
<1> HIDE DEF y
<1>2. /\ q \in Seq(Typed) /\ Len(q) = Len(x) + n /\ Len(x) \in Nat
      /\ \A i \in 1..(Len(x) + n) : q[i] = IF i <= Len(x) THEN x[i] ELSE y[i - Len(x)]
      /\ x # << >> => Len(x) >= 1
      /\ q # << >> => Len(q) >= 1
  <2>1. /\ q \in Seq(Typed) /\ Len(q) = Len(x) + n /\ Len(x) \in Nat
        /\ \A i \in 1..(Len(x) + n) : q[i] = IF i <= Len(x) THEN x[i] ELSE y[i - Len(x)]
    BY <1>1, ConcatProperties, LenProperties
  <2> HIDE DEF q
  <2> QED
    BY <2>1, EmptySeq
<1> HIDE DEF q
<1>3. ASSUME NEW i \in 1..Len(q)
      PROVE  \/ i <= Len(x) /\ q[i] = x[i] /\ x[i] \in Typed
             \/ i > Len(x) /\ q[i] = <<k, i - Len(x)>>
  <2>1. CASE i <= Len(x)
    BY <1>2, <2>1, ElementOfSeq
  <2>2. CASE i > Len(x)
    <3>1. i - Len(x) \in 1..n
      BY <1>2, <2>2
    <3> QED
      BY <1>1, <1>2, <2>2, <3>1, SMTT(60)
  <2> QED
    BY <1>2, <2>1, <2>2
<1>4. ASSUME NEW i \in 1..Len(q) PROVE q[i][1] <= k
  <2>1. CASE i <= Len(x) /\ q[i] = x[i] /\ x[i] \in Typed
    <3>1. i \in 1..Len(x)
      BY <1>2, <2>1
    <3>2. x[i][1] < k
      BY <3>1
    <3>3. x[i][1] \in Nat
      BY <2>1 DEF Typed
    <3> QED
      BY <2>1, <3>2, <3>3
  <2>2. CASE q[i] = <<k, i - Len(x)>>
    BY <2>2
  <2> QED
    BY <1>3, <2>1, <2>2
<1>5. q # << >> => q[1][2] = 1
  <2> SUFFICES ASSUME q # << >> PROVE q[1][2] = 1
    OBVIOUS
  <2>1. 1 \in 1..Len(q)
    BY <1>2
  <2>2. CASE Len(x) = 0
    BY <1>2, <1>3, <2>1, <2>2
  <2>3. CASE Len(x) # 0
    <3>1. x # << >> /\ q[1] = x[1]
      BY <1>2, <2>1, <2>3, EmptySeq
    <3> QED
      BY <3>1 DEF Chain
  <2> QED
    BY <2>2, <2>3
<1>6. ASSUME NEW i \in 1..(Len(q) - 1) PROVE Continues(q[i], q[i + 1])
  <2>0. i \in 1..Len(q) /\ i + 1 \in 1..Len(q)
    BY <1>2
  <2>1. CASE i + 1 <= Len(x)
    <3>1. i \in 1..(Len(x) - 1) /\ q[i] = x[i] /\ q[i + 1] = x[i + 1]
      BY <1>2, <2>0, <2>1
    <3> QED
      BY <3>1 DEF Chain
  <2>2. CASE i = Len(x)
    <3>1. q[i] = x[i] /\ x[i] \in Typed /\ i \in 1..Len(x) /\ q[i + 1] = <<k, 1>>
      BY <1>2, <1>3, <2>0, <2>2
    <3>2. x[i][1] < k
      BY <3>1
    <3> QED
      BY <3>1, <3>2 DEF Continues, Typed
  <2>3. CASE i > Len(x)
    <3>1. q[i] = <<k, i - Len(x)>> /\ q[i + 1] = <<k, i + 1 - Len(x)>>
      BY <1>2, <1>3, <2>0, <2>3
    <3> QED
      BY <1>2, <3>1 DEF Continues
  <2> QED
    BY <1>2, <2>1, <2>2, <2>3
<1> QED
  BY <1>1, <1>4, <1>5, <1>6 DEF Chain, y, q

----------------------------------------------------------------------------
(***************************************************************************)
(* What a client sees                                                      *)
(***************************************************************************)
Shown == Outputs \X Nat

\* No byte of the stream is after number c.
UpTo(q, s, c) == \A i \in 1..Len(q) : q[i][1] = s => q[i][2] <= c

\* The last byte of the stream has number c.
LastIs(q, s, c) ==
  \A i \in 1..Len(q) :
    q[i][1] = s /\ (\A j \in (i + 1)..Len(q) : q[j][1] # s) => q[i][2] = c

LEMMA OneAfter ==
  ASSUME NEW q \in Seq(Shown), NEW s, InTurn(q, s), NEW i \in 1..Len(q), NEW j \in 1..Len(q), i < j,
         q[i][1] = s, q[j][1] = s, \A m \in (i + 1)..(j - 1) : q[m][1] # s
  PROVE  q[j][2] = q[i][2] + 1
<1>1. DOMAIN q = 1..Len(q)
  BY LenProperties
<1> QED
  BY <1>1, Zenon DEF InTurn

LEMMA ShownGrows ==
  ASSUME NEW q \in Seq(Shown), NEW b \in Shown, NEW s \in Outputs, NEW c \in Nat,
         InTurn(q, s), UpTo(q, s, c), LastIs(q, s, c), b[1] = s, b[2] = c + 1
  PROVE  /\ InTurn(Append(q, b), s) /\ UpTo(Append(q, b), s, c + 1)
         /\ LastIs(Append(q, b), s, c + 1)
<1> DEFINE z == Append(q, b)
<1>1. /\ z \in Seq(Shown) /\ Len(z) = Len(q) + 1 /\ Len(q) \in Nat /\ z[Len(q) + 1] = b
      /\ \A i \in 1..Len(q) : z[i] = q[i]
      /\ DOMAIN z = 1..Len(z) /\ DOMAIN q = 1..Len(q)
  BY AppendProperties, LenProperties
<1> HIDE DEF z
<1>2. UpTo(z, s, c + 1)
  <2> SUFFICES ASSUME NEW i \in 1..Len(z), z[i][1] = s PROVE z[i][2] <= c + 1
    BY DEF UpTo
  <2>1. CASE i \in 1..Len(q)
    <3>1. z[i] = q[i] /\ q[i] \in Shown
      BY <1>1, <2>1, ElementOfSeq
    <3>2. q[i][2] <= c /\ q[i][2] \in Nat
      BY <2>1, <3>1 DEF UpTo, Shown
    <3> QED
      BY <3>1, <3>2
  <2>2. CASE i = Len(q) + 1
    BY <1>1, <2>2
  <2> QED
    BY <1>1, <2>1, <2>2
<1>3. LastIs(z, s, c + 1)
  <2> SUFFICES ASSUME NEW i \in 1..Len(z), z[i][1] = s,
                      \A j \in (i + 1)..Len(z) : z[j][1] # s
               PROVE  z[i][2] = c + 1
    BY DEF LastIs
  <2>1. i = Len(z)
    <3> SUFFICES ASSUME i # Len(z) PROVE FALSE
      OBVIOUS
    <3>1. Len(z) \in (i + 1)..Len(z)
      BY <1>1
    <3> QED
      BY <1>1, <3>1
  <2> QED
    BY <1>1, <2>1
<1>4. InTurn(z, s)
  <2> SUFFICES ASSUME NEW i \in 1..Len(z), NEW j \in 1..Len(z), i < j,
                      z[i][1] = s, z[j][1] = s, \A m \in (i + 1)..(j - 1) : z[m][1] # s
               PROVE  z[j][2] = z[i][2] + 1
    BY <1>1 DEF InTurn
  <2>1. i \in 1..Len(q) /\ z[i] = q[i]
    BY <1>1
  <2>2. CASE j \in 1..Len(q)
    <3>1. z[j] = q[j] /\ \A m \in (i + 1)..(j - 1) : m \in 1..Len(q) /\ z[m] = q[m]
      BY <1>1, <2>1, <2>2
    <3>2. q[i][1] = s /\ q[j][1] = s /\ \A m \in (i + 1)..(j - 1) : q[m][1] # s
      BY <2>1, <3>1
    <3>3. q[j][2] = q[i][2] + 1
      BY <2>1, <2>2, <3>2, OneAfter
    <3> QED
      BY <2>1, <3>1, <3>3
  <2>3. CASE j = Len(z)
    <3>1. \A m \in (i + 1)..Len(q) : m \in 1..Len(q) /\ z[m] = q[m] /\ q[m][1] # s
      BY <1>1, <2>1, <2>3
    <3>2. q[i][2] = c
      BY <2>1, <3>1 DEF LastIs
    <3> QED
      BY <1>1, <2>1, <2>3, <3>2
  <2> QED
    BY <1>1, <2>2, <2>3
<1> QED
  BY <1>2, <1>3, <1>4 DEF z

\* A byte of the other stream
LEMMA OthersGrow ==
  ASSUME NEW q \in Seq(Shown), NEW b \in Shown, NEW s \in Outputs, NEW c \in Nat, b[1] # s
  PROVE  /\ InTurn(q, s) => InTurn(Append(q, b), s)
         /\ UpTo(q, s, c) => UpTo(Append(q, b), s, c)
         /\ LastIs(q, s, c) => LastIs(Append(q, b), s, c)
<1> DEFINE z == Append(q, b)
<1>1. /\ z \in Seq(Shown) /\ Len(z) = Len(q) + 1 /\ Len(q) \in Nat /\ z[Len(q) + 1] = b
      /\ \A i \in 1..Len(q) : z[i] = q[i]
      /\ DOMAIN z = 1..Len(z) /\ DOMAIN q = 1..Len(q)
  BY AppendProperties, LenProperties
<1> HIDE DEF z
<1>2. ASSUME NEW i \in 1..Len(z), z[i][1] = s PROVE i \in 1..Len(q) /\ z[i] = q[i]
  BY <1>1, <1>2
<1>3. UpTo(q, s, c) => UpTo(z, s, c)
  BY <1>2 DEF UpTo
<1>4. LastIs(q, s, c) => LastIs(z, s, c)
  <2> SUFFICES ASSUME LastIs(q, s, c), NEW i \in 1..Len(z), z[i][1] = s,
                      \A j \in (i + 1)..Len(z) : z[j][1] # s
               PROVE  z[i][2] = c
    BY DEF LastIs
  <2>1. i \in 1..Len(q) /\ z[i] = q[i]
    BY <1>2
  <2>2. \A j \in (i + 1)..Len(q) : j \in (i + 1)..Len(z) /\ z[j] = q[j]
    BY <1>1, <2>1
  <2> QED
    BY <2>1, <2>2 DEF LastIs
<1>5. InTurn(q, s) => InTurn(z, s)
  <2> SUFFICES ASSUME InTurn(q, s), NEW i \in 1..Len(z), NEW j \in 1..Len(z), i < j,
                      z[i][1] = s, z[j][1] = s, \A m \in (i + 1)..(j - 1) : z[m][1] # s
               PROVE  z[j][2] = z[i][2] + 1
    BY <1>1 DEF InTurn
  <2>1. i \in 1..Len(q) /\ z[i] = q[i] /\ j \in 1..Len(q) /\ z[j] = q[j]
    BY <1>2
  <2>2. \A m \in (i + 1)..(j - 1) : z[m] = q[m]
    BY <1>1, <2>1
  <2>3. q[i][1] = s /\ q[j][1] = s /\ \A m \in (i + 1)..(j - 1) : q[m][1] # s
    BY <2>1, <2>2
  <2>4. q[j][2] = q[i][2] + 1
    BY <2>1, <2>3, OneAfter
  <2> QED
    BY <2>1, <2>4
<1> QED
  BY <1>3, <1>4, <1>5 DEF z

LEMMA ShownBegins ==
  ASSUME NEW x \in Seq(Shown), NEW y \in Seq(Shown), NEW s
  PROVE  /\ InTurn(x \o y, s) => InTurn(x, s)
         /\ \A c : UpTo(x \o y, s, c) => UpTo(x, s, c)
         /\ \A q \in Seq(Shown) : /\ Before(x \o y, q, s) => Before(x, q, s)
                                  /\ Before(q, x \o y, s) => Before(q, x, s)
<1> DEFINE z == x \o y
<1>1. /\ Len(x) \in Nat /\ Len(x) <= Len(z) /\ Len(z) \in Nat /\ z \in Seq(Shown)
      /\ \A i \in 1..Len(x) : i \in 1..Len(z) /\ z[i] = x[i]
  BY FirstPart
<1>2. DOMAIN z = 1..Len(z) /\ DOMAIN x = 1..Len(x)
  BY <1>1, LenProperties
<1> HIDE DEF z
<1>3. InTurn(z, s) => InTurn(x, s)
  <2> SUFFICES ASSUME InTurn(z, s), NEW i \in 1..Len(x), NEW j \in 1..Len(x), i < j,
                      x[i][1] = s, x[j][1] = s, \A m \in (i + 1)..(j - 1) : x[m][1] # s
               PROVE  x[j][2] = x[i][2] + 1
    BY <1>2 DEF InTurn
  <2>1. \A m \in (i + 1)..(j - 1) : z[m] = x[m]
    <3> SUFFICES ASSUME NEW m \in (i + 1)..(j - 1) PROVE z[m] = x[m]
      OBVIOUS
    <3>1. m \in 1..Len(x)
      BY <1>1
    <3> QED
      BY <1>1, <3>1
  <2>2. i \in 1..Len(z) /\ j \in 1..Len(z) /\ z[i] = x[i] /\ z[j] = x[j]
    BY <1>1
  <2>3. z[i][1] = s /\ z[j][1] = s /\ \A m \in (i + 1)..(j - 1) : z[m][1] # s
    BY <2>1, <2>2
  <2>4. z[j][2] = z[i][2] + 1
    BY <1>1, <2>2, <2>3, OneAfter, SMTT(60)
  <2> QED
    BY <2>2, <2>4
<1>4. \A c : UpTo(z, s, c) => UpTo(x, s, c)
  BY <1>1 DEF UpTo
<1>5. \A q \in Seq(Shown) : /\ Before(z, q, s) => Before(x, q, s)
                            /\ Before(q, z, s) => Before(q, x, s)
  BY <1>1, <1>2 DEF Before
<1> QED
  BY <1>3, <1>4, <1>5 DEF z

----------------------------------------------------------------------------
(***************************************************************************)
(* Types, and what poll has reported                                       *)
(***************************************************************************)
States == {"none", "open", "closed", "reset"}

SocketsOK ==
  /\ life \in [All -> States] /\ typed \in [All -> Nat]
  /\ up \in [All -> Seq(Typed)] /\ down \in [All -> Seq(Shown)] /\ seen \in [All -> Seq(Shown)]
  /\ accepted \in 0..Clients /\ \E h \in accepted..Clients : Here = 1..h

PipesOK ==
  /\ DOMAIN pipe = Outputs \cup {"stdin"}
  /\ pipe["stdin"] \in Seq(Typed) /\ \A s \in Outputs : pipe[s] \in Seq(Shown)
  /\ took \in Seq(Typed) /\ printed \in [Outputs -> Nat]

\* Only the server changes what poll has told it.
ServerOK ==
  /\ connected \in BOOLEAN /\ (connected => accepted \in All)
  /\ stdin_buf \in Typed \cup {EOF} /\ stdout_buf \in Shown \cup {EOF}
  /\ ~connected => stdin_buf = EOF /\ stdout_buf = EOF
  /\ "in" \in ready => connected /\ stdin_buf = EOF
  /\ "stdin" \in ready => stdin_buf # EOF
  /\ "out" \in ready => connected /\ stdout_buf # EOF
  /\ "listen" \in ready => accepted + 1 \in Here
  /\ \A s \in Outputs : s \in ready => pipe[s] # << >> /\ (connected => stdout_buf = EOF)

TypesOK == SocketsOK /\ PipesOK /\ ServerOK

LEMMA AllIs == Clients \in Nat /\ \A k \in All : k \in Nat /\ k >= 1
BY BoundsAssumption DEF All

\* What clients and snek do
ClientStep == Connect \/ \E k \in All : Type(k) \/ Interrupt(k) \/ Receive(k) \/ Leave(k)
SnekStep == Read \/ Exit \/ \E s \in Outputs : Prints(s)
ServerStep == Poll \/ Handle

LEMMA EventIs ==
  ASSUME NEW e, First(e)
  PROVE  e \in ready /\ ready' = {}
BY DEF First

\* A byte, and not the lack of one
LEMMA OneByte == ASSUME NEW B, NEW b \in B PROVE <<b>> \in Seq(B)
OBVIOUS

LEMMA AreNoEOF ==
  /\ \A b \in Typed : b # EOF /\ <<b>> \in Seq(Typed)
  /\ \A b \in Shown : b # EOF /\ <<b>> \in Seq(Shown)
<1>1. \A b \in Typed : b # EOF
  BY DEF Typed, EOF
<1>2. ASSUME NEW b \in Shown PROVE b # EOF
  <2>1. DOMAIN b = 1..2
    BY DEF Shown
  <2>2. DOMAIN EOF = {} /\ 1 \in 1..2
    BY DEF EOF
  <2> QED
    BY <2>1, <2>2
<1>3. (\A b \in Typed : <<b>> \in Seq(Typed)) /\ \A b \in Shown : <<b>> \in Seq(Shown)
  BY OneByte
<1> QED
  BY <1>1, <1>2, <1>3

LEMMA ClientTypes ==
  ASSUME TypesOK, ClientStep
  PROVE  TypesOK'
<1>1. UNCHANGED <<server, pipe, took, printed>>
  BY DEF ClientStep, Connect, Type, Interrupt, Receive, Leave, snek
<1>2. PipesOK'
  BY <1>1 DEF TypesOK, PipesOK
<1>3. ASSUME Here \subseteq Here' PROVE ServerOK'
  BY <1>1, <1>3 DEF TypesOK, ServerOK, server
<1>4. ASSUME life' \in [All -> States], \A k \in All : life'[k] = "none" <=> life[k] = "none"
      PROVE  Here' = Here
  BY <1>4 DEF Here
<1>5. CASE Connect
  <2>1. PICK k \in (1..plan.clients) \ Here :
          (\A j \in 1..(k - 1) : j \in Here) /\ life' = [life EXCEPT ![k] = "open"]
    BY <1>5 DEF Connect
  <2>2. UNCHANGED <<up, down, typed, seen, accepted>>
    BY <1>5 DEF Connect, server
  <2>3. PICK h \in accepted..Clients : Here = 1..h
    BY DEF TypesOK, SocketsOK
  <2>4. life' \in [All -> States]
    BY <2>1 DEF TypesOK, SocketsOK, States
  <2>5. CASE k \in All
    <3>1. Here' = Here \cup {k}
      BY <2>1, <2>4, <2>5 DEF Here, TypesOK, SocketsOK
    <3>2. k = h + 1 /\ h \in Nat
      <4>1. h \in Nat /\ k \in Nat /\ k >= 1 /\ ~(k <= h)
        BY <2>1, <2>3, <2>5, AllIs DEF TypesOK, SocketsOK
      <4>2. ~(k > h + 1)
        <5> SUFFICES ASSUME k > h + 1 PROVE FALSE
          OBVIOUS
        <5>1. h + 1 \in 1..(k - 1) /\ h + 1 \notin 1..h
          BY <4>1
        <5> QED
          BY <2>1, <2>3, <5>1
      <4> QED
        BY <4>1, <4>2
    <3>3. Here' = 1..(h + 1) /\ h + 1 \in accepted..Clients
      BY <2>3, <2>5, <3>1, <3>2 DEF All, TypesOK, SocketsOK
    <3>4. SocketsOK'
      BY <2>2, <2>4, <3>3 DEF TypesOK, SocketsOK
    <3> QED
      BY <1>2, <1>3, <3>1, <3>4 DEF TypesOK
  <2>6. CASE k \notin All
    <3>1. Here' = Here
      BY <2>1, <2>4, <2>6 DEF Here, TypesOK, SocketsOK
    <3>2. SocketsOK'
      BY <2>2, <2>3, <2>4, <3>1 DEF TypesOK, SocketsOK
    <3> QED
      BY <1>2, <1>3, <3>1, <3>2 DEF TypesOK
  <2> QED
    BY <2>5, <2>6
<1>6. ASSUME UNCHANGED life, SocketsOK /\ up' \in [All -> Seq(Typed)] /\ typed' \in [All -> Nat]
                             /\ down' \in [All -> Seq(Shown)] /\ seen' \in [All -> Seq(Shown)]
      PROVE  TypesOK'
  <2>1. Here' = Here
    BY <1>6 DEF Here
  <2> QED
    BY <1>1, <1>2, <1>3, <1>6, <2>1 DEF TypesOK, SocketsOK, server
<1>7. ASSUME NEW k \in All, Type(k) PROVE TypesOK'
  <2>1. /\ typed' = [typed EXCEPT ![k] = typed[k] + 1]
        /\ up' = [up EXCEPT ![k] = Append(up[k], <<k, typed'[k]>>)]
        /\ UNCHANGED <<life, down, seen>>
    BY <1>7 DEF Type
  <2>2. typed[k] + 1 \in Nat /\ typed' \in [All -> Nat] /\ typed'[k] = typed[k] + 1
    BY <2>1 DEF TypesOK, SocketsOK
  <2>3. <<k, typed'[k]>> \in Typed
    BY <2>2, AllIs DEF Typed
  <2>4. up' \in [All -> Seq(Typed)]
    BY <2>1, <2>3 DEF TypesOK, SocketsOK
  <2> QED
    BY <1>6, <2>1, <2>2, <2>4 DEF TypesOK, SocketsOK
<1>8. ASSUME NEW k \in All, Interrupt(k) PROVE TypesOK'
  BY <1>6, <1>8 DEF Interrupt, TypesOK, SocketsOK
<1>9. ASSUME NEW k \in All, Receive(k) PROVE TypesOK'
  <2>1. /\ down[k] # << >> /\ seen' = [seen EXCEPT ![k] = Append(seen[k], Head(down[k]))]
        /\ down' = [down EXCEPT ![k] = Tail(down[k])]
        /\ UNCHANGED <<life, up, typed>>
    BY <1>9 DEF Receive
  <2>2. down[k] \in Seq(Shown) /\ seen[k] \in Seq(Shown)
    BY DEF TypesOK, SocketsOK
  <2>3. Head(down[k]) \in Shown /\ Tail(down[k]) \in Seq(Shown)
    BY <2>1, <2>2, HeadTailProperties
  <2>4. down' \in [All -> Seq(Shown)] /\ seen' \in [All -> Seq(Shown)]
    BY <2>1, <2>2, <2>3 DEF TypesOK, SocketsOK
  <2> QED
    BY <1>6, <2>1, <2>4 DEF TypesOK, SocketsOK
<1>10. ASSUME NEW k \in All, Leave(k) PROVE TypesOK'
  <2>1. /\ life[k] # "none" /\ UNCHANGED <<up, down, typed, seen, accepted>>
        /\ \E state \in {"closed", "reset"} : life' = [life EXCEPT ![k] = state]
    BY <1>10 DEF Leave, server
  <2>2. life' \in [All -> States] /\ \A j \in All : life'[j] = "none" <=> life[j] = "none"
    BY <2>1 DEF TypesOK, SocketsOK, States
  <2>3. Here' = Here
    BY <1>4, <2>2
  <2> QED
    BY <1>2, <1>3, <2>1, <2>2, <2>3 DEF TypesOK, SocketsOK
<1> QED
  BY <1>5, <1>7, <1>8, <1>9, <1>10 DEF ClientStep

LEMMA SnekTypes ==
  ASSUME TypesOK, SnekStep
  PROVE  TypesOK'
<1>1. UNCHANGED <<sockets, seen, server>>
  BY DEF SnekStep, Read, Exit, Prints
<1>2. SocketsOK'
  BY <1>1 DEF TypesOK, SocketsOK, Here, sockets, server
<1>3. ASSUME PipesOK', \A s \in Outputs : pipe[s] # << >> => pipe'[s] # << >> PROVE TypesOK'
  <2>1. Here' = Here
    BY <1>1 DEF Here, sockets
  <2> QED
    BY <1>1, <1>2, <1>3, <2>1 DEF TypesOK, ServerOK, server
<1>4. CASE Read
  <2>1. /\ pipe["stdin"] # << >> /\ took' = Append(took, Head(pipe["stdin"]))
        /\ pipe' = [pipe EXCEPT !["stdin"] = Tail(pipe["stdin"])] /\ UNCHANGED printed
    BY <1>4 DEF Read
  <2>2. Head(pipe["stdin"]) \in Typed /\ Tail(pipe["stdin"]) \in Seq(Typed)
    BY <2>1, HeadTailProperties DEF TypesOK, PipesOK
  <2>3. took' \in Seq(Typed)
    BY <2>1, <2>2, AppendProperties DEF TypesOK, PipesOK
  <2>4. /\ DOMAIN pipe' = DOMAIN pipe /\ pipe'["stdin"] = Tail(pipe["stdin"])
        /\ \A s \in Outputs : pipe'[s] = pipe[s]
    BY <2>1 DEF TypesOK, PipesOK, Outputs
  <2> QED
    BY <1>3, <2>1, <2>2, <2>3, <2>4 DEF TypesOK, PipesOK
<1>5. ASSUME NEW s \in Outputs, Prints(s) PROVE TypesOK'
  <2>1. /\ printed' = [printed EXCEPT ![s] = printed[s] + 1] /\ UNCHANGED took
        /\ pipe' = [pipe EXCEPT ![s] = Append(pipe[s], <<s, printed[s] + 1>>)]
    BY <1>5 DEF Prints
  <2>2. printed[s] + 1 \in Nat /\ <<s, printed[s] + 1>> \in Shown /\ printed' \in [Outputs -> Nat]
    BY <2>1 DEF TypesOK, PipesOK, Shown
  <2>3. Append(pipe[s], <<s, printed[s] + 1>>) \in Seq(Shown)
        /\ Append(pipe[s], <<s, printed[s] + 1>>) # << >>
    <3>1. pipe[s] \in Seq(Shown)
      BY DEF TypesOK, PipesOK
    <3> QED
      BY <2>2, <3>1, AppendProperties
  <2>4. /\ DOMAIN pipe' = DOMAIN pipe /\ pipe'["stdin"] = pipe["stdin"]
        /\ \A r \in Outputs : pipe'[r] = IF r = s THEN Append(pipe[s], <<s, printed[s] + 1>>) ELSE pipe[r]
    BY <2>1 DEF TypesOK, PipesOK, Outputs
  <2> QED
    BY <1>3, <2>1, <2>2, <2>3, <2>4 DEF TypesOK, PipesOK
<1>6. CASE Exit
  BY <1>3, <1>6 DEF Exit, TypesOK, PipesOK
<1> QED
  BY <1>4, <1>5, <1>6 DEF SnekStep

LEMMA ServerTypes ==
  ASSUME TypesOK, ServerStep
  PROVE  TypesOK'
<1>1. UNCHANGED <<life, typed, seen, took, printed>>
  BY DEF ServerStep, Poll, Handle, HangUp, Accept, OutOfBand, Receiving, ToSnek, ToClient, FromSnek,
         SnekExited, sockets, snek
<1>2. Here' = Here
  BY <1>1 DEF Here
<1>3. ASSUME UNCHANGED <<accepted, up, down>> PROVE SocketsOK'
  BY <1>1, <1>2, <1>3 DEF TypesOK, SocketsOK
<1>4. ASSUME UNCHANGED pipe PROVE PipesOK'
  BY <1>1, <1>4 DEF TypesOK, PipesOK
<1>5. ASSUME ready' = {}, connected' \in BOOLEAN, connected' => accepted' \in All,
             stdin_buf' \in Typed \cup {EOF}, stdout_buf' \in Shown \cup {EOF},
             ~connected' => stdin_buf' = EOF /\ stdout_buf' = EOF
      PROVE  ServerOK'
  BY <1>5 DEF ServerOK
<1>6. CASE Poll
  <2>1. /\ UNCHANGED <<up, down, accepted, connected, stdin_buf, stdout_buf, pipe>>
        /\ ready' = Revents
    BY <1>6 DEF Poll, sockets
  <2>2. /\ "in" \in ready' => connected /\ stdin_buf = EOF
        /\ "stdin" \in ready' => stdin_buf # EOF
        /\ "out" \in ready' => connected /\ stdout_buf # EOF
        /\ "listen" \in ready' => Here # 1..accepted
        /\ "stdout" \in ready' => pipe["stdout"] # << >> /\ (connected => stdout_buf = EOF)
        /\ "stderr" \in ready' => pipe["stderr"] # << >> /\ (connected => stdout_buf = EOF)
    BY <2>1 DEF Revents, Reports, Readable
  <2>3. "listen" \in ready' => accepted + 1 \in Here
    <3>1. PICK h \in accepted..Clients : Here = 1..h
      BY DEF TypesOK, SocketsOK
    <3> QED
      BY <2>2, <3>1 DEF TypesOK, SocketsOK
  <2>4. ServerOK'
    BY <1>2, <2>1, <2>2, <2>3 DEF TypesOK, ServerOK, Outputs
  <2> QED
    BY <1>3, <1>4, <2>1, <2>4 DEF TypesOK
<1>7. CASE HangUp
  <2>1. /\ ready' = {} /\ connected' = FALSE /\ stdin_buf' = EOF /\ stdout_buf' = EOF
        /\ UNCHANGED <<up, down, accepted, pipe>>
    BY <1>7, EventIs DEF HangUp, Disconnect, Forget, sockets
  <2> QED
    BY <1>3, <1>4, <1>5, <2>1 DEF TypesOK
<1>8. CASE Accept
  <2>1. /\ ready' = {} /\ "listen" \in ready /\ connected' = TRUE /\ accepted' = accepted + 1
        /\ stdin_buf' = EOF /\ stdout_buf' = EOF /\ UNCHANGED <<up, down, pipe>>
    BY <1>8, EventIs DEF Accept, Forget, sockets
  <2>2. accepted + 1 \in Here
    BY <2>1 DEF TypesOK, ServerOK
  <2>3. PICK h \in accepted..Clients : Here = 1..h
    BY DEF TypesOK, SocketsOK
  <2>4. accepted' \in 0..Clients /\ h \in accepted'..Clients /\ accepted' \in All
    BY <2>1, <2>2, <2>3, AllIs DEF TypesOK, SocketsOK, All
  <2>5. SocketsOK'
    BY <1>1, <1>2, <2>1, <2>3, <2>4 DEF TypesOK, SocketsOK
  <2> QED
    BY <1>4, <1>5, <2>1, <2>4, <2>5 DEF TypesOK
<1>9. CASE OutOfBand
  <2>1. ready' = {} /\ UNCHANGED <<up, down, accepted, connected, stdin_buf, stdout_buf, pipe>>
    BY <1>9, EventIs DEF OutOfBand
  <2> QED
    BY <1>3, <1>4, <1>5, <2>1 DEF TypesOK, ServerOK
<1>10. CASE Receiving
  <2>1. /\ ready' = {} /\ "in" \in ready /\ UNCHANGED <<down, accepted, pipe>>
    BY <1>10, EventIs DEF Receiving
  <2>2. connected /\ accepted \in All /\ stdin_buf = EOF
    BY <2>1 DEF TypesOK, ServerOK
  <2>3. CASE UNCHANGED <<up, connected, stdin_buf, stdout_buf>>
    BY <1>3, <1>4, <1>5, <2>1, <2>3 DEF TypesOK, ServerOK
  <2>4. CASE Disconnect /\ UNCHANGED up
    BY <1>3, <1>4, <1>5, <2>1, <2>4 DEF TypesOK, ServerOK, Disconnect, Forget
  <2>5. CASE /\ up[accepted] # << >> /\ stdin_buf' = Head(up[accepted])
             /\ up' = [up EXCEPT ![accepted] = Tail(up[accepted])]
             /\ UNCHANGED <<connected, stdout_buf>>
    <3>1. up[accepted] \in Seq(Typed)
      BY <2>2 DEF TypesOK, SocketsOK
    <3>2. Head(up[accepted]) \in Typed /\ Tail(up[accepted]) \in Seq(Typed)
      BY <2>5, <3>1, HeadTailProperties
    <3>3. up' \in [All -> Seq(Typed)]
      BY <2>5, <3>2 DEF TypesOK, SocketsOK
    <3>4. SocketsOK'
      BY <1>1, <1>2, <2>1, <3>3 DEF TypesOK, SocketsOK
    <3>5. ServerOK'
      BY <1>5, <2>1, <2>2, <2>5, <3>2 DEF TypesOK, ServerOK
    <3> QED
      BY <1>4, <2>1, <3>4, <3>5 DEF TypesOK
  <2> QED
    BY <1>10, <2>3, <2>4, <2>5 DEF Receiving
<1>11. CASE ToSnek
  <2>1. /\ ready' = {} /\ "stdin" \in ready /\ UNCHANGED <<up, down, accepted, connected, stdout_buf>>
    BY <1>11, EventIs DEF ToSnek, sockets
  <2>2. stdin_buf \in Typed
    BY <2>1 DEF TypesOK, ServerOK
  <2>3. CASE UNCHANGED <<pipe, stdin_buf>>
    BY <1>3, <1>4, <1>5, <2>1, <2>3 DEF TypesOK, ServerOK
  <2>4. CASE pipe' = [pipe EXCEPT !["stdin"] = Append(pipe["stdin"], stdin_buf)] /\ stdin_buf' = EOF
    <3>1. Append(pipe["stdin"], stdin_buf) \in Seq(Typed)
      BY <2>2, AppendProperties DEF TypesOK, PipesOK
    <3>2. /\ DOMAIN pipe' = DOMAIN pipe /\ pipe'["stdin"] = Append(pipe["stdin"], stdin_buf)
          /\ \A s \in Outputs : pipe'[s] = pipe[s]
      BY <2>4 DEF TypesOK, PipesOK, Outputs
    <3>3. PipesOK'
      BY <1>1, <3>1, <3>2 DEF TypesOK, PipesOK
    <3>4. ServerOK'
      BY <1>5, <2>1, <2>4 DEF TypesOK, ServerOK
    <3> QED
      BY <1>3, <2>1, <3>3, <3>4 DEF TypesOK
  <2> QED
    BY <1>11, <2>3, <2>4 DEF ToSnek
<1>12. CASE ToClient
  <2>1. /\ ready' = {} /\ "out" \in ready /\ UNCHANGED <<up, accepted, connected, stdin_buf, pipe>>
    BY <1>12, EventIs DEF ToClient
  <2>2. stdout_buf \in Shown /\ accepted \in All /\ connected
    BY <2>1 DEF TypesOK, ServerOK
  <2>3. CASE UNCHANGED <<down, stdout_buf>>
    BY <1>3, <1>4, <1>5, <2>1, <2>3 DEF TypesOK, ServerOK
  <2>4. CASE /\ down' = [down EXCEPT ![accepted] = Append(down[accepted], stdout_buf)]
             /\ stdout_buf' = EOF
    <3>1. down[accepted] \in Seq(Shown)
      BY <2>2 DEF TypesOK, SocketsOK
    <3>2. Append(down[accepted], stdout_buf) \in Seq(Shown)
      BY <2>2, <3>1, AppendProperties
    <3>3. down' \in [All -> Seq(Shown)]
      BY <2>4, <3>2 DEF TypesOK, SocketsOK
    <3>4. SocketsOK'
      BY <1>1, <1>2, <2>1, <3>3 DEF TypesOK, SocketsOK
    <3>5. ServerOK'
      BY <1>5, <2>1, <2>2, <2>4 DEF TypesOK, ServerOK
    <3> QED
      BY <1>4, <2>1, <3>4, <3>5 DEF TypesOK
  <2> QED
    BY <1>12, <2>3, <2>4 DEF ToClient
<1>13. ASSUME NEW s \in Outputs, FromSnek(s) PROVE TypesOK'
  <2>1. /\ ready' = {} /\ s \in ready /\ UNCHANGED <<up, down, accepted, connected, stdin_buf>>
        /\ stdout_buf' = IF connected THEN Head(pipe[s]) ELSE stdout_buf
        /\ pipe' = [pipe EXCEPT ![s] = Tail(pipe[s])]
    BY <1>13, EventIs DEF FromSnek, sockets
  <2>2. pipe[s] # << >> /\ pipe[s] \in Seq(Shown)
    BY <2>1 DEF TypesOK, ServerOK, PipesOK
  <2>3. Head(pipe[s]) \in Shown /\ Tail(pipe[s]) \in Seq(Shown)
    BY <2>2, HeadTailProperties
  <2>4. /\ DOMAIN pipe' = DOMAIN pipe /\ pipe'["stdin"] = pipe["stdin"]
        /\ \A r \in Outputs : pipe'[r] = IF r = s THEN Tail(pipe[s]) ELSE pipe[r]
    BY <2>1 DEF TypesOK, PipesOK, Outputs
  <2>5. PipesOK'
    BY <1>1, <2>3, <2>4 DEF TypesOK, PipesOK
  <2>6. ServerOK'
    BY <1>5, <2>1, <2>3 DEF TypesOK, ServerOK
  <2> QED
    BY <1>3, <2>1, <2>5, <2>6 DEF TypesOK
<1>14. CASE SnekExited
  <2>1. ready' = {} /\ UNCHANGED <<up, down, accepted, connected, stdin_buf, stdout_buf, pipe>>
    BY <1>14, EventIs DEF SnekExited, sockets
  <2> QED
    BY <1>3, <1>4, <1>5, <2>1 DEF TypesOK, ServerOK
<1> QED
  BY <1>6, <1>7, <1>8, <1>9, <1>10, <1>11, <1>12, <1>13, <1>14 DEF ServerStep, Handle, Outputs

\* Bytes are numbers of clients or streams with numbers of their own, each in the
\* places where it may be.
LEMMA TypesHold == Init /\ [][Next]_vars => []TypesOK
<1>1. Init => TypesOK
  <2> SUFFICES ASSUME Init PROVE TypesOK
    OBVIOUS
  <2>1. accepted \in 0..Clients /\ \E h \in accepted..Clients : Here = 1..h
    <3>1. Here = 1..0 /\ 0 \in accepted..Clients /\ accepted = 0
      BY AllIs DEF Init, Here
    <3> QED
      BY <3>1
  <2>2. SocketsOK
    <3>1. life \in [All -> States] /\ typed \in [All -> Nat]
      BY DEF Init, States
    <3>2. up \in [All -> Seq(Typed)] /\ down \in [All -> Seq(Shown)] /\ seen \in [All -> Seq(Shown)]
      BY DEF Init
    <3> QED
      BY <2>1, <3>1, <3>2 DEF SocketsOK
  <2>3. PipesOK
    BY DEF Init, PipesOK, Outputs
  <2>4. ServerOK
    BY DEF Init, ServerOK, EOF
  <2> QED
    BY <2>2, <2>3, <2>4 DEF TypesOK
<1>2. TypesOK /\ [Next]_vars => TypesOK'
  <2> SUFFICES ASSUME TypesOK, [Next]_vars PROVE TypesOK'
    OBVIOUS
  <2>1. CASE UNCHANGED vars
    BY <2>1 DEF vars, sockets, server, snek, TypesOK, SocketsOK, PipesOK, ServerOK, Here
  <2> QED
    BY <2>1, ClientTypes, SnekTypes, ServerTypes DEF Next, ClientStep, SnekStep, ServerStep
<1> QED
  BY <1>1, <1>2, PTL

----------------------------------------------------------------------------
(***************************************************************************)
(* From the clients to snek                                                *)
(***************************************************************************)
Waiting(b) == IF b = EOF THEN << >> ELSE <<b>>

\* The bytes that snek has read, then those that wait to be, in their order
Taking == (took \o pipe["stdin"]) \o Waiting(stdin_buf)
Coming == IF connected THEN up[accepted] ELSE << >>
Input == Taking \o Coming

\* The last byte is number n of client k; there is none of it if n is 0.
EndsWith(q, k, n) == IF q # << >> /\ q[Len(q)][1] = k THEN q[Len(q)][2] = n ELSE n = 0
LastTyped == EndsWith(Input, accepted, typed[accepted])

InputOK ==
  /\ Chain(Input) /\ \A i \in 1..Len(Input) : Input[i][1] <= accepted
  /\ connected => LastTyped
  /\ \A k \in All : k > accepted => up[k] = Untouched(k, typed[k])

LEMMA InputIs ==
  ASSUME TypesOK
  PROVE  /\ took \in Seq(Typed) /\ pipe["stdin"] \in Seq(Typed) /\ took \o pipe["stdin"] \in Seq(Typed)
         /\ Waiting(stdin_buf) \in Seq(Typed) /\ Taking \in Seq(Typed) /\ Coming \in Seq(Typed)
         /\ Input \in Seq(Typed) /\ accepted \in Nat
<1>1. Waiting(stdin_buf) \in Seq(Typed)
  BY AreNoEOF, EmptySeq DEF TypesOK, ServerOK, Waiting
<1>2. Coming \in Seq(Typed)
  BY EmptySeq DEF TypesOK, ServerOK, SocketsOK, Coming
<1>3. took \in Seq(Typed) /\ pipe["stdin"] \in Seq(Typed)
  BY DEF TypesOK, PipesOK
<1>4. accepted \in Nat
  BY DEF TypesOK, SocketsOK
<1> QED
  BY <1>1, <1>2, <1>3, <1>4, ConcatProperties DEF Taking, Input

LEMMA InputStaysAsItIs ==
  ASSUME InputOK, Input' = Input, UNCHANGED <<accepted, connected, typed, up>>
  PROVE  InputOK'
BY DEF InputOK, LastTyped

\* Clients type, behind all that they and others have typed.
LEMMA InputGrows ==
  ASSUME TypesOK, InputOK, ClientStep
  PROVE  InputOK'
<1>1. UNCHANGED <<took, pipe, stdin_buf, connected, accepted>>
  BY DEF ClientStep, Connect, Type, Interrupt, Receive, Leave, server, snek
<1>2. UNCHANGED <<took, pipe, stdin_buf>> => Taking' = Taking
  BY DEF Taking
<1>3. CASE UNCHANGED <<up, typed>>
  <2>1. Input' = Input
    BY <1>1, <1>2, <1>3 DEF Input, Coming
  <2> QED
    BY <1>1, <1>3, <2>1, InputStaysAsItIs
<1>4. ASSUME NEW k \in All, Type(k) PROVE InputOK'
  <2>1. /\ typed' = [typed EXCEPT ![k] = typed[k] + 1]
        /\ up' = [up EXCEPT ![k] = Append(up[k], <<k, typed'[k]>>)]
        /\ k > accepted \/ (k = accepted /\ connected)
    <3>1. k \in Nat /\ accepted \in Nat
      BY AllIs, InputIs
    <3> QED
      BY <1>4, <3>1 DEF Type, Dropped
  <2>2. /\ typed[k] \in Nat /\ typed'[k] = typed[k] + 1 /\ k \in Nat /\ accepted \in Nat
        /\ \A j \in All : j # k => typed'[j] = typed[j] /\ up'[j] = up[j]
        /\ up'[k] = Append(up[k], <<k, typed[k] + 1>>) /\ up[k] \in Seq(Typed)
    BY <2>1, AllIs, InputIs DEF TypesOK, SocketsOK
  <2>3. PICK b \in Typed : b = <<k, typed[k] + 1>>
    <3>1. typed[k] + 1 \in Nat /\ k \in Nat
      BY <2>2
    <3>2. <<k, typed[k] + 1>> \in Typed
      BY <3>1 DEF Typed
    <3> QED
      BY <3>2
  <2>4. CASE k > accepted
    <3>1. Append(Untouched(k, typed[k]), b) = Untouched(k, typed[k] + 1)
      BY <2>2, <2>3 DEF Untouched, Typed
    <3>2. \A j \in All : j > accepted => up'[j] = Untouched(j, typed'[j])
      BY <2>2, <2>3, <2>4, <3>1 DEF InputOK
    <3>3. connected => up'[accepted] = up[accepted] /\ typed'[accepted] = typed[accepted]
      BY <2>2, <2>4 DEF TypesOK, ServerOK
    <3>4. Input' = Input
      BY <1>1, <1>2, <3>3 DEF Input, Coming
    <3> QED
      BY <1>1, <3>2, <3>3, <3>4 DEF InputOK, LastTyped, EndsWith
  <2>5. CASE k = accepted /\ connected
    <3>1. Coming' = Append(Coming, b) /\ Coming \in Seq(Typed) /\ Taking \in Seq(Typed) /\ Input \in Seq(Typed)
      BY <1>1, <2>2, <2>3, <2>5, InputIs DEF Coming
    <3>2. Input' = Append(Input, b)
      BY <1>1, <1>2, <3>1, JoinsOn DEF Input
    <3>3. /\ Input' # << >> /\ Len(Input') = Len(Input) + 1 /\ Input'[Len(Input) + 1] = b
          /\ Len(Input) \in Nat /\ \A i \in 1..Len(Input) : Input'[i] = Input[i]
          /\ Input # << >> => Len(Input) \in 1..Len(Input)
      BY <3>1, <3>2, AppendProperties, LenProperties, EmptySeq
    <3>4. IF Input = << >> THEN b[2] = 1 ELSE Continues(Input[Len(Input)], b)
      <4>1. CASE Input = << >>
        BY <2>2, <2>3, <2>5, <4>1 DEF InputOK, LastTyped, EndsWith
      <4>2. CASE Input # << >> /\ Input[Len(Input)][1] = accepted
        <5>1. Input[Len(Input)][2] = typed[k]
          BY <2>5, <4>2 DEF InputOK, LastTyped, EndsWith
        <5> QED
          BY <2>3, <2>5, <4>2, <5>1 DEF Continues
      <4>3. CASE Input # << >> /\ Input[Len(Input)][1] # accepted
        <5>1. Input[Len(Input)] \in Typed /\ Input[Len(Input)][1] <= accepted
          BY <3>1, <3>3, <4>3, ElementOfSeq DEF InputOK
        <5>2. typed[k] = 0
          BY <2>5, <4>3 DEF InputOK, LastTyped, EndsWith
        <5> QED
          BY <2>2, <2>3, <2>5, <4>3, <5>1, <5>2 DEF Continues, Typed
      <4> QED
        BY <4>1, <4>2, <4>3
    <3>5. Chain(Input')
      BY <3>1, <3>2, <3>4, ChainGrows DEF InputOK
    <3>6. \A i \in 1..Len(Input') : Input'[i][1] <= accepted
      BY <2>2, <2>3, <2>5, <3>3, SMTT(60) DEF InputOK
    <3>7. LastTyped'
      BY <1>1, <2>2, <2>3, <2>5, <3>3 DEF LastTyped, EndsWith
    <3>8. \A j \in All : j > accepted => up'[j] = Untouched(j, typed'[j])
      BY <2>2, <2>5 DEF InputOK
    <3> QED
      BY <1>1, <3>5, <3>6, <3>7, <3>8 DEF InputOK
  <2> QED
    BY <2>1, <2>4, <2>5
<1> QED
  BY <1>3, <1>4 DEF ClientStep, Connect, Interrupt, Receive, Leave

LEMMA InputIsRead ==
  ASSUME TypesOK, InputOK, SnekStep
  PROVE  InputOK'
<1>1. UNCHANGED <<up, typed, connected, accepted, stdin_buf>>
  BY DEF SnekStep, Read, Exit, Prints, sockets, server
<1>2. took' \o pipe'["stdin"] = took \o pipe["stdin"]
  <2>1. CASE Read
    <3>1. /\ pipe["stdin"] # << >> /\ took' = Append(took, Head(pipe["stdin"]))
          /\ pipe'["stdin"] = Tail(pipe["stdin"])
      BY <2>1 DEF Read, TypesOK, PipesOK
    <3> QED
      BY <3>1, InputIs, MovesOn
  <2>2. ASSUME NEW s \in Outputs, Prints(s) PROVE UNCHANGED took /\ pipe'["stdin"] = pipe["stdin"]
    BY <2>2 DEF Prints, TypesOK, PipesOK, Outputs
  <2>3. CASE Exit
    BY <2>3 DEF Exit
  <2> QED
    BY <2>1, <2>2, <2>3 DEF SnekStep
<1>3. Input' = Input
  BY <1>1, <1>2 DEF Input, Taking, Coming
<1> QED
  BY <1>1, <1>3, InputStaysAsItIs

LEMMA EndsWithThese ==
  ASSUME NEW x \in Seq(Typed), NEW k \in Nat, NEW n \in Nat, \A i \in 1..Len(x) : x[i][1] < k
  PROVE  EndsWith(x \o Untouched(k, n), k, n)
<1> DEFINE y == Untouched(k, n)
           q == x \o y
<1>1. y \in Seq(Typed) /\ Len(y) = n /\ \A i \in 1..n : y[i] = <<k, i>>
  BY DEF Untouched, Typed
<1> HIDE DEF y
<1>2. /\ q \in Seq(Typed) /\ Len(q) = Len(x) + n /\ Len(x) \in Nat
      /\ \A i \in 1..(Len(x) + n) : q[i] = IF i <= Len(x) THEN x[i] ELSE y[i - Len(x)]
  BY <1>1, ConcatProperties, LenProperties
<1> HIDE DEF q
<1>3. CASE n = 0
  <2>1. ASSUME q # << >> PROVE q[Len(q)][1] # k
    <3>1. Len(q) \in 1..Len(q) /\ Len(q) = Len(x)
      BY <1>2, <1>3, <2>1, EmptySeq
    <3>2. q[Len(q)] = x[Len(q)] /\ x[Len(q)] \in Typed
      BY <1>2, <3>1, ElementOfSeq
    <3> QED
      BY <3>1, <3>2 DEF Typed
  <2> QED
    BY <1>3, <2>1 DEF EndsWith, y, q
<1>4. CASE n # 0
  <2>1. n \in 1..n /\ Len(q) \in 1..(Len(x) + n) /\ ~(Len(q) <= Len(x)) /\ Len(q) - Len(x) = n
    BY <1>2, <1>4
  <2>2. q[Len(q)] = <<k, n>> /\ q # << >>
    BY <1>1, <1>2, <2>1, EmptySeq
  <2> QED
    BY <2>2 DEF EndsWith, y, q
<1> QED
  BY <1>3, <1>4

\* What snek has read and what waits in its pipe
LEMMA InputBegins ==
  ASSUME TypesOK, InputOK
  PROVE  /\ Chain(took \o pipe["stdin"]) /\ Chain(took)
         /\ \A i \in 1..Len(took \o pipe["stdin"]) : (took \o pipe["stdin"])[i][1] <= accepted
<1> DEFINE first == took \o pipe["stdin"]
<1>1. /\ first \in Seq(Typed) /\ Taking = first \o Waiting(stdin_buf) /\ Taking \in Seq(Typed)
      /\ Input = Taking \o Coming /\ Waiting(stdin_buf) \in Seq(Typed) /\ Coming \in Seq(Typed)
      /\ took \in Seq(Typed) /\ pipe["stdin"] \in Seq(Typed)
  BY InputIs DEF Taking, Input
<1>2. Chain(first) /\ Chain(took)
  <2>1. Chain(Taking)
    BY <1>1, ChainBegins DEF InputOK
  <2>2. Chain(first)
    <3> HIDE DEF first
    <3> QED
      BY <1>1, <2>1, ChainBegins
  <2> QED
    BY <1>1, <2>2, ChainBegins
<1> HIDE DEF first
<1>3. ASSUME NEW i \in 1..Len(first) PROVE first[i][1] <= accepted
  <2>1. i \in 1..Len(Taking) /\ Taking[i] = first[i]
    BY <1>1, FirstPart
  <2>2. i \in 1..Len(Input) /\ Input[i] = Taking[i]
    BY <1>1, <2>1, FirstPart
  <2> QED
    BY <2>1, <2>2 DEF InputOK
<1> QED
  BY <1>2, <1>3 DEF first

\* The server passes it on, and drops the end of it with a client.
LEMMA InputServed ==
  ASSUME TypesOK, InputOK, ServerStep
  PROVE  InputOK'
<1>1. UNCHANGED <<typed, took>>
  BY DEF ServerStep, Poll, Handle, HangUp, Accept, OutOfBand, Receiving, ToSnek, ToClient, FromSnek,
         SnekExited, sockets, snek
<1>2. ASSUME UNCHANGED <<up, accepted, connected, stdin_buf>>, pipe'["stdin"] = pipe["stdin"]
      PROVE  InputOK'
  <2>1. Input' = Input
    BY <1>1, <1>2 DEF Input, Taking, Coming
  <2> QED
    BY <1>1, <1>2, <2>1, InputStaysAsItIs
<1>3. ASSUME UNCHANGED <<up, accepted, pipe>>, Disconnect PROVE InputOK'
  <2>1. connected' = FALSE /\ stdin_buf' = EOF
    BY <1>3 DEF Disconnect, Forget
  <2>2. Input' = took \o pipe["stdin"]
    BY <1>1, <1>3, <2>1, InputIs, ConcatEmptySeq DEF Input, Taking, Coming, Waiting, EOF
  <2> QED
    BY <1>1, <1>3, <2>1, <2>2, InputBegins DEF InputOK
<1>4. CASE Accept
  <2>1. /\ accepted' = accepted + 1 /\ connected' = TRUE /\ stdin_buf' = EOF
        /\ UNCHANGED <<up, pipe>> /\ "listen" \in ready
    BY <1>4, EventIs DEF Accept, Forget, sockets
  <2>2. PICK k \in All : k = accepted + 1
    BY <2>1 DEF TypesOK, ServerOK, Here
  <2>3. /\ k \in Nat /\ accepted \in Nat /\ typed[k] \in Nat /\ up[k] = Untouched(k, typed[k])
        /\ took \o pipe["stdin"] \in Seq(Typed) /\ up[k] \in Seq(Typed)
    <3>1. k \in Nat /\ accepted \in Nat /\ took \o pipe["stdin"] \in Seq(Typed)
      BY AllIs, InputIs
    <3>2. typed[k] \in Nat /\ up[k] \in Seq(Typed)
      BY DEF TypesOK, SocketsOK
    <3>3. k > accepted
      BY <2>2, <3>1
    <3> QED
      BY <3>1, <3>2, <3>3 DEF InputOK
  <2>4. Input' = (took \o pipe["stdin"]) \o Untouched(k, typed[k])
    BY <1>1, <2>1, <2>2, <2>3, InputIs, ConcatEmptySeq DEF Input, Taking, Coming, Waiting, EOF
  <2>5. \A i \in 1..Len(took \o pipe["stdin"]) : (took \o pipe["stdin"])[i][1] < k
    <3> SUFFICES ASSUME NEW i \in 1..Len(took \o pipe["stdin"])
                 PROVE  (took \o pipe["stdin"])[i][1] < k
      OBVIOUS
    <3>1. (took \o pipe["stdin"])[i] \in Typed
      BY <2>3, ElementOfSeq
    <3>2. (took \o pipe["stdin"])[i][1] \in Nat
      BY <3>1 DEF Typed
    <3>3. (took \o pipe["stdin"])[i][1] <= accepted
      BY InputBegins
    <3> QED
      BY <2>2, <2>3, <3>2, <3>3
  <2>6. Chain(Input') /\ \A i \in 1..Len(Input') : Input'[i][1] <= k
    BY <2>3, <2>4, <2>5, InputBegins, ChainGoesOn
  <2>7. EndsWith(Input', k, typed[k])
    BY <2>3, <2>4, <2>5, EndsWithThese
  <2>8. \A j \in All : j > k => up[j] = Untouched(j, typed[j])
    BY <2>2, <2>3, AllIs DEF InputOK
  <2> QED
    BY <1>1, <2>1, <2>2, <2>6, <2>7, <2>8 DEF InputOK, LastTyped
<1>5. CASE Receiving
  <2>1. UNCHANGED <<accepted, pipe>> /\ "in" \in ready
    BY <1>5, EventIs DEF Receiving
  <2>2. connected /\ accepted \in All /\ stdin_buf = EOF
    BY <2>1 DEF TypesOK, ServerOK
  <2>3. CASE UNCHANGED <<up, connected, stdin_buf, stdout_buf>>
    BY <1>2, <2>1, <2>3
  <2>4. CASE Disconnect /\ UNCHANGED up
    BY <1>3, <2>1, <2>4
  <2>5. CASE /\ up[accepted] # << >> /\ stdin_buf' = Head(up[accepted])
             /\ up' = [up EXCEPT ![accepted] = Tail(up[accepted])]
             /\ UNCHANGED <<connected, stdout_buf>>
    <3>1. up[accepted] \in Seq(Typed)
      BY <2>2 DEF TypesOK, SocketsOK
    <3>2. PICK b \in Typed : b = Head(up[accepted])
      BY <2>5, <3>1, HeadTailProperties
    <3>3. Coming = up[accepted] /\ Coming' = Tail(up[accepted])
      BY <2>1, <2>2, <2>5 DEF Coming, TypesOK, SocketsOK
    <3>4. Taking = took \o pipe["stdin"]
      BY <2>2, InputIs, ConcatEmptySeq DEF Taking, Waiting
    <3>5. Taking' = Append(Taking, b)
      <4>1. Taking \in Seq(Typed) /\ Taking' = (took \o pipe["stdin"]) \o <<b>>
        BY <1>1, <2>1, <2>5, <3>2, InputIs, AreNoEOF DEF Taking, Waiting
      <4>2. Append(Taking, b) = Taking \o <<b>>
        BY <4>1, JoinsOn
      <4> QED
        BY <3>4, <4>1, <4>2
    <3>6. Input' = Input
      BY <2>5, <3>1, <3>2, <3>3, <3>5, InputIs, MovesOn DEF Input
    <3>7. \A j \in All : j > accepted => up'[j] = up[j]
      BY <2>2, <2>5, AllIs, InputIs DEF TypesOK, SocketsOK
    <3> QED
      BY <1>1, <2>1, <2>5, <3>6, <3>7 DEF InputOK, LastTyped
  <2> QED
    BY <1>5, <2>3, <2>4, <2>5 DEF Receiving
<1>6. CASE ToSnek
  <2>1. UNCHANGED <<up, accepted, connected>> /\ "stdin" \in ready
    BY <1>6, EventIs DEF ToSnek, sockets
  <2>2. PICK b \in Typed : b = stdin_buf
    BY <2>1 DEF TypesOK, ServerOK
  <2>3. CASE UNCHANGED <<pipe, stdin_buf>>
    BY <1>2, <2>1, <2>3
  <2>4. CASE pipe' = [pipe EXCEPT !["stdin"] = Append(pipe["stdin"], stdin_buf)] /\ stdin_buf' = EOF
    <3>1. pipe'["stdin"] = Append(pipe["stdin"], b)
      BY <2>2, <2>4 DEF TypesOK, PipesOK
    <3>2. took \o pipe'["stdin"] = Append(took \o pipe["stdin"], b)
      <4>1. took \in Seq(Typed) /\ pipe["stdin"] \in Seq(Typed)
        BY InputIs
      <4>2. took \o Append(pipe["stdin"], b) = Append(took \o pipe["stdin"], b)
        BY <4>1, JoinsOn
      <4> QED
        BY <3>1, <4>2
    <3>3. Append(took \o pipe["stdin"], b) \in Seq(Typed)
          /\ Append(took \o pipe["stdin"], b) = (took \o pipe["stdin"]) \o <<b>>
      BY InputIs, JoinsOn, AppendProperties, SMTT(60)
    <3>4. Taking' = Append(took \o pipe["stdin"], b)
      BY <1>1, <2>4, <3>2, <3>3, ConcatEmptySeq DEF Taking, Waiting, EOF
    <3>5. Taking = (took \o pipe["stdin"]) \o <<b>>
      BY <2>2, AreNoEOF DEF Taking, Waiting
    <3>6. Input' = Input
      BY <2>1, <3>3, <3>4, <3>5 DEF Input, Coming
    <3> QED
      BY <1>1, <2>1, <3>6, InputStaysAsItIs
  <2> QED
    BY <1>6, <2>3, <2>4 DEF ToSnek
<1>7. ASSUME NEW s \in Outputs, FromSnek(s) PROVE InputOK'
  <2>1. UNCHANGED <<up, accepted, connected, stdin_buf>> /\ pipe'["stdin"] = pipe["stdin"]
    BY <1>7 DEF FromSnek, sockets, TypesOK, PipesOK, Outputs
  <2> QED
    BY <1>2, <2>1
<1>8. CASE Poll
  BY <1>2, <1>8 DEF Poll, sockets
<1>9. CASE HangUp
  BY <1>3, <1>9 DEF HangUp, sockets
<1>10. CASE OutOfBand
  BY <1>2, <1>10 DEF OutOfBand
<1>11. CASE ToClient
  BY <1>2, <1>11 DEF ToClient
<1>12. CASE SnekExited
  BY <1>2, <1>12 DEF SnekExited, sockets
<1> QED
  BY <1>4, <1>5, <1>6, <1>7, <1>8, <1>9, <1>10, <1>11, <1>12 DEF ServerStep, Handle, Outputs

----------------------------------------------------------------------------
(***************************************************************************)
(* From snek to the clients                                                *)
(***************************************************************************)
\* What a client has seen, then what is on its way to it
Going(k) == IF connected /\ k = accepted THEN Waiting(stdout_buf) ELSE << >>
Output(k) == (seen[k] \o down[k]) \o Going(k)

\* How much of a stream has left its pipe
Gone(s) == printed[s] - Len(pipe[s])

PrintedOK ==
  \A s \in Outputs : Gone(s) \in Nat /\ \A i \in 1..Len(pipe[s]) : pipe[s][i] = <<s, Gone(s) + i>>

SharedOK ==
  \A k \in All, s \in Outputs :
    /\ InTurn(Output(k), s) /\ UpTo(Output(k), s, Gone(s))
    /\ \A j \in 1..(k - 1) : Before(Output(j), Output(k), s)

\* The client that is connected has been given all since its first byte.
LatestOK ==
  \A k \in All, s \in Outputs : connected /\ k = accepted => LastIs(Output(k), s, Gone(s))

NothingYet == \A k \in All : k > accepted => seen[k] = << >> /\ down[k] = << >>

OutputOK == PrintedOK /\ SharedOK /\ LatestOK /\ NothingYet

LEMMA OutputIs ==
  ASSUME TypesOK, NEW k \in All
  PROVE  /\ seen[k] \in Seq(Shown) /\ down[k] \in Seq(Shown) /\ seen[k] \o down[k] \in Seq(Shown)
         /\ Going(k) \in Seq(Shown) /\ Output(k) \in Seq(Shown)
<1>1. Going(k) \in Seq(Shown)
  BY AreNoEOF, EmptySeq DEF TypesOK, ServerOK, Waiting, Going
<1>2. seen[k] \in Seq(Shown) /\ down[k] \in Seq(Shown)
  BY DEF TypesOK, SocketsOK
<1> QED
  BY <1>1, <1>2, ConcatProperties DEF Output

LEMMA OutputStays ==
  ASSUME OutputOK, \A k \in All : Output(k)' = Output(k), UNCHANGED <<accepted, connected>>,
         PrintedOK', \A s \in Outputs : Gone(s)' = Gone(s), NothingYet'
  PROVE  OutputOK'
<1>1. \A k \in All : \A j \in 1..(k - 1) : j \in All
  BY AllIs DEF All
<1>2. SharedOK'
  BY <1>1 DEF OutputOK, SharedOK
<1>3. LatestOK'
  BY DEF OutputOK, LatestOK
<1> QED
  BY <1>2, <1>3 DEF OutputOK

LEMMA OutputIsReceived ==
  ASSUME TypesOK, OutputOK, ClientStep
  PROVE  OutputOK'
<1>1. UNCHANGED <<pipe, printed, accepted, connected, stdout_buf>>
  BY DEF ClientStep, Connect, Type, Interrupt, Receive, Leave, server, snek
<1>2. PrintedOK' /\ \A s \in Outputs : Gone(s)' = Gone(s)
  BY <1>1 DEF OutputOK, PrintedOK, Gone
<1>3. \A k \in All : Going(k)' = Going(k)
  BY <1>1 DEF Going
<1>4. CASE UNCHANGED <<seen, down>>
  <2>1. NothingYet' /\ \A k \in All : Output(k)' = Output(k)
    BY <1>1, <1>3, <1>4 DEF OutputOK, NothingYet, Output
  <2> QED
    BY <1>1, <1>2, <2>1, OutputStays
<1>5. ASSUME NEW k \in All, Receive(k) PROVE OutputOK'
  <2>1. /\ down[k] # << >> /\ seen' = [seen EXCEPT ![k] = Append(seen[k], Head(down[k]))]
        /\ down' = [down EXCEPT ![k] = Tail(down[k])]
    BY <1>5 DEF Receive
  <2>2. /\ seen'[k] = Append(seen[k], Head(down[k])) /\ down'[k] = Tail(down[k])
        /\ \A j \in All : j # k => seen'[j] = seen[j] /\ down'[j] = down[j]
    BY <2>1 DEF TypesOK, SocketsOK
  <2>3. seen'[k] \o down'[k] = seen[k] \o down[k]
    <3>1. seen[k] \in Seq(Shown) /\ down[k] \in Seq(Shown)
      BY OutputIs
    <3>2. Append(seen[k], Head(down[k])) \o Tail(down[k]) = seen[k] \o down[k]
      BY <2>1, <3>1, MovesOn
    <3> QED
      BY <2>2, <3>2
  <2>4. \A j \in All : Output(j)' = Output(j)
    BY <1>3, <2>2, <2>3 DEF Output
  <2>5. NothingYet'
    BY <1>1, <2>1, <2>2 DEF OutputOK, NothingYet
  <2> QED
    BY <1>1, <1>2, <2>4, <2>5, OutputStays
<1> QED
  BY <1>4, <1>5 DEF ClientStep, Connect, Type, Interrupt, Leave

LEMMA OutputIsPrinted ==
  ASSUME TypesOK, OutputOK, SnekStep
  PROVE  OutputOK'
<1>1. UNCHANGED <<seen, down, accepted, connected, stdout_buf>>
  BY DEF SnekStep, Read, Exit, Prints, sockets, server
<1>2. NothingYet' /\ \A k \in All : Output(k)' = Output(k)
  BY <1>1 DEF OutputOK, NothingYet, Output, Going
<1>3. CASE UNCHANGED printed /\ \A s \in Outputs : pipe'[s] = pipe[s]
  <2>1. PrintedOK' /\ \A s \in Outputs : Gone(s)' = Gone(s)
    BY <1>3 DEF OutputOK, PrintedOK, Gone
  <2> QED
    BY <1>1, <1>2, <2>1, OutputStays
<1>4. ASSUME NEW s \in Outputs, Prints(s) PROVE OutputOK'
  <2>1. /\ printed' = [printed EXCEPT ![s] = printed[s] + 1]
        /\ pipe' = [pipe EXCEPT ![s] = Append(pipe[s], <<s, printed[s] + 1>>)]
    BY <1>4 DEF Prints
  <2>2. \A r \in Outputs : r # s => printed'[r] = printed[r] /\ pipe'[r] = pipe[r]
    BY <2>1 DEF TypesOK, PipesOK, Outputs
  <2>3. /\ printed[s] \in Nat /\ printed'[s] = printed[s] + 1 /\ pipe[s] \in Seq(Shown)
        /\ pipe'[s] = Append(pipe[s], <<s, printed[s] + 1>>) /\ Len(pipe[s]) \in Nat
    BY <2>1, LenProperties DEF TypesOK, PipesOK
  <2>4. <<s, printed[s] + 1>> \in Shown
    <3>1. printed[s] + 1 \in Nat
      BY <2>3
    <3> QED
      BY <3>1 DEF Shown
  <2>5. /\ Len(pipe'[s]) = Len(pipe[s]) + 1 /\ pipe'[s][Len(pipe[s]) + 1] = <<s, printed[s] + 1>>
        /\ \A i \in 1..Len(pipe[s]) : pipe'[s][i] = pipe[s][i]
    BY <2>3, <2>4, AppendProperties
  <2>6. Gone(s)' = Gone(s) /\ Gone(s) \in Nat
    BY <2>3, <2>5, SMTT(60) DEF Gone, OutputOK, PrintedOK
  <2>7. \A r \in Outputs : Gone(r)' = Gone(r)
    BY <2>2, <2>6 DEF Gone
  <2>8. \A i \in 1..Len(pipe'[s]) : pipe'[s][i] = <<s, Gone(s) + i>>
    <3> SUFFICES ASSUME NEW i \in 1..Len(pipe'[s]) PROVE pipe'[s][i] = <<s, Gone(s) + i>>
      OBVIOUS
    <3>1. CASE i \in 1..Len(pipe[s])
      BY <2>5, <3>1 DEF OutputOK, PrintedOK
    <3>2. CASE i = Len(pipe[s]) + 1
      <4>1. Gone(s) + i = printed[s] + 1
        BY <2>3, <3>2 DEF Gone
      <4> QED
        BY <2>5, <3>2, <4>1
    <3> QED
      BY <2>3, <2>5, <3>1, <3>2
  <2>9. PrintedOK'
    <3> SUFFICES ASSUME NEW r \in Outputs
                 PROVE  Gone(r)' \in Nat /\ \A i \in 1..Len(pipe'[r]) : pipe'[r][i] = <<r, Gone(r)' + i>>
      BY DEF PrintedOK
    <3>1. CASE r = s
      BY <2>6, <2>8, <3>1
    <3>2. CASE r # s
      BY <2>2, <2>7, <3>2 DEF OutputOK, PrintedOK
    <3> QED
      BY <3>1, <3>2
  <2> QED
    BY <1>1, <1>2, <2>7, <2>9, OutputStays
<1>5. CASE Read
  BY <1>3, <1>5 DEF Read, TypesOK, PipesOK, Outputs
<1>6. CASE Exit
  BY <1>3, <1>6 DEF Exit
<1> QED
  BY <1>4, <1>5, <1>6 DEF SnekStep

LEMMA OutputIsDropped ==
  ASSUME TypesOK, OutputOK, UNCHANGED <<seen, down, pipe, printed>>, stdout_buf' = EOF,
         accepted' \in Nat, accepted' >= accepted, connected' => accepted' > accepted
  PROVE  OutputOK'
<1>1. \A k \in All : k \in Nat /\ \A j \in 1..(k - 1) : j \in All
  BY AllIs DEF All
<1>2. PrintedOK' /\ \A s \in Outputs : Gone(s)' = Gone(s)
  BY DEF OutputOK, PrintedOK, Gone
<1>3. accepted \in Nat
  BY InputIs
<1>4. NothingYet'
  BY <1>1, <1>3 DEF OutputOK, NothingYet
<1>5. \A k \in All : Output(k)' = seen[k] \o down[k]
  <2> SUFFICES ASSUME NEW k \in All PROVE Output(k)' = seen[k] \o down[k]
    OBVIOUS
  <2>1. Going(k)' = << >>
    BY DEF Going, Waiting
  <2> QED
    BY <2>1, OutputIs, ConcatEmptySeq DEF Output
<1>6. \A k \in All, s \in Outputs :
        /\ InTurn(seen[k] \o down[k], s) /\ UpTo(seen[k] \o down[k], s, Gone(s))
        /\ \A j \in 1..(k - 1) : Before(seen[j] \o down[j], seen[k] \o down[k], s)
  <2> SUFFICES ASSUME NEW k \in All, NEW s \in Outputs
               PROVE  /\ InTurn(seen[k] \o down[k], s) /\ UpTo(seen[k] \o down[k], s, Gone(s))
                      /\ \A j \in 1..(k - 1) : Before(seen[j] \o down[j], seen[k] \o down[k], s)
    OBVIOUS
  <2>1. /\ seen[k] \o down[k] \in Seq(Shown) /\ Going(k) \in Seq(Shown)
        /\ Output(k) = (seen[k] \o down[k]) \o Going(k)
    BY OutputIs DEF Output
  <2>2. InTurn(seen[k] \o down[k], s) /\ UpTo(seen[k] \o down[k], s, Gone(s))
    <3>1. InTurn(Output(k), s) /\ UpTo(Output(k), s, Gone(s))
      BY DEF OutputOK, SharedOK
    <3>2. PICK x \in Seq(Shown), y \in Seq(Shown) : x = seen[k] \o down[k] /\ y = Going(k)
      BY <2>1
    <3>3. /\ InTurn(x \o y, s) => InTurn(x, s)
          /\ \A c : UpTo(x \o y, s, c) => UpTo(x, s, c)
      BY <3>2, ShownBegins
    <3> QED
      BY <2>1, <3>1, <3>2, <3>3
  <2>3. ASSUME NEW j \in 1..(k - 1) PROVE Before(seen[j] \o down[j], seen[k] \o down[k], s)
    <3>1. j \in All
      BY <1>1, <2>3
    <3>2. /\ seen[j] \o down[j] \in Seq(Shown) /\ Going(j) \in Seq(Shown)
          /\ Output(j) = (seen[j] \o down[j]) \o Going(j) /\ Output(k) \in Seq(Shown)
      BY <3>1, OutputIs DEF Output
    <3>3. Before(Output(j), Output(k), s)
      BY <2>3 DEF OutputOK, SharedOK
    <3>4. Before(seen[j] \o down[j], Output(k), s)
      BY <3>2, <3>3, ShownBegins
    <3>5. PICK x \in Seq(Shown), y \in Seq(Shown) : x = seen[k] \o down[k] /\ y = Going(k)
      BY <2>1
    <3>6. \A q \in Seq(Shown) : Before(q, x \o y, s) => Before(q, x, s)
      BY <3>5, ShownBegins
    <3> QED
      BY <2>1, <3>2, <3>4, <3>5, <3>6
  <2> QED
    BY <2>2, <2>3
<1>7. SharedOK'
  BY <1>1, <1>2, <1>5, <1>6 DEF SharedOK
<1>8. LatestOK'
  <2> SUFFICES ASSUME NEW k \in All, NEW s \in Outputs, connected', k = accepted'
               PROVE  LastIs(Output(k)', s, Gone(s)')
    BY DEF LatestOK
  <2>1. seen[k] = << >> /\ down[k] = << >>
    BY <1>1, <1>3 DEF OutputOK, NothingYet
  <2>2. Output(k)' = << >> /\ Len(<< >>) = 0
    BY <1>5, <2>1, ConcatEmptySeq, EmptySeq
  <2> QED
    BY <2>2 DEF LastIs
<1> QED
  BY <1>2, <1>4, <1>7, <1>8 DEF OutputOK

\* What a byte that leaves its pipe is
LEMMA NextPrinted ==
  ASSUME TypesOK, OutputOK, NEW s \in Outputs, FromSnek(s)
  PROVE  /\ Gone(s) \in Nat /\ Gone(s)' = Gone(s) + 1 /\ \A r \in Outputs : r # s => Gone(r)' = Gone(r)
         /\ Head(pipe[s]) \in Shown /\ Head(pipe[s]) = <<s, Gone(s) + 1>> /\ PrintedOK'
<1>1. /\ s \in ready /\ UNCHANGED printed /\ pipe' = [pipe EXCEPT ![s] = Tail(pipe[s])]
  BY EventIs DEF FromSnek, snek
<1>2. pipe'[s] = Tail(pipe[s]) /\ \A r \in Outputs : r # s => pipe'[r] = pipe[r]
  BY <1>1 DEF TypesOK, PipesOK, Outputs
<1>3. pipe[s] # << >> /\ pipe[s] \in Seq(Shown) /\ printed[s] \in Nat
  BY <1>1 DEF TypesOK, PipesOK, ServerOK
<1>4. /\ Head(pipe[s]) \in Shown /\ Tail(pipe[s]) \in Seq(Shown) /\ Head(pipe[s]) = pipe[s][1]
      /\ Len(Tail(pipe[s])) = Len(pipe[s]) - 1 /\ Len(pipe[s]) \in Nat \ {0}
      /\ \A i \in 1..Len(Tail(pipe[s])) : Tail(pipe[s])[i] = pipe[s][i + 1]
  BY <1>3, HeadTailProperties, EmptySeq, LenProperties
<1>5. Gone(s) \in Nat /\ Head(pipe[s]) = <<s, Gone(s) + 1>>
  <2>1. 1 \in 1..Len(pipe[s])
    BY <1>4
  <2> QED
    BY <1>4, <2>1 DEF OutputOK, PrintedOK
<1>6. Gone(s)' = Gone(s) + 1 /\ \A r \in Outputs : r # s => Gone(r)' = Gone(r)
  <2>1. printed'[s] = printed[s] /\ Len(pipe'[s]) = Len(pipe[s]) - 1
    BY <1>1, <1>2, <1>4
  <2>2. Gone(s)' = Gone(s) + 1
    BY <1>3, <1>4, <2>1 DEF Gone
  <2>3. \A r \in Outputs : r # s => Gone(r)' = Gone(r)
    BY <1>1, <1>2 DEF Gone
  <2> QED
    BY <2>2, <2>3
<1>7. PrintedOK'
  <2> SUFFICES ASSUME NEW r \in Outputs
               PROVE  Gone(r)' \in Nat /\ \A i \in 1..Len(pipe'[r]) : pipe'[r][i] = <<r, Gone(r)' + i>>
    BY DEF PrintedOK
  <2>1. CASE r = s
    <3>1. ASSUME NEW i \in 1..Len(pipe'[s]) PROVE pipe'[s][i] = <<s, Gone(s)' + i>>
      <4>1. i \in Nat /\ i + 1 \in 1..Len(pipe[s]) /\ pipe'[s][i] = pipe[s][i + 1]
        BY <1>2, <1>4, <3>1
      <4>2. Gone(s)' + i = Gone(s) + (i + 1)
        BY <1>5, <1>6, <4>1
      <4> QED
        BY <4>1, <4>2 DEF OutputOK, PrintedOK
    <3> QED
      BY <1>5, <1>6, <2>1, <3>1
  <2>2. CASE r # s
    BY <1>2, <1>6, <2>2 DEF OutputOK, PrintedOK
  <2> QED
    BY <2>1, <2>2
<1> QED
  BY <1>4, <1>5, <1>6, <1>7

\* With nobody there a byte is discarded.
LEMMA OutputIsDiscarded ==
  ASSUME TypesOK, OutputOK, NEW s \in Outputs, FromSnek(s), ~connected
  PROVE  OutputOK'
<1>1. UNCHANGED <<seen, down, accepted, connected, stdout_buf>>
  BY DEF FromSnek, sockets
<1>2. NothingYet' /\ \A k \in All : Output(k)' = Output(k)
  BY <1>1 DEF OutputOK, NothingYet, Output, Going
<1>3. LatestOK'
  BY <1>1 DEF LatestOK
<1>4. ASSUME NEW k \in All, NEW r \in Outputs PROVE UpTo(Output(k), r, Gone(r)')
  <2>1. UpTo(Output(k), r, Gone(r)) /\ Output(k) \in Seq(Shown)
    BY OutputIs DEF OutputOK, SharedOK
  <2>2. CASE r = s
    <3> SUFFICES ASSUME NEW i \in 1..Len(Output(k)), Output(k)[i][1] = s
                 PROVE  Output(k)[i][2] <= Gone(s) + 1
      BY <2>2, NextPrinted DEF UpTo
    <3>1. Output(k)[i] \in Shown
      BY <2>1, ElementOfSeq
    <3>2. Output(k)[i][2] \in Nat
      BY <3>1 DEF Shown
    <3>3. Output(k)[i][2] <= Gone(s)
      BY <2>1, <2>2 DEF UpTo
    <3> QED
      BY <3>2, <3>3, NextPrinted
  <2>3. CASE r # s
    BY <2>1, <2>3, NextPrinted
  <2> QED
    BY <2>2, <2>3
<1>5. SharedOK'
  <2>1. \A k \in All : \A j \in 1..(k - 1) : j \in All
    BY AllIs DEF All
  <2> QED
    BY <1>2, <1>4, <2>1 DEF OutputOK, SharedOK
<1> QED
  BY <1>2, <1>3, <1>5, NextPrinted DEF OutputOK

\* With a client there it waits for it, behind all that it has been given.
LEMMA OutputIsTaken ==
  ASSUME TypesOK, OutputOK, NEW s \in Outputs, FromSnek(s), connected
  PROVE  OutputOK'
<1>1. /\ UNCHANGED <<seen, down, accepted, connected>> /\ s \in ready
      /\ stdout_buf' = Head(pipe[s])
  BY EventIs DEF FromSnek, sockets
<1>2. PICK k \in All : k = accepted
  BY DEF TypesOK, ServerOK
<1>3. stdout_buf = EOF
  BY <1>1 DEF TypesOK, ServerOK
<1>4. PICK b \in Shown : b = Head(pipe[s])
  BY NextPrinted
<1>5. PICK c \in Nat : c = Gone(s)
  BY NextPrinted
<1>6. b[1] = s /\ b[2] = c + 1 /\ b = <<s, c + 1>>
  <2>1. b = <<s, c + 1>>
    BY <1>4, <1>5, NextPrinted
  <2> QED
    BY <2>1
<1>7. Output(k)' = Append(Output(k), b)
  <2>1. seen[k] \o down[k] \in Seq(Shown) /\ Output(k) \in Seq(Shown)
    BY OutputIs
  <2>2. Output(k) = seen[k] \o down[k]
    BY <1>2, <1>3, <2>1, ConcatEmptySeq DEF Output, Going, Waiting
  <2>3. Output(k)' = (seen[k] \o down[k]) \o <<b>>
    BY <1>1, <1>2, <1>4, AreNoEOF DEF Output, Going, Waiting
  <2>4. Append(Output(k), b) = Output(k) \o <<b>>
    BY <2>1, JoinsOn
  <2> QED
    BY <2>2, <2>3, <2>4
<1>8. \A j \in All : j # k => Output(j)' = Output(j)
  BY <1>1, <1>2 DEF Output, Going
<1>9. NothingYet'
  BY <1>1 DEF OutputOK, NothingYet
<1>10. ASSUME NEW r \in Outputs
       PROVE  /\ InTurn(Output(k)', r) /\ UpTo(Output(k)', r, Gone(r)')
              /\ LastIs(Output(k)', r, Gone(r)')
  <2>1. /\ Output(k) \in Seq(Shown)
        /\ InTurn(Output(k), r) /\ UpTo(Output(k), r, Gone(r)) /\ LastIs(Output(k), r, Gone(r))
    BY <1>2, OutputIs DEF OutputOK, SharedOK, LatestOK
  <2>2. CASE r = s
    <3>1. InTurn(Output(k), s) /\ UpTo(Output(k), s, c) /\ LastIs(Output(k), s, c) /\ Gone(s)' = c + 1
      BY <1>5, <2>1, <2>2, NextPrinted
    <3>2. /\ InTurn(Append(Output(k), b), s) /\ UpTo(Append(Output(k), b), s, c + 1)
          /\ LastIs(Append(Output(k), b), s, c + 1)
      BY <1>6, <2>1, <3>1, ShownGrows
    <3> QED
      BY <1>7, <2>2, <3>1, <3>2
  <2>3. CASE r # s
    <3>1. PICK d \in Nat : d = Gone(r)
      BY DEF OutputOK, PrintedOK
    <3>2. Gone(r)' = d
      BY <2>3, <3>1, NextPrinted
    <3>3. b[1] # r /\ InTurn(Output(k), r) /\ UpTo(Output(k), r, d) /\ LastIs(Output(k), r, d)
      BY <1>6, <2>1, <2>3, <3>1
    <3>4. /\ InTurn(Append(Output(k), b), r) /\ UpTo(Append(Output(k), b), r, d)
          /\ LastIs(Append(Output(k), b), r, d)
      BY <2>1, <3>3, OthersGrow
    <3> QED
      BY <1>7, <3>2, <3>4
  <2> QED
    BY <2>2, <2>3
<1>11. ASSUME NEW j \in All, NEW r \in Outputs, j # k
       PROVE  InTurn(Output(j)', r) /\ UpTo(Output(j)', r, Gone(r)')
  <2>1. Output(j) \in Seq(Shown) /\ InTurn(Output(j), r) /\ UpTo(Output(j), r, Gone(r))
    BY OutputIs DEF OutputOK, SharedOK
  <2>2. CASE r = s
    <3> SUFFICES ASSUME NEW i \in 1..Len(Output(j)), Output(j)[i][1] = r
                 PROVE  Output(j)[i][2] <= c + 1
      BY <1>5, <1>8, <1>11, <2>1, <2>2, NextPrinted DEF UpTo
    <3>1. Output(j)[i] \in Shown
      BY <2>1, ElementOfSeq
    <3>2. Output(j)[i][2] \in Nat
      BY <3>1 DEF Shown
    <3>3. Output(j)[i][2] <= c
      BY <1>5, <2>1, <2>2 DEF UpTo
    <3> QED
      BY <3>2, <3>3
  <2>3. CASE r # s
    BY <1>8, <1>11, <2>1, <2>3, NextPrinted
  <2> QED
    BY <2>2, <2>3
<1>12. ASSUME NEW m \in All, NEW j \in 1..(m - 1), NEW r \in Outputs
       PROVE  Before(Output(j)', Output(m)', r)
  <2>1. j \in All /\ j < m /\ m \in Nat /\ j \in Nat
    BY AllIs DEF All
  <2>2. Before(Output(j), Output(m), r) /\ Output(j) \in Seq(Shown) /\ Output(m) \in Seq(Shown)
    BY <2>1, OutputIs DEF OutputOK, SharedOK
  <2>3. CASE m = k
    <3> DEFINE z == Append(Output(k), b)
    <3>1. /\ Len(z) = Len(Output(k)) + 1 /\ z[Len(Output(k)) + 1] = b /\ Len(Output(k)) \in Nat
          /\ \A i \in 1..Len(Output(k)) : z[i] = Output(k)[i]
          /\ DOMAIN z = 1..Len(z) /\ DOMAIN Output(k) = 1..Len(Output(k))
          /\ DOMAIN Output(j) = 1..Len(Output(j))
      BY <2>2, <2>3, AppendProperties, LenProperties
    <3>2. Output(j)' = Output(j) /\ Output(m)' = z
      BY <1>7, <1>8, <2>1, <2>3
    <3> HIDE DEF z
    <3>3. ASSUME NEW i \in 1..Len(Output(j)), NEW n \in 1..Len(z),
                 Output(j)[i][1] = r, z[n][1] = r
          PROVE  Output(j)[i][2] < z[n][2]
      <4>1. CASE n \in 1..Len(Output(k))
        BY <2>2, <2>3, <3>1, <3>3, <4>1 DEF Before
      <4>2. CASE n = Len(Output(k)) + 1
        <5>1. z[n] = b /\ r = s
          BY <1>6, <3>1, <3>3, <4>2
        <5>2. UpTo(Output(j), s, c)
          BY <1>5, <2>1 DEF OutputOK, SharedOK
        <5>3. Output(j)[i][2] <= c
          BY <3>3, <5>1, <5>2 DEF UpTo
        <5>4. Output(j)[i] \in Shown
          BY <2>2, ElementOfSeq
        <5>5. Output(j)[i][2] \in Nat
          BY <5>4 DEF Shown
        <5> QED
          BY <1>6, <5>1, <5>3, <5>5
      <4> QED
        BY <3>1, <4>1, <4>2
    <3> QED
      BY <3>1, <3>2, <3>3 DEF Before
  <2>4. CASE j = k
    <3>1. Output(m) = << >> /\ Output(m)' = Output(m)
      <4>1. m > accepted /\ m # k
        BY <1>2, <2>1, <2>4
      <4>2. seen[m] = << >> /\ down[m] = << >> /\ Going(m) = << >>
        BY <1>2, <4>1 DEF OutputOK, NothingYet, Going
      <4> QED
        BY <1>8, <4>1, <4>2, ConcatEmptySeq, EmptySeq DEF Output
    <3>2. DOMAIN << >> = {}
      OBVIOUS
    <3> QED
      BY <3>1, <3>2 DEF Before
  <2>5. CASE m # k /\ j # k
    BY <1>8, <2>1, <2>2, <2>5
  <2> QED
    BY <2>3, <2>4, <2>5
<1>13. SharedOK'
  <2>1. \A m \in All, r \in Outputs : InTurn(Output(m)', r) /\ UpTo(Output(m)', r, Gone(r)')
    BY <1>10, <1>11
  <2> QED
    BY <1>12, <2>1 DEF SharedOK
<1>14. LatestOK'
  BY <1>1, <1>2, <1>10 DEF LatestOK
<1> QED
  BY <1>9, <1>13, <1>14, NextPrinted DEF OutputOK

LEMMA OutputServed ==
  ASSUME TypesOK, OutputOK, ServerStep
  PROVE  OutputOK'
<1>1. ASSUME UNCHANGED <<seen, down, stdout_buf, accepted, connected, printed>>,
             \A s \in Outputs : pipe'[s] = pipe[s]
      PROVE  OutputOK'
  <2>1. NothingYet' /\ \A k \in All : Output(k)' = Output(k)
    BY <1>1 DEF OutputOK, NothingYet, Output, Going
  <2>2. PrintedOK' /\ \A s \in Outputs : Gone(s)' = Gone(s)
    BY <1>1 DEF OutputOK, PrintedOK, Gone
  <2> QED
    BY <1>1, <2>1, <2>2, OutputStays
<1>2. ASSUME UNCHANGED <<seen, down, accepted, pipe, printed>>, Disconnect PROVE OutputOK'
  <2>1. connected' = FALSE /\ stdout_buf' = EOF /\ accepted \in Nat /\ accepted' = accepted
    BY <1>2, InputIs DEF Disconnect, Forget
  <2> QED
    BY <1>2, <2>1, OutputIsDropped
<1>3. CASE Accept
  <2>1. UNCHANGED <<seen, down, pipe, printed>> /\ accepted' = accepted + 1 /\ stdout_buf' = EOF
    BY <1>3 DEF Accept, Forget, sockets, snek
  <2>2. accepted' \in Nat /\ accepted' > accepted
    BY <2>1, InputIs
  <2>3. accepted' >= accepted
    BY <2>2, InputIs
  <2> QED
    BY <2>1, <2>2, <2>3, OutputIsDropped
<1>4. CASE Receiving
  <2>1. UNCHANGED <<seen, down, accepted, pipe, printed>>
    BY <1>4 DEF Receiving, snek
  <2>2. UNCHANGED <<connected, stdout_buf>> \/ Disconnect
    BY <1>4 DEF Receiving
  <2> QED
    BY <1>1, <1>2, <2>1, <2>2
<1>5. CASE ToSnek
  <2>1. \A s \in Outputs : pipe'[s] = pipe[s]
    BY <1>5 DEF ToSnek, TypesOK, PipesOK, Outputs
  <2> QED
    BY <1>1, <1>5, <2>1 DEF ToSnek, sockets, snek
<1>6. CASE ToClient
  <2>1. "out" \in ready /\ UNCHANGED <<seen, accepted, connected, pipe, printed>>
    BY <1>6, EventIs DEF ToClient, snek
  <2>2. CASE UNCHANGED <<down, stdout_buf>>
    BY <1>1, <2>1, <2>2
  <2>3. CASE /\ down' = [down EXCEPT ![accepted] = Append(down[accepted], stdout_buf)]
             /\ stdout_buf' = EOF
    <3>1. connected
      BY <2>1 DEF TypesOK, ServerOK
    <3>2. PICK k \in All : k = accepted
      BY <3>1 DEF TypesOK, ServerOK
    <3>3. PICK b \in Shown : b = stdout_buf
      BY <2>1 DEF TypesOK, ServerOK
    <3>4. /\ down'[k] = Append(down[k], b)
          /\ \A j \in All : j # k => down'[j] = down[j]
      BY <2>3, <3>2, <3>3 DEF TypesOK, SocketsOK
    <3>5. seen[k] \o Append(down[k], b) = (seen[k] \o down[k]) \o <<b>>
      <4>1. seen[k] \in Seq(Shown) /\ down[k] \in Seq(Shown) /\ seen[k] \o down[k] \in Seq(Shown)
        BY OutputIs
      <4>2. seen[k] \o Append(down[k], b) = Append(seen[k] \o down[k], b)
        <5>1. PICK x \in Seq(Shown), y \in Seq(Shown) : x = seen[k] /\ y = down[k]
          BY <4>1
        <5>2. x \o Append(y, b) = Append(x \o y, b)
          <6>1. x \in Seq(Shown) /\ y \in Seq(Shown) /\ b \in Shown
            BY <3>3, <5>1
          <6> QED
            BY ONLY <6>1, JoinsOn
        <5> QED
          BY <5>1, <5>2
      <4>3. Append(seen[k] \o down[k], b) = (seen[k] \o down[k]) \o <<b>>
        BY <3>3, <4>1, JoinsOn
      <4> QED
        BY <4>2, <4>3
    <3>6. Output(k) = (seen[k] \o down[k]) \o <<b>>
      BY <3>1, <3>2, <3>3, AreNoEOF DEF Output, Going, Waiting
    <3>7. Output(k)' = Output(k)
      <4>1. seen[k] \o Append(down[k], b) \in Seq(Shown)
        BY <3>5, <3>6, OutputIs
      <4>2. Output(k)' = (seen[k] \o Append(down[k], b)) \o << >>
        BY <2>1, <2>3, <3>4 DEF Output, Going, Waiting, EOF
      <4>3. (seen[k] \o Append(down[k], b)) \o << >> = seen[k] \o Append(down[k], b)
        BY <4>1, ConcatEmptySeq
      <4> QED
        BY <3>5, <3>6, <4>2, <4>3
    <3>8. \A j \in All : j # k => Output(j)' = Output(j)
      BY <2>1, <3>2, <3>4 DEF Output, Going
    <3>9. NothingYet'
      <4>1. \A j \in All : j > accepted => j # k
        BY <3>2, AllIs
      <4> QED
        BY <2>1, <3>4, <4>1 DEF OutputOK, NothingYet
    <3>10. PrintedOK' /\ \A s \in Outputs : Gone(s)' = Gone(s)
      BY <2>1 DEF OutputOK, PrintedOK, Gone
    <3> QED
      BY <2>1, <3>7, <3>8, <3>9, <3>10, OutputStays
  <2> QED
    BY <1>6, <2>2, <2>3 DEF ToClient
<1>7. ASSUME NEW s \in Outputs, FromSnek(s) PROVE OutputOK'
  BY <1>7, OutputIsTaken, OutputIsDiscarded
<1>8. CASE Poll
  BY <1>1, <1>8 DEF Poll, sockets, snek
<1>9. CASE HangUp
  BY <1>2, <1>9 DEF HangUp, sockets, snek
<1>10. CASE OutOfBand
  BY <1>1, <1>10 DEF OutOfBand, snek
<1>11. CASE SnekExited
  BY <1>1, <1>11 DEF SnekExited, sockets, snek
<1> QED
  BY <1>3, <1>4, <1>5, <1>6, <1>7, <1>8, <1>9, <1>10, <1>11 DEF ServerStep, Handle, Outputs

LEMMA InvariantHolds == Init /\ [][Next]_vars => [](TypesOK /\ InputOK /\ OutputOK)
<1>1. Init => InputOK
  <2> SUFFICES ASSUME Init PROVE InputOK
    OBVIOUS
  <2>1. Input = << >> /\ Len(<< >>) = 0
    BY ConcatEmptySeq, EmptySeq DEF Init, Input, Taking, Coming, Waiting, EOF
  <2>2. \A k \in All : up[k] = Untouched(k, typed[k])
    <3>1. \A k : Untouched(k, 0) = << >>
      BY DEF Untouched
    <3> QED
      BY <3>1 DEF Init
  <2>3. ~connected
    BY DEF Init
  <2> QED
    BY <2>1, <2>2, <2>3 DEF InputOK, Chain
<1>2. Init => OutputOK
  <2> SUFFICES ASSUME Init PROVE OutputOK
    OBVIOUS
  <2>1. Len(<< >>) = 0 /\ DOMAIN << >> = {}
    BY EmptySeq
  <2>2. \A k \in All : Output(k) = << >>
    BY ConcatEmptySeq, EmptySeq DEF Init, Output, Going
  <2>3. \A k \in All : \A j \in 1..(k - 1) : j \in All
    BY AllIs DEF All
  <2>4. PrintedOK
    <3>1. \A s \in Outputs : pipe[s] = << >> /\ printed[s] = 0
      BY DEF Init
    <3> QED
      BY <2>1, <3>1 DEF PrintedOK, Gone
  <2>5. SharedOK /\ LatestOK /\ NothingYet
    <3>1. NothingYet
      BY DEF Init, NothingYet
    <3>2. SharedOK
      BY <2>1, <2>2, <2>3 DEF SharedOK, InTurn, UpTo, Before
    <3>3. LatestOK
      BY <2>1, <2>2 DEF LatestOK, LastIs
    <3> QED
      BY <3>1, <3>2, <3>3
  <2> QED
    BY <2>4, <2>5 DEF OutputOK
<1>3. TypesOK /\ InputOK /\ [Next]_vars => InputOK'
  <2> SUFFICES ASSUME TypesOK, InputOK, [Next]_vars PROVE InputOK'
    OBVIOUS
  <2>1. CASE UNCHANGED vars
    BY <2>1 DEF vars, sockets, server, snek, InputOK, LastTyped, Input, Taking, Coming
  <2> QED
    BY <2>1, InputGrows, InputIsRead, InputServed DEF Next, ClientStep, SnekStep, ServerStep
<1>4. TypesOK /\ OutputOK /\ [Next]_vars => OutputOK'
  <2> SUFFICES ASSUME TypesOK, OutputOK, [Next]_vars PROVE OutputOK'
    OBVIOUS
  <2>1. CASE UNCHANGED vars
    BY <2>1 DEF vars, sockets, server, snek, OutputOK, PrintedOK, SharedOK, LatestOK, NothingYet,
                Output, Going, Gone
  <2> QED
    BY <2>1, OutputIsReceived, OutputIsPrinted, OutputServed DEF Next, ClientStep, SnekStep, ServerStep
<1> QED
  BY <1>1, <1>2, <1>3, <1>4, TypesHold, PTL

\* snek reads what each client sent from its first byte on and none of an
\* earlier client after it, and each client sees what snek prints from some
\* byte on, each stream in its order and with nothing that another has seen,
\* whatever poll has reported and is acted on late (main's loop).
THEOREM InOrderHolds == Spec => []InOrder
<1>1. TypesOK /\ InputOK /\ OutputOK => InOrder
  <2> SUFFICES ASSUME TypesOK, InputOK, OutputOK PROVE InOrder
    OBVIOUS
  <2>1. Chain(took)
    BY InputBegins
  <2>2. ASSUME NEW k \in All, NEW s \in Outputs
        PROVE  InTurn(seen[k], s) /\ \A j \in 1..(k - 1) : Before(seen[j], seen[k], s)
    <3>1. InTurn(Output(k), s) /\ \A j \in 1..(k - 1) : Before(Output(j), Output(k), s) /\ j \in All
      BY AllIs DEF OutputOK, SharedOK, All
    <3>2. ASSUME NEW j \in All
          PROVE  /\ seen[j] \in Seq(Shown)
                 /\ InTurn(Output(j), s) => InTurn(seen[j], s)
                 /\ \A q \in Seq(Shown) : /\ Before(Output(j), q, s) => Before(seen[j], q, s)
                                          /\ Before(q, Output(j), s) => Before(q, seen[j], s)
      <4> DEFINE given == seen[j] \o down[j]
      <4>1. /\ seen[j] \in Seq(Shown) /\ down[j] \in Seq(Shown) /\ given \in Seq(Shown)
            /\ Going(j) \in Seq(Shown) /\ Output(j) = given \o Going(j)
        BY OutputIs DEF Output
      <4>2. /\ InTurn(given, s) => InTurn(seen[j], s)
            /\ \A q \in Seq(Shown) : /\ Before(given, q, s) => Before(seen[j], q, s)
                                     /\ Before(q, given, s) => Before(q, seen[j], s)
        BY <4>1, ShownBegins
      <4> HIDE DEF given
      <4>3. /\ InTurn(Output(j), s) => InTurn(given, s)
            /\ \A q \in Seq(Shown) : /\ Before(Output(j), q, s) => Before(given, q, s)
                                     /\ Before(q, Output(j), s) => Before(q, given, s)
        <5>1. PICK x \in Seq(Shown), y \in Seq(Shown) : x = given /\ y = Going(j)
          BY <4>1
        <5>2. /\ InTurn(x \o y, s) => InTurn(x, s)
              /\ \A q \in Seq(Shown) : /\ Before(x \o y, q, s) => Before(x, q, s)
                                       /\ Before(q, x \o y, s) => Before(q, x, s)
          BY <5>1, ShownBegins
        <5> QED
          BY <4>1, <5>1, <5>2
      <4> QED
        BY <4>1, <4>2, <4>3
    <3>3. Output(k) \in Seq(Shown)
      BY OutputIs
    <3> QED
      BY <3>1, <3>2, <3>3
  <2> QED
    BY <2>1, <2>2 DEF InOrder, Chain
<1> QED
  BY <1>1, InvariantHolds, PTL DEF Spec


----------------------------------------------------------------------------
(***************************************************************************)
(* The ports.  Directories go and are never made again under the same      *)
(* number: what is remembered of one stays true of it, whether it is still *)
(* there or not.                                                           *)
(***************************************************************************)

PortsSpec == PortsInit /\ [][PortsNext]_portVars

Classes == {"motor", "sensor"}

----------------------------------------------------------------------------
(***************************************************************************)
(* Types                                                                   *)
(***************************************************************************)
MotorFiles ==
  {"speed_sp", "polarity", "command", "time_sp", "position_sp", "stop_action", "ramp_up_sp",
   "ramp_down_sp", "position", "speed"}
SensorFiles == {"driver_name", "mode", "value"}
Files == IF Class = "motor" THEN MotorFiles ELSE SensorFiles

Words ==
  {"inversed", "normal", "run-forever", "stop", "run-timed", "run-to-abs-pos", "coast", "brake",
   "hold", "COL-REFLECT", "COL-AMBIENT", "COL-COLOR", "RGB-RAW", "none"}

Values == Int \cup Words

Access(files) == [does : {"read"}, file : files]
                   \cup [does : {"write"}, file : files, value : Values] \cup {Wrong}

Accesses(files) == Seq(Access(files)) \ {<< >>}

AttrFiles == {"time_sp", "position_sp", "command", "mode"}

Device == [port : MotorPorts \cup SensorPorts, kind : use.kinds, here : BOOLEAN,
           attr : [AttrFiles -> Values]]

Results == {None, "ok", "argument", "no device", "search", "gone"}

Calls ==
  [op : use.ops \ {None}, port : MotorPorts \cup SensorPorts, arg : Int, todo : Seq(Access(Files)),
   fd : Int, before : Values, again : BOOLEAN, result : Results, steady : Int,
   disturbed : BOOLEAN]

DevicesOK == devs \in [Classes -> Seq(Device)]

FoundOK ==
  /\ motors \in [MotorPorts -> Nat] /\ sensor_num \in [SensorPorts -> Nat]
  /\ sensor_kind \in [SensorPorts -> use.kinds \cup {None}]

CallOK ==
  /\ doing \in {"idle", "open", "list", "entry", "act"}
  /\ call \in Calls \/ (doing = "idle" /\ call = [op |-> None])
  /\ doing # "idle" => call.port \in Ports[Class] /\ call.todo # << >>
  /\ doing \in {"entry", "act"} => call.fd \in AllOf(Class)

PortsOK ==
  /\ use \in Uses /\ selected_motor \in MotorPorts \cup {None} /\ left \subseteq AllOf(Class)
  /\ DevicesOK /\ FoundOK /\ CallOK

----------------------------------------------------------------------------
(***************************************************************************)
(* What builtins do to files                                               *)
(***************************************************************************)
LEMMA OneOrTwo ==
  ASSUME NEW files, NEW a \in Access(files)
  PROVE  <<a>> \in Accesses(files) /\ \A b \in Access(files) : <<a, b>> \in Accesses(files)
BY DEF Accesses

LEMMA ReadsAndWrites ==
  ASSUME NEW files, NEW file \in files
  PROVE  ReadOf(file) \in Access(files) /\ \A v \in Values : WriteOf(file, v) \in Access(files)
BY DEF ReadOf, WriteOf, Access

LEMMA WordsAndNumbers == Words \subseteq Values /\ Int \subseteq Values
BY DEF Values

LEMMA CommandsAre ==
  ASSUME NEW arg \in Int
  PROVE  \A op \in DOMAIN Commands(arg) : Commands(arg)[op] \in Accesses(MotorFiles)
<1>1. {"run-forever", "stop", "run-timed", "run-to-abs-pos", arg} \subseteq Values
  BY WordsAndNumbers DEF Words
<1>2. {WriteOf("command", "run-forever"), WriteOf("command", "stop"),
       WriteOf("time_sp", arg), WriteOf("command", "run-timed"),
       WriteOf("position_sp", arg), WriteOf("command", "run-to-abs-pos")} \subseteq Access(MotorFiles)
  BY <1>1, ReadsAndWrites DEF MotorFiles
<1>3. /\ DOMAIN Commands(arg) = {"on", "off", "onfor", "setposition"}
      /\ Commands(arg)["on"] = <<WriteOf("command", "run-forever")>>
      /\ Commands(arg)["off"] = <<WriteOf("command", "stop")>>
      /\ Commands(arg)["onfor"]
           = <<WriteOf("time_sp", arg), WriteOf("command", "run-timed")>>
      /\ Commands(arg)["setposition"]
           = <<WriteOf("position_sp", arg), WriteOf("command", "run-to-abs-pos")>>
  BY DEF Commands
<1> QED
  BY <1>2, <1>3, OneOrTwo

LEMMA OthersAre ==
  \A table \in {Settings, Position, Speed, StopActions, Ramps} :
    \A op \in DOMAIN table : table[op] \in Accesses(MotorFiles)
<1>1. {"inversed", "normal", "coast", "brake", "hold"} \subseteq Values /\ 0 \in Values
  <2>1. {"inversed", "normal", "coast", "brake", "hold"} \subseteq Words
    BY DEF Words
  <2> QED
    BY <2>1, WordsAndNumbers
<1>2. /\ {WriteOf("speed_sp", 0), WriteOf("polarity", "inversed"), WriteOf("polarity", "normal"),
          ReadOf("position"), ReadOf("speed"), WriteOf("ramp_up_sp", 0),
          WriteOf("ramp_down_sp", 0)} \subseteq Access(MotorFiles)
      /\ \A a \in {"coast", "brake", "hold"} : WriteOf("stop_action", a) \in Access(MotorFiles)
  BY <1>1, ReadsAndWrites DEF MotorFiles
<1>3. \A op \in DOMAIN Settings : Settings[op] \in Accesses(MotorFiles)
  BY <1>2, OneOrTwo DEF Settings
<1>4. \A op \in DOMAIN Position : Position[op] \in Accesses(MotorFiles)
  BY <1>2, OneOrTwo DEF Position
<1>5. \A op \in DOMAIN Speed : Speed[op] \in Accesses(MotorFiles)
  BY <1>2, OneOrTwo DEF Speed
<1>6. \A op \in DOMAIN StopActions : StopActions[op] \in Accesses(MotorFiles)
  BY <1>2, OneOrTwo DEF StopActions
<1>7. \A op \in DOMAIN Ramps : Ramps[op] \in Accesses(MotorFiles)
  BY <1>2, OneOrTwo DEF Ramps
<1> QED
  BY <1>3, <1>4, <1>5, <1>6, <1>7, Zenon

LEMMA MotorAccessesAre ==
  ASSUME NEW arg \in Int, NEW table \in MotorAccesses(arg), NEW op \in DOMAIN table
  PROVE  table[op] \in Accesses(MotorFiles) /\ op # None
<1>1. table[op] \in Accesses(MotorFiles)
  BY CommandsAre, OthersAre DEF MotorAccesses
<1>2. op # None
  BY DEF MotorAccesses, Settings, Commands, Position, Speed, StopActions, Ramps, None
<1> QED
  BY <1>1, <1>2

LEMMA WrongIs == \A files : <<Wrong>> \in Accesses(files)
BY OneOrTwo DEF Access

\* What a sensor's kind and mode lead to
LEMMA SensorAccessesAre ==
  /\ SensorAccesses \in Accesses(SensorFiles)
  /\ \A kind : ByKind(kind) \in Accesses(SensorFiles)
  /\ \A mode : ByMode(mode) \in Accesses(SensorFiles)
  /\ \A kind, op : op \in DOMAIN Modes => SetMode(op, kind) \in Accesses(SensorFiles)
<1>1. {ReadOf("driver_name"), ReadOf("mode"), ReadOf("value")} \subseteq Access(SensorFiles)
  BY ReadsAndWrites DEF SensorFiles
<1>2. /\ SensorAccesses \in Accesses(SensorFiles) /\ Value \in Accesses(SensorFiles) /\ <<ReadOf("mode")>> \in Accesses(SensorFiles)
      /\ RGB \in Accesses(SensorFiles)
  BY <1>1, OneOrTwo DEF SensorAccesses, Value, RGB, Accesses
<1>3. ASSUME NEW kind PROVE ByKind(kind) \in Accesses(SensorFiles)
  <2>1. ByKind(kind) \in {Value, <<ReadOf("mode")>>, <<Wrong>>}
    BY Zenon DEF ByKind
  <2> QED
    BY <1>2, <2>1, WrongIs
<1>4. ASSUME NEW mode PROVE ByMode(mode) \in Accesses(SensorFiles)
  BY <1>2 DEF ByMode
<1>5. ASSUME NEW kind, NEW op \in DOMAIN Modes PROVE SetMode(op, kind) \in Accesses(SensorFiles)
  <2>1. Modes[op] \in Words
    BY DEF Modes, Words
  <2>2. WriteOf("mode", Modes[op]) \in Access(SensorFiles)
    BY <2>1, WordsAndNumbers, ReadsAndWrites DEF SensorFiles
  <2> QED
    BY <2>2, OneOrTwo, WrongIs DEF SetMode
<1> QED
  BY <1>2, <1>3, <1>4, <1>5, Zenon

----------------------------------------------------------------------------
(***************************************************************************)
(* What a step does to the directories                                     *)
(***************************************************************************)
\* Device n of class c becomes d, and nothing else changes.
Changed(c, n, d) ==
  /\ \A b \in Classes : AllOf(b)' = AllOf(b)
  /\ \A b \in Classes : \A m \in AllOf(b) : Dev(b, m)' = IF b = c /\ m = n THEN d ELSE Dev(b, m)

\* A directory keeps its number, its port and what is plugged in.
Kept ==
  \A c \in Classes : \A n \in AllOf(c) :
    n \in AllOf(c)' /\ Dev(c, n)'.port = Dev(c, n).port /\ Dev(c, n)'.kind = Dev(c, n).kind

LEMMA ClassIs == PortsOK => Class \in Classes /\ Class' = use'.class
BY UsesAssumption DEF PortsOK, Class, Classes

LEMMA DeviceIs ==
  ASSUME DevicesOK, NEW c \in Classes, NEW n \in AllOf(c)
  PROVE  Dev(c, n) \in Device /\ n \in Nat /\ n + 1 \in 1..Len(devs[c])
BY DEF DevicesOK, AllOf, Dev

LEMMA DeviceChanges ==
  ASSUME DevicesOK, NEW c \in Classes, NEW n \in AllOf(c), NEW d \in Device,
         devs' = [devs EXCEPT ![c] = [devs[c] EXCEPT ![n + 1] = d]], UNCHANGED use
  PROVE  DevicesOK' /\ Changed(c, n, d)
<1>1. devs[c] \in Seq(Device) /\ n \in Nat /\ n + 1 \in 1..Len(devs[c])
  BY DEF DevicesOK, AllOf
<1>2. /\ [devs[c] EXCEPT ![n + 1] = d] \in Seq(Device)
      /\ Len([devs[c] EXCEPT ![n + 1] = d]) = Len(devs[c])
      /\ \A i \in 1..Len(devs[c]) :
           [devs[c] EXCEPT ![n + 1] = d][i] = IF i = n + 1 THEN d ELSE devs[c][i]
  BY <1>1
<1>3. \A b \in Classes : devs'[b] = IF b = c THEN [devs[c] EXCEPT ![n + 1] = d] ELSE devs[b]
  BY DEF DevicesOK
<1>4. DevicesOK'
  BY <1>2 DEF DevicesOK, Device
<1>5. \A b \in Classes : AllOf(b)' = AllOf(b)
  BY <1>2, <1>3 DEF AllOf
<1>6. ASSUME NEW b \in Classes, NEW m \in AllOf(b)
      PROVE  Dev(b, m)' = IF b = c /\ m = n THEN d ELSE Dev(b, m)
  <2>1. m \in Nat /\ m + 1 \in 1..Len(devs[b]) /\ (m + 1 = n + 1 <=> m = n)
    BY <1>1, <1>6 DEF DevicesOK, AllOf
  <2> QED
    BY <1>2, <1>3, <2>1 DEF Dev
<1> QED
  BY <1>4, <1>5, <1>6 DEF Changed

LEMMA NewAttrIs == NewAttr \in [AttrFiles -> Values] /\ NewAttr.command = "stop"
<1>1. NewAttr = [f \in AttrFiles |-> NewAttr[f]]
  BY DEF NewAttr, AttrFiles
<1>2. \A f \in AttrFiles : NewAttr[f] \in Values
  <2>1. 0 \in Values /\ {"stop", "COL-REFLECT"} \subseteq Values
    BY WordsAndNumbers DEF Words
  <2> QED
    BY <2>1 DEF NewAttr, AttrFiles
<1> QED
  BY <1>1, <1>2 DEF NewAttr

LEMMA PlugChanges ==
  ASSUME PortsOK, Plug
  PROVE  /\ DevicesOK' /\ Kept
         /\ \E p \in Ports[Class], kind \in use.kinds, new \in Nat :
              /\ At(p) = {} /\ new = Len(devs[Class])
              /\ AllOf(Class)' = AllOf(Class) \cup {new} /\ new \notin AllOf(Class)
              /\ Dev(Class, new)' = [port |-> p, kind |-> kind, here |-> TRUE, attr |-> NewAttr]
              /\ \A c \in Classes : \A n \in AllOf(c) : Dev(c, n)' = Dev(c, n)
              /\ doing # "idle" => call' = [call EXCEPT !.disturbed = @ \/ ~Known(kind)]
<1>0. PICK new \in Nat : /\ new = Len(devs[Class])
                        /\ Class \in Classes /\ devs[Class] \in Seq(Device)
  BY ClassIs DEF PortsOK, DevicesOK
<1>1. PICK p \in Ports[Class], kind \in use.kinds :
        /\ At(p) = {}
        /\ devs' = [devs EXCEPT ![Class] = Append(devs[Class],
                      [port |-> p, kind |-> kind, here |-> TRUE, attr |-> NewAttr])]
        /\ UNCHANGED use
        /\ doing # "idle" => call' = [call EXCEPT !.disturbed = @ \/ ~Known(kind)]
  BY <1>0 DEF Plug, PortsOK, DevicesOK
<1> DEFINE d == [port |-> p, kind |-> kind, here |-> TRUE, attr |-> NewAttr]
<1>2. d \in Device
  <2>1. p \in MotorPorts \cup SensorPorts
    BY <1>0 DEF Ports, Classes
  <2> QED
    BY <2>1, NewAttrIs DEF Device
<1> HIDE DEF d
<1>3. /\ Append(devs[Class], d) \in Seq(Device) /\ Len(Append(devs[Class], d)) = new + 1
      /\ Append(devs[Class], d)[new + 1] = d
      /\ \A i \in 1..new : Append(devs[Class], d)[i] = devs[Class][i]
  BY <1>0, <1>2
<1>4. \A c \in Classes : devs'[c] = IF c = Class THEN Append(devs[Class], d) ELSE devs[c]
  BY <1>1 DEF PortsOK, DevicesOK, d
<1>5. DevicesOK'
  BY <1>0, <1>1, <1>3 DEF PortsOK, DevicesOK, Device, d
<1>6. ASSUME NEW c \in Classes, NEW n \in AllOf(c)
      PROVE  n \in AllOf(c)' /\ Dev(c, n)' = Dev(c, n)
  <2>1. devs[c] \in Seq(Device) /\ n \in Nat /\ n + 1 \in 1..Len(devs[c])
    BY <1>6 DEF PortsOK, DevicesOK, AllOf
  <2>2. CASE c = Class
    <3>1. n + 1 \in 1..new /\ devs'[c] = Append(devs[Class], d)
      BY <1>0, <1>4, <2>1, <2>2
    <3>2. devs'[c][n + 1] = devs[c][n + 1]
      BY <1>3, <2>2, <3>1
    <3>3. n \in 0..(Len(devs'[c]) - 1)
      BY <1>0, <1>3, <2>1, <3>1
    <3> QED
      BY <3>2, <3>3 DEF AllOf, Dev
  <2>3. CASE c # Class
    BY <1>4, <2>1, <2>3 DEF AllOf, Dev
  <2> QED
    BY <2>2, <2>3
<1>7. AllOf(Class)' = AllOf(Class) \cup {new} /\ new \notin AllOf(Class)
  <2>1. AllOf(Class) = 0..(new - 1) /\ AllOf(Class)' = 0..((new + 1) - 1)
    BY <1>0, <1>1, <1>3, <1>4 DEF AllOf, Class
  <2> QED
    BY <1>0, <2>1
<1>8. Dev(Class, new)' = d
  BY <1>0, <1>1, <1>3, <1>4 DEF Dev, Class
<1> QED
  BY <1>0, <1>1, <1>5, <1>6, <1>7, <1>8 DEF Kept, d, Class

LEMMA UnplugChanges ==
  ASSUME PortsOK, NEW n \in Present,
         devs' = [devs EXCEPT ![Class][n + 1].here = FALSE, ![Class][n + 1].attr = NewAttr],
         UNCHANGED use
  PROVE  /\ DevicesOK' /\ Kept
         /\ Changed(Class, n, [Dev(Class, n) EXCEPT !.here = FALSE, !.attr = NewAttr])
<1> DEFINE d == [Dev(Class, n) EXCEPT !.here = FALSE, !.attr = NewAttr]
<1>1. Class \in Classes /\ n \in AllOf(Class) /\ Dev(Class, n) \in Device /\ n + 1 \in 1..Len(devs[Class])
  BY ClassIs, DeviceIs DEF PortsOK, Present
<1>2. d \in Device /\ d.port = Dev(Class, n).port /\ d.kind = Dev(Class, n).kind
  BY <1>1, NewAttrIs DEF Device
<1>3. devs' = [devs EXCEPT ![Class] = [devs[Class] EXCEPT ![n + 1] = d]]
  BY <1>1 DEF PortsOK, DevicesOK, Dev, Device
<1> HIDE DEF d
<1>4. DevicesOK' /\ Changed(Class, n, d)
  BY <1>1, <1>2, <1>3, DeviceChanges DEF PortsOK
<1>5. Kept
  BY <1>2, <1>4 DEF Kept, Changed
<1> QED
  BY <1>4, <1>5 DEF d

LEMMA WriteChanges ==
  ASSUME PortsOK, NEW n \in AllOf(Class), NEW access \in Access(Files), access.does = "write",
         Written(n, access), UNCHANGED use
  PROVE  /\ DevicesOK' /\ Kept
         /\ \E attr \in [AttrFiles -> Values] :
              /\ Changed(Class, n, [Dev(Class, n) EXCEPT !.attr = attr])
              /\ \A file \in AttrFiles :
                   attr[file] = IF file = access.file THEN access.value
                                ELSE Dev(Class, n).attr[file]
<1>1. /\ Class \in Classes /\ Dev(Class, n) \in Device /\ n + 1 \in 1..Len(devs[Class])
      /\ Dev(Class, n).attr \in [AttrFiles -> Values]
  BY ClassIs, DeviceIs DEF PortsOK, Device
<1>2. access.value \in Values
  BY DEF Access, Wrong
<1> DEFINE attr == [file \in AttrFiles |-> IF file = access.file THEN access.value
                                           ELSE Dev(Class, n).attr[file]]
           d == [Dev(Class, n) EXCEPT !.attr = attr]
<1>3. attr \in [AttrFiles -> Values]
  BY <1>1, <1>2
<1>4. d \in Device /\ d.port = Dev(Class, n).port /\ d.kind = Dev(Class, n).kind
  BY <1>1, <1>3 DEF Device
<1>5. devs' = [devs EXCEPT ![Class] = [devs[Class] EXCEPT ![n + 1] = d]]
  <2>1. CASE access.file \in AttrFiles
    <3>1. devs' = [devs EXCEPT ![Class][n + 1].attr[access.file] = access.value]
      BY <1>1, <2>1 DEF Written
    <3>2. attr = [Dev(Class, n).attr EXCEPT ![access.file] = access.value]
      BY <1>1, <2>1
    <3> HIDE DEF attr
    <3> QED
      BY <1>1, <3>1, <3>2 DEF PortsOK, DevicesOK, Dev, Device
  <2>2. CASE access.file \notin AttrFiles
    <3>1. devs' = devs
      BY <1>1, <2>2 DEF Written
    <3>2. attr = Dev(Class, n).attr
      BY <1>1, <2>2
    <3> HIDE DEF attr
    <3>3. d = Dev(Class, n)
      BY <1>1, <3>2 DEF Device
    <3> QED
      BY <1>1, <3>1, <3>3 DEF PortsOK, DevicesOK, Dev
  <2> QED
    BY <2>1, <2>2
<1> HIDE DEF d
<1>6. DevicesOK' /\ Changed(Class, n, d)
  BY <1>1, <1>4, <1>5, DeviceChanges DEF PortsOK
<1>7. Kept
  BY <1>4, <1>6 DEF Kept, Changed
<1> QED
  BY <1>3, <1>6, <1>7 DEF d

----------------------------------------------------------------------------
(***************************************************************************)
(* What a step does to the call                                            *)
(***************************************************************************)
\* All but what is left to do and the result
SameCall ==
  /\ call'.op = call.op /\ call'.port = call.port /\ call'.arg = call.arg /\ call'.fd = call.fd
  /\ call'.before = call.before /\ call'.again = call.again
  /\ call'.steady = call.steady /\ call'.disturbed = call.disturbed

LEMMA EndsCall ==
  ASSUME call \in Calls, NEW r \in Results, Ends(r), UNCHANGED use
  PROVE  doing' = "idle" /\ call' \in Calls' /\ call'.result = r /\ SameCall
<1>1. PICK todo \in Seq(Access(Files)) : call' = [call EXCEPT !.result = r, !.todo = todo]
  <2>1. << >> \in Seq(Access(Files))
    OBVIOUS
  <2> QED
    BY <2>1 DEF Ends
<1> QED
  BY <1>1 DEF Ends, Calls, SameCall, Files, Class

LEMMA ContinuesCall ==
  ASSUME call \in Calls, NEW todo \in Seq(Access(Files)), Continue(todo), UNCHANGED use
  PROVE  /\ call' \in Calls' /\ SameCall
         /\ \/ todo = << >> /\ doing' = "idle" /\ call'.result = "ok"
            \/ todo # << >> /\ doing' = "act" /\ call'.todo = todo
<1>1. CASE todo = << >> /\ Ends("ok")
  BY <1>1, EndsCall DEF Results
<1>2. CASE todo # << >> /\ doing' = "act" /\ call' = [call EXCEPT !.todo = todo]
  BY <1>2 DEF Calls, SameCall, Files, Class
<1> QED
  BY <1>1, <1>2 DEF Continue

LEMMA CallIs ==
  ASSUME PortsOK, doing # "idle"
  PROVE  /\ call \in Calls /\ call.todo \in Seq(Access(Files)) /\ call.todo # << >>
         /\ Head(call.todo) \in Access(Files) /\ Tail(call.todo) \in Seq(Access(Files))
         /\ call.port \in Ports[Class] /\ call.op \in use.ops \ {None}
BY DEF PortsOK, CallOK, Calls

LEMMA FollowIs ==
  ASSUME PortsOK, doing = "act", NEW n, Head(call.todo).does = "read"
  PROVE  Follow(n, Head(call.todo)) \in Seq(Access(Files))
<1>0. Head(call.todo) \in Access(Files) /\ Tail(call.todo) \in Seq(Access(Files))
      /\ call.op \in use.ops
  BY CallIs
<1>1. Head(call.todo).file \in Files
  BY <1>0 DEF Access, Wrong
<1>2. CASE Class = "motor"
  <2>1. Head(call.todo).file \notin {"driver_name", "mode"}
    BY <1>1, <1>2 DEF Files, MotorFiles
  <2>2. Follow(n, Head(call.todo)) = Tail(call.todo)
    BY <2>1, Zenon DEF Follow
  <2> QED
    BY <1>0, <2>2
<1>3. CASE Class = "sensor"
  <2>1. Accesses(SensorFiles) \subseteq Seq(Access(Files))
    BY <1>3 DEF Accesses, Files
  <2>2. call.op # "read" => call.op \in DOMAIN Modes
    BY <1>0, <1>3, UsesAssumption DEF PortsOK, Class
  <2>3. CASE Head(call.todo).file = "driver_name"
    <3>1. Follow(n, Head(call.todo)) \in
            {ByKind(Dev(Class, n).kind), SetMode(call.op, Dev(Class, n).kind)}
          /\ (call.op = "read" => Follow(n, Head(call.todo)) = ByKind(Dev(Class, n).kind))
      BY <2>3, Zenon DEF Follow
    <3> QED
      BY <2>1, <2>2, <3>1, SensorAccessesAre
  <2>4. CASE Head(call.todo).file = "mode"
    <3>1. "mode" # "driver_name"
      OBVIOUS
    <3>2. Follow(n, Head(call.todo)) = ByMode(Dev(Class, n).attr.mode)
      BY <2>4, <3>1, Zenon DEF Follow
    <3> QED
      BY <2>1, <3>2, SensorAccessesAre
  <2>5. CASE Head(call.todo).file \notin {"driver_name", "mode"}
    <3>1. Follow(n, Head(call.todo)) = Tail(call.todo)
      BY <2>5, Zenon DEF Follow
    <3> QED
      BY <1>0, <3>1
  <2> QED
    BY <2>3, <2>4, <2>5
<1> QED
  BY <1>2, <1>3, ClassIs DEF Classes

\* An access changes what is in the files of the device that is open, at most,
\* and fails for want of a device only when it has gone.
LEMMA ActDoes ==
  ASSUME PortsOK, Act
  PROVE  /\ doing' \in {"act", "idle"} /\ call' \in Calls' /\ SameCall
         /\ doing' = "act" => call'.todo # << >>
         /\ doing' = "idle" => /\ call'.result \in {"ok", "argument", "gone"}
                               /\ call'.result = "gone" => ~Attached(Class, call.fd)
         /\ DevicesOK' /\ Kept /\ \A n : Attached(Class, n)' = Attached(Class, n)
         /\ AllOf(Class)' = AllOf(Class)
<1> DEFINE access == Head(call.todo)
           n == call.fd
<1>0. /\ doing = "act" /\ UNCHANGED <<found, selected_motor, left, use>>
      /\ \/ access = Wrong /\ Ends("argument") /\ UNCHANGED devs
         \/ access # Wrong /\ ~Attached(Class, n) /\ Ends("gone") /\ UNCHANGED devs
         \/ /\ access.does = "read" /\ Attached(Class, n)
            /\ Continue(Follow(n, access)) /\ UNCHANGED devs
         \/ /\ access.does = "write" /\ Attached(Class, n)
            /\ IF Refused(access) THEN GivesUp(call.todo) /\ UNCHANGED devs
               ELSE Written(n, access) /\ Continue(Tail(call.todo))
  BY DEF Act
<1>1. /\ call \in Calls /\ access \in Access(Files) /\ Tail(call.todo) \in Seq(Access(Files))
      /\ Class \in Classes /\ UNCHANGED use /\ n \in AllOf(Class) /\ n \in Int
  BY <1>0, CallIs, ClassIs DEF PortsOK, CallOK, Calls
<1> HIDE DEF access, n
<1>2. UNCHANGED devs =>
        /\ DevicesOK' /\ Kept /\ AllOf(Class)' = AllOf(Class)
        /\ \A m : Attached(Class, m)' = Attached(Class, m)
  BY <1>1 DEF PortsOK, DevicesOK, Device, Kept, AllOf, Attached, Dev, Class
<1>3. CASE Ends("argument") /\ UNCHANGED devs
  BY <1>1, <1>2, <1>3, EndsCall DEF Results
<1>4. CASE ~Attached(Class, n) /\ Ends("gone") /\ UNCHANGED devs
  BY <1>1, <1>2, <1>4, EndsCall DEF Results, n
<1>5. CASE access.does = "read" /\ Continue(Follow(n, access)) /\ UNCHANGED devs
  <2>1. Follow(n, access) \in Seq(Access(Files))
    BY <1>0, <1>5, FollowIs DEF access
  <2> QED
    BY <1>1, <1>2, <1>5, <2>1, ContinuesCall
<1>6. CASE access.does = "write" /\ Written(n, access) /\ Continue(Tail(call.todo))
  <2>1. PICK attr \in [AttrFiles -> Values] :
          Changed(Class, n, [Dev(Class, n) EXCEPT !.attr = attr])
    BY <1>1, <1>6, WriteChanges
  <2>2. DevicesOK' /\ Kept
    BY <1>1, <1>6, WriteChanges
  <2>3. Dev(Class, n) \in Device /\ Class' = Class
    BY <1>1, DeviceIs DEF PortsOK, Class
  <2>4. [Dev(Class, n) EXCEPT !.attr = attr].here = Dev(Class, n).here
    BY <2>3 DEF Device
  <2>5. AllOf(Class)' = AllOf(Class) /\ \A m : Attached(Class, m)' = Attached(Class, m)
    BY <1>1, <2>1, <2>3, <2>4 DEF Changed, Attached, AllOf, Dev
  <2> QED
    BY <1>1, <1>6, <2>2, <2>5, ContinuesCall
<1> QED
  BY <1>0, <1>3, <1>4, <1>5, <1>6 DEF GivesUp

----------------------------------------------------------------------------
(***************************************************************************)
(* Types are kept                                                          *)
(***************************************************************************)
LEMMA NumberIs == PortsOK => NumberAt(call.port) \in Int \/ doing = "idle"
<1> SUFFICES ASSUME PortsOK, doing # "idle" PROVE NumberAt(call.port) \in Int
  OBVIOUS
<1>1. call.port \in Ports[Class] /\ Class \in Classes
  BY CallIs, ClassIs
<1>2. CASE Class = "motor"
  <2>1. call.port \in MotorPorts
    BY <1>1, <1>2 DEF Ports
  <2> QED
    BY <1>2, <2>1 DEF PortsOK, FoundOK, NumberAt, MotorAt
<1>3. CASE Class = "sensor"
  <2>1. call.port \in SensorPorts
    BY <1>1, <1>3 DEF Ports
  <2> QED
    BY <1>3, <2>1 DEF PortsOK, FoundOK, NumberAt, SensorAt
<1> QED
  BY <1>1, <1>2, <1>3 DEF Classes

\* The types, put together
LEMMA FoundStays ==
  ASSUME PortsOK, UNCHANGED <<found, use>>
  PROVE  FoundOK'
BY DEF PortsOK, FoundOK, found

LEMMA CallStays ==
  ASSUME PortsOK, UNCHANGED use, call' \in Calls',
         doing' \in {"idle", "open", "list", "entry", "act"},
         doing' # "idle" => call'.port \in Ports[Class] /\ call'.todo # << >>,
         doing' \in {"entry", "act"} => call'.fd \in AllOf(Class)'
  PROVE  CallOK'
BY DEF CallOK, Class, Ports

LEMMA TypesStay ==
  ASSUME PortsOK, UNCHANGED use, DevicesOK', FoundOK', CallOK', left' \subseteq AllOf(Class)',
         selected_motor' \in MotorPorts \cup {None}
  PROVE  PortsOK'
BY DEF PortsOK, Class

\* What is there is left to be read.
LEMMA UnchangedDevices ==
  ASSUME PortsOK, UNCHANGED <<devs, use>>
  PROVE  /\ DevicesOK' /\ Kept /\ Class' = Class
         /\ \A c \in Classes : AllOf(c)' = AllOf(c)
         /\ \A c : \A n : Attached(c, n)' = Attached(c, n)
BY DEF PortsOK, DevicesOK, Device, Kept, AllOf, Attached, Dev, Class

LEMMA CalledIs ==
  ASSUME PortsOK, doing = "idle", NEW op \in use.ops \ {None}, NEW port \in Ports[Class],
         NEW arg \in Int, NEW todo \in Accesses(Files), Called(op, port, arg, todo)
  PROVE  /\ doing' = "open" /\ call' \in Calls' /\ call'.op = op /\ call'.port = port
         /\ call'.arg = arg /\ call'.todo = todo /\ call'.again = FALSE
         /\ UNCHANGED <<devs, found, selected_motor, left, use>>
         /\ call'.steady # -1 => call'.steady \in At(port)
         /\ ~call'.disturbed => \A n \in Present : IsSupported(n)
<1> DEFINE steady == IF At(port) = {} THEN -1 ELSE CHOOSE n \in At(port) : TRUE
<1>1. steady \in Int /\ (steady # -1 => steady \in At(port))
  <2>1. At(port) \subseteq Int
    BY DEF At, Present, AllOf
  <2> QED
    BY <2>1
<1>2. port \in MotorPorts \cup SensorPorts /\ todo \in Seq(Access(Files))
  BY ClassIs DEF Classes, Ports, Accesses
<1>3. None \in Values /\ None \in Results
  BY WordsAndNumbers DEF Words, None, Results
<1> HIDE DEF steady
<1>4. call' = [op |-> op, port |-> port, arg |-> arg, todo |-> todo, fd |-> -1, before |-> None,
               again |-> FALSE, result |-> None, steady |-> steady,
               disturbed |-> \E n \in Present : ~IsSupported(n)]
  BY DEF Called, steady
<1>5. call' \in Calls
  BY <1>1, <1>2, <1>3, <1>4 DEF Calls
<1>6. Calls' = Calls
  BY DEF Called, Calls, Files, Class
<1> QED
  BY <1>1, <1>4, <1>5, <1>6 DEF Called

\* A builtin is called for a port of its class, with something to do.
LEMMA CallDoes ==
  ASSUME PortsOK, CallMotor \/ CallSensor
  PROVE  \E op \in use.ops \ {None}, port \in Ports[Class], arg \in Int, todo \in Accesses(Files) :
           /\ doing = "idle" /\ Called(op, port, arg, todo)
           /\ op \in Timed => /\ Class = "motor"
                              /\ todo = Commands(arg)[op] \/ todo = <<Wrong>>
<1>1. CASE CallMotor
  <2>0. PICK op \in use.ops \ {"talkto"} :
          \E p \in IF op = "read" THEN MotorPorts ELSE {selected_motor} \ {None},
             arg \in IF op \in Timed THEN Durations ELSE {0} :
            \/ \E table \in MotorAccesses(arg) : op \in DOMAIN table /\ Called(op, p, arg, table[op])
            \/ op \in TakeNumber /\ Called(op, p, arg, <<Wrong>>)
    BY <1>1 DEF CallMotor
  <2>1. PICK p \in IF op = "read" THEN MotorPorts ELSE {selected_motor} \ {None},
             arg \in IF op \in Timed THEN Durations ELSE {0} :
          \/ \E table \in MotorAccesses(arg) : op \in DOMAIN table /\ Called(op, p, arg, table[op])
          \/ op \in TakeNumber /\ Called(op, p, arg, <<Wrong>>)
    BY <2>0
  <2>2. /\ doing = "idle" /\ Class = "motor" /\ p \in Ports[Class] /\ Files = MotorFiles
        /\ arg \in Int
    BY <1>1, PortsAssumption DEF CallMotor, PortsOK, Ports, Files
  <2>3. CASE op \in TakeNumber /\ Called(op, p, arg, <<Wrong>>)
    <3>1. op # None
      BY <2>3 DEF TakeNumber, Timed, None
    <3> QED
      BY <2>2, <2>3, <3>1, WrongIs
  <2>4. ASSUME NEW table \in MotorAccesses(arg), op \in DOMAIN table, Called(op, p, arg, table[op])
        PROVE  \E todo \in Accesses(Files) :
                 op # None /\ Called(op, p, arg, todo) /\ (op \in Timed => todo = Commands(arg)[op])
    <3>1. table[op] \in Accesses(Files) /\ op # None
      BY <2>2, <2>4, MotorAccessesAre
    <3>2. op \in Timed => table = Commands(arg)
      BY <2>4 DEF MotorAccesses, Timed, Settings, Position, Speed, StopActions, Ramps
    <3> QED
      BY <2>4, <3>1, <3>2
  <2> QED
    BY <2>1, <2>2, <2>3, <2>4
<1>2. CASE CallSensor
  <2>1. PICK op \in use.ops, p \in SensorPorts : Called(op, p, 0, SensorAccesses)
    BY <1>2 DEF CallSensor
  <2>2. /\ doing = "idle" /\ Class = "sensor" /\ p \in Ports[Class] /\ Files = SensorFiles
    BY <1>2 DEF CallSensor, PortsOK, Ports, Files
  <2>3. op # None /\ op \notin Timed
    BY <2>2, UsesAssumption DEF PortsOK, Class, Modes, None, Timed
  <2> QED
    BY <2>1, <2>2, <2>3, SensorAccessesAre
<1> QED
  BY <1>1, <1>2

\* Two things are noted of a call when a plug comes or goes: that its device has
\* gone, and what disturbs the search.
LEMMA NotesOfPlugs ==
  ASSUME Plug \/ Unplug, doing # "idle", call \in Calls
  PROVE  \E s \in {call.steady, -1}, d \in BOOLEAN :
           /\ call' = [call EXCEPT !.steady = s, !.disturbed = d]
           /\ call.disturbed => d
<1>1. CASE Plug
  <2>1. PICK kind \in use.kinds : call' = [call EXCEPT !.disturbed = @ \/ ~Known(kind)]
    BY <1>1 DEF Plug
  <2>2. /\ (call.disturbed \/ ~Known(kind)) \in BOOLEAN
        /\ call' = [call EXCEPT !.steady = call.steady, !.disturbed = call.disturbed \/ ~Known(kind)]
    BY <2>1 DEF Calls
  <2> QED
    BY <2>2
<1>2. CASE Unplug
  <2>1. PICK n \in Present :
          call' = [call EXCEPT !.steady = IF n = @ THEN -1 ELSE @,
                               !.disturbed = @ \/ (doing = "entry" /\ n = call.fd)]
    BY <1>2 DEF Unplug
  <2> QED
    BY <2>1 DEF Calls
<1> QED
  BY <1>1, <1>2

\* What a step does to the call, the directories and what was found, action by
\* action, and that it keeps their types
LEMMA PlugKeeps ==
  ASSUME PortsOK, Plug \/ Unplug
  PROVE  PortsOK' /\ Kept
<1>1. UNCHANGED <<found, selected_motor, doing, use>> /\ Class' = Class /\ Calls' = Calls
  BY DEF Plug, Unplug, Class, Calls, Files
<1>2. /\ DevicesOK' /\ Kept /\ \A n \in AllOf(Class) : n \in AllOf(Class)'
      /\ left' \subseteq AllOf(Class)'
  <2>1. CASE Plug
    <3>1. left' = left \/ left' = left \cup {Len(devs[Class])}
      BY <2>1 DEF Plug
    <3> QED
      BY <2>1, <3>1, PlugChanges DEF PortsOK
  <2>2. CASE Unplug
    <3>1. PICK n \in Present :
            /\ devs' = [devs EXCEPT ![Class][n + 1].here = FALSE, ![Class][n + 1].attr = NewAttr]
            /\ left' = left
      BY <2>2 DEF Unplug
    <3>2. /\ DevicesOK' /\ Kept
          /\ Changed(Class, n, [Dev(Class, n) EXCEPT !.here = FALSE, !.attr = NewAttr])
      BY <1>1, <3>1, UnplugChanges
    <3>3. AllOf(Class)' = AllOf(Class)
      BY <1>1, <3>2, ClassIs DEF Changed, AllOf
    <3> QED
      BY <3>1, <3>2, <3>3 DEF PortsOK
  <2> QED
    BY <2>1, <2>2
<1>3. CallOK'
  <2>1. CASE call' = call
    BY <1>1, <1>2, <2>1 DEF PortsOK, CallOK
  <2>2. CASE doing # "idle"
    <3>1. call \in Calls
      BY <2>2, CallIs
    <3>2. PICK s \in {call.steady, -1}, d \in BOOLEAN :
            call' = [call EXCEPT !.steady = s, !.disturbed = d]
      BY <2>2, <3>1, NotesOfPlugs
    <3>3. s \in Int
      BY <3>1, <3>2 DEF Calls
    <3>4. call' \in Calls /\ call'.port = call.port /\ call'.todo = call.todo /\ call'.fd = call.fd
      BY <3>1, <3>2, <3>3 DEF Calls
    <3> QED
      BY <1>1, <1>2, <2>2, <3>4, CallIs, CallStays DEF PortsOK, CallOK
  <2> QED
    BY <2>1, <2>2 DEF Plug, Unplug
<1> QED
  BY <1>1, <1>2, <1>3, FoundStays, TypesStay DEF PortsOK

LEMMA CallKeeps ==
  ASSUME PortsOK, CallMotor \/ CallSensor
  PROVE  PortsOK' /\ Kept
<1>1. PICK op \in use.ops \ {None}, port \in Ports[Class], arg \in Int, todo \in Accesses(Files) :
        doing = "idle" /\ Called(op, port, arg, todo)
  BY CallDoes
<1>2. /\ doing' = "open" /\ call' \in Calls' /\ call'.port = port /\ call'.todo = todo
      /\ UNCHANGED <<devs, found, selected_motor, left, use>>
  BY <1>1, CalledIs
<1>3. CallOK'
  BY <1>1, <1>2, CallStays DEF Accesses
<1>4. DevicesOK' /\ Kept /\ AllOf(Class)' = AllOf(Class)
  BY <1>2, ClassIs, UnchangedDevices
<1> QED
  BY <1>2, <1>3, <1>4, FoundStays, TypesStay DEF PortsOK

LEMMA ActKeeps ==
  ASSUME PortsOK, Act
  PROVE  PortsOK' /\ Kept
<1>1. UNCHANGED <<found, selected_motor, left, use>> /\ doing = "act"
  BY DEF Act
<1>2. /\ doing' \in {"act", "idle"} /\ call' \in Calls' /\ SameCall
      /\ doing' = "act" => call'.todo # << >>
      /\ DevicesOK' /\ Kept /\ AllOf(Class)' = AllOf(Class)
  BY ActDoes
<1>3. call.port \in Ports[Class] /\ call.fd \in AllOf(Class)
  BY <1>1 DEF PortsOK, CallOK
<1>4. CallOK'
  BY <1>1, <1>2, <1>3, CallStays DEF SameCall
<1> QED
  BY <1>1, <1>2, <1>4, FoundStays, TypesStay DEF PortsOK

\* Neither the kernel nor an access to a device's files
Looking == TalkTo \/ Open \/ Discover \/ NotAttached \/ List \/ Entry

LEMMA LookingKeeps ==
  ASSUME PortsOK, Looking
  PROVE  PortsOK' /\ Kept
<1>1. UNCHANGED <<devs, use>>
  BY DEF Looking, TalkTo, Open, Discover, NotAttached, List, Entry
<1>2. Class' = Class /\ Calls' = Calls /\ Class \in Classes
  BY <1>1, ClassIs DEF Class, Calls, Files
<1>3. DevicesOK' /\ Kept /\ AllOf(Class)' = AllOf(Class)
  BY <1>1, <1>2, UnchangedDevices
<1> USE <1>1, <1>2, <1>3
<1>4. CASE TalkTo
  <2>1. selected_motor' \in MotorPorts /\ UNCHANGED <<found, doing, call, left>>
    BY <1>4 DEF TalkTo
  <2>2. CallOK'
    BY <2>1 DEF PortsOK, CallOK
  <2> QED
    BY <2>1, <2>2, FoundStays, TypesStay DEF PortsOK
<1>5. CASE Open
  <2>1. /\ NumberAt(call.port) \in AllOf(Class) /\ doing = "open" /\ doing' = "act"
        /\ UNCHANGED <<found, selected_motor, left>>
    BY <1>5 DEF Open, Attached
  <2>2. NumberAt(call.port) \in Int /\ Dev(Class, NumberAt(call.port)).attr.command \in Values
    BY <2>1, NumberIs, DeviceIs DEF PortsOK, Device, AttrFiles
  <2>3. /\ call' \in Calls /\ call'.port = call.port /\ call'.todo = call.todo
        /\ call'.fd = NumberAt(call.port)
    BY <1>5, <2>1, <2>2, CallIs DEF Open, Calls
  <2>4. CallOK'
    BY <2>1, <2>3, CallIs, CallStays
  <2> QED
    BY <2>1, <2>4, FoundStays, TypesStay DEF PortsOK
<1>6. CASE Discover
  <2>1. /\ call' \in Calls /\ call'.port = call.port /\ call'.todo = call.todo
        /\ doing = "open" /\ doing' = "list" /\ left' \subseteq AllOf(Class)
        /\ UNCHANGED selected_motor
    BY <1>6, CallIs DEF Discover, Calls, Present
  <2>2. FoundOK'
    BY <1>6 DEF Discover, ForgetMotors, ForgetSensors, PortsOK, FoundOK
  <2>3. CallOK'
    BY <2>1, CallIs, CallStays
  <2> QED
    BY <2>1, <2>2, <2>3, TypesStay DEF PortsOK
<1>7. CASE NotAttached
  <2>1. Ends("no device") /\ doing = "open" /\ UNCHANGED <<found, selected_motor, left>>
    BY <1>7 DEF NotAttached
  <2>2. call' \in Calls' /\ doing' = "idle"
    BY <2>1, EndsCall, CallIs DEF Results
  <2>3. CallOK'
    BY <2>2, CallStays
  <2> QED
    BY <2>1, <2>3, FoundStays, TypesStay DEF PortsOK
<1>8. CASE List
  <2>1. UNCHANGED <<found, selected_motor>> /\ left' \subseteq AllOf(Class) /\ doing = "list"
    BY <1>8 DEF List, PortsOK, PassesOver
  <2>2. CallOK'
    <3>1. CASE call' = call /\ doing' \in {"open", "list"}
      BY <2>1, <3>1, CallIs, CallStays
    <3>2. ASSUME NEW n \in left, doing' = "entry", call' = [call EXCEPT !.fd = n] PROVE CallOK'
      <4>1. n \in AllOf(Class) /\ n \in Int
        BY DEF PortsOK, AllOf
      <4>2. call' \in Calls /\ call'.port = call.port /\ call'.todo = call.todo /\ call'.fd = n
        BY <2>1, <3>2, <4>1, CallIs DEF Calls
      <4> QED
        BY <2>1, <3>2, <4>1, <4>2, CallIs, CallStays
    <3> QED
      BY <1>8, <3>1, <3>2 DEF List, PassesOver
  <2> QED
    BY <2>1, <2>2, FoundStays, TypesStay DEF PortsOK
<1>9. CASE Entry
  <2>1. UNCHANGED <<selected_motor, left>> /\ doing = "entry" /\ call.fd \in AllOf(Class)
    BY <1>9 DEF Entry, PortsOK, CallOK
  <2>2. CASE Ends("search") /\ UNCHANGED found
    <3>1. call' \in Calls' /\ doing' = "idle"
      BY <2>1, <2>2, EndsCall, CallIs DEF Results
    <3>2. CallOK'
      BY <3>1, CallStays
    <3> QED
      BY <2>1, <2>2, <3>2, FoundStays, TypesStay DEF PortsOK
  <2>3. CASE (NotedMotor(call.fd) \/ NotedSensor(call.fd)) /\ doing' = "list" /\ call' = call
    <3>1. call.fd \in Nat /\ Dev(Class, call.fd) \in Device
      BY <2>1, DeviceIs DEF PortsOK
    <3>2. Dev(Class, call.fd).kind \in use.kinds
      BY <3>1 DEF Device
    <3>3. FoundOK'
      BY <2>3, <3>1, <3>2 DEF NotedMotor, NotedSensor, PortsOK, FoundOK
    <3>4. CallOK'
      BY <2>1, <2>3, CallIs, CallStays
    <3> QED
      BY <2>1, <3>3, <3>4, TypesStay DEF PortsOK
  <2> QED
    BY <1>9, <2>2, <2>3 DEF Entry
<1> QED
  BY <1>4, <1>5, <1>6, <1>7, <1>8, <1>9 DEF Looking

\* Devices keep their number, and a call has something to do to one that it knows.
THEOREM PortsCorrect == PortsSpec => []PortsOK
<1>1. PortsInit => PortsOK
  <2> SUFFICES ASSUME PortsInit PROVE PortsOK
    OBVIOUS
  <2>1. DevicesOK /\ left = {} /\ use \in Uses
    BY DEF PortsInit, DevicesOK, Classes
  <2>2. FoundOK /\ CallOK
    BY DEF PortsInit, FoundOK, CallOK
  <2> QED
    BY <2>1, <2>2 DEF PortsOK, PortsInit
<1>2. PortsOK /\ [PortsNext]_portVars => PortsOK'
  <2> SUFFICES ASSUME PortsOK, [PortsNext]_portVars PROVE PortsOK'
    OBVIOUS
  <2>1. CASE UNCHANGED portVars
    <3>1. UNCHANGED <<devs, found, selected_motor, doing, call, left, use>>
      BY <2>1 DEF portVars
    <3>2. DevicesOK' /\ Class' = Class /\ Calls' = Calls /\ AllOf(Class)' = AllOf(Class)
      BY <3>1, ClassIs, UnchangedDevices DEF Class, Calls, Files
    <3>3. CallOK'
      BY <3>1, <3>2 DEF PortsOK, CallOK
    <3> QED
      BY <3>1, <3>2, <3>3, FoundStays, TypesStay DEF PortsOK
  <2> QED
    BY <2>1, PlugKeeps, CallKeeps, ActKeeps, LookingKeeps DEF PortsNext, Looking
<1> QED
  BY <1>1, <1>2, PTL DEF PortsSpec

----------------------------------------------------------------------------
(***************************************************************************)
(* The device at the port                                                  *)
(***************************************************************************)
\* What is remembered of a port was there, with that kind, and the number has
\* not been given again.
Remembered ==
  /\ \A p \in MotorPorts :
       motors[p] # 0 => motors[p] \in AllOf("motor") /\ Dev("motor", motors[p]).port = p
  /\ \A p \in SensorPorts :
       sensor_kind[p] # None =>
         /\ sensor_num[p] \in AllOf("sensor") /\ Dev("sensor", sensor_num[p]).port = p
         /\ Dev("sensor", sensor_num[p]).kind = sensor_kind[p]

Opened ==
  doing = "act" => Dev(Class, call.fd).port = call.port \/ (Class = "motor" /\ call.fd = 0)

PortsIInv == PortsOK /\ Remembered /\ Opened

LEMMA StepKeeps ==
  ASSUME PortsOK, PortsNext
  PROVE  PortsOK' /\ Kept /\ UNCHANGED use
<1>1. PortsOK' /\ Kept
  BY PlugKeeps, CallKeeps, ActKeeps, LookingKeeps DEF PortsNext, Looking
<1>2. CallMotor \/ CallSensor => UNCHANGED use
  BY CallDoes DEF Called
<1>3. Plug \/ Unplug => UNCHANGED use
  BY DEF Plug, Unplug
<1>4. Looking => UNCHANGED use
  BY DEF Looking, TalkTo, Open, Discover, NotAttached, List, Entry
<1>5. Act => UNCHANGED use
  BY DEF Act
<1> QED
  BY <1>1, <1>2, <1>3, <1>4, <1>5 DEF PortsNext, Looking

\* A plug that comes or goes leaves the call alone, but for what is noted of it.
LEMMA PlugNotes ==
  ASSUME PortsOK, Plug \/ Unplug
  PROVE  /\ UNCHANGED <<found, doing, use>>
         /\ doing = "idle" => call' = call
         /\ doing # "idle" =>
              /\ call'.op = call.op /\ call'.port = call.port /\ call'.arg = call.arg
              /\ call'.todo = call.todo /\ call'.fd = call.fd /\ call'.before = call.before
              /\ call'.again = call.again /\ call'.result = call.result
              /\ call'.steady \in {call.steady, -1}
              /\ call.disturbed => call'.disturbed
<1>1. UNCHANGED <<found, doing, use>>
  BY DEF Plug, Unplug
<1>2. doing = "idle" => call' = call
  BY DEF Plug, Unplug
<1>3. ASSUME doing # "idle"
      PROVE  /\ call \in Calls
             /\ \E s \in {call.steady, -1}, d \in BOOLEAN :
                  /\ call' = [call EXCEPT !.steady = s, !.disturbed = d]
                  /\ call.disturbed => d
  BY <1>3, CallIs, NotesOfPlugs
<1> QED
  BY <1>1, <1>2, <1>3, CallIs DEF Calls

LEMMA RememberedStays ==
  ASSUME PortsOK, Remembered, PortsNext
  PROVE  Remembered'
<1>1. Kept /\ UNCHANGED use
  BY StepKeeps
<1>2. CASE UNCHANGED found
  BY <1>1, <1>2 DEF Remembered, Kept, Classes, found
<1>3. CASE Discover
  <2>1. CASE ForgetMotors
    BY <1>1, <2>1 DEF ForgetMotors, Remembered, Kept, Classes
  <2>2. CASE ForgetSensors
    BY <1>1, <2>2 DEF ForgetSensors, Remembered, Kept, Classes
  <2> QED
    BY <1>3, <2>1, <2>2 DEF Discover
<1>4. CASE Entry /\ NotedMotor(call.fd)
  <2>1. /\ call.fd \in AllOf("motor") /\ Class = "motor"
        /\ \A p \in MotorPorts : motors'[p] = IF p = Dev("motor", call.fd).port THEN call.fd ELSE motors[p]
        /\ UNCHANGED <<sensor_kind, sensor_num>>
    BY <1>4 DEF Entry, NotedMotor, PortsOK, CallOK, FoundOK
  <2> QED
    BY <1>1, <2>1 DEF Remembered, Kept, Classes
<1>5. CASE Entry /\ NotedSensor(call.fd)
  <2>1. /\ call.fd \in AllOf("sensor") /\ Class = "sensor"
        /\ \A p \in SensorPorts :
             /\ sensor_num'[p] = IF p = Dev("sensor", call.fd).port THEN call.fd ELSE sensor_num[p]
             /\ sensor_kind'[p] = IF p = Dev("sensor", call.fd).port THEN Dev("sensor", call.fd).kind
                                  ELSE sensor_kind[p]
        /\ UNCHANGED motors
    BY <1>5 DEF Entry, NotedSensor, PortsOK, CallOK, FoundOK
  <2> QED
    BY <1>1, <2>1 DEF Remembered, Kept, Classes
<1>6. CASE ~Discover /\ ~Entry
  <2>1. CASE CallMotor \/ CallSensor
    BY <1>2, <2>1, CallDoes DEF Called
  <2>2. CASE ~(CallMotor \/ CallSensor)
    BY <1>2, <1>6, <2>2 DEF PortsNext, Plug, Unplug, TalkTo, Open, NotAttached, List, Act
  <2> QED
    BY <2>1, <2>2
<1> QED
  BY <1>2, <1>3, <1>4, <1>5, <1>6 DEF Entry

LEMMA OpenedStays ==
  ASSUME PortsIInv, PortsNext
  PROVE  Opened'
<1>1. PortsOK /\ Remembered /\ Opened /\ Kept /\ UNCHANGED use /\ Class' = Class /\ Class \in Classes
  BY StepKeeps, ClassIs DEF PortsIInv, Class
<1>2. CASE Open
  <2>1. /\ Attached(Class, NumberAt(call.port)) /\ call'.fd = NumberAt(call.port)
        /\ call'.port = call.port /\ call.port \in Ports[Class] /\ doing' = "act" /\ UNCHANGED devs
        /\ NumberAt(call.port) \in AllOf(Class)
    BY <1>1, <1>2, CallIs DEF Open, Calls, Attached
  <2>2. Dev(Class, NumberAt(call.port)).port = call.port \/ (Class = "motor" /\ NumberAt(call.port) = 0)
    <3>1. CASE Class = "motor"
      BY <1>1, <2>1, <3>1 DEF Remembered, NumberAt, MotorAt, Ports
    <3>2. CASE Class = "sensor"
      <4>1. -1 \notin AllOf(Class)
        BY DEF AllOf
      <4> QED
        BY <1>1, <2>1, <3>2, <4>1 DEF Remembered, NumberAt, SensorAt, Ports
    <3> QED
      BY <1>1, <3>1, <3>2 DEF Classes
  <2>3. PICK n \in AllOf(Class) : n = NumberAt(call.port)
    BY <2>1
  <2>4. Dev(Class, n)'.port = Dev(Class, n).port
    BY <1>1, <2>3 DEF Kept
  <2> QED
    BY <1>1, <2>1, <2>2, <2>3, <2>4 DEF Opened, Dev
<1>3. ASSUME doing = "act", call'.fd = call.fd, call'.port = call.port
      PROVE  Opened'
  <2>1. call.fd \in AllOf(Class)
    BY <1>1, <1>3 DEF PortsOK, CallOK
  <2>2. PICK n \in AllOf(Class) : n = call.fd
    BY <2>1
  <2>3. Dev(Class, n)'.port = Dev(Class, n).port
    BY <1>1, <2>2 DEF Kept
  <2> QED
    BY <1>1, <1>3, <2>2, <2>3 DEF Opened, Dev
<1>4. CASE Act
  BY <1>1, <1>3, <1>4, ActDoes DEF Act, SameCall
<1>5. CASE Plug \/ Unplug
  <2>1. CASE doing = "act"
    BY <1>1, <1>3, <1>5, <2>1, PlugNotes
  <2>2. CASE doing # "act"
    BY <1>1, <1>5, <2>2, PlugNotes DEF Opened
  <2> QED
    BY <2>1, <2>2
<1>6. CASE CallMotor \/ CallSensor
  BY <1>1, <1>6, CallDoes DEF Called, Opened
<1>7. CASE TalkTo \/ Discover \/ NotAttached \/ List \/ Entry
  <2>1. doing' # "act"
    BY <1>7 DEF TalkTo, Discover, NotAttached, Ends, List, PassesOver, Entry
  <2> QED
    BY <2>1 DEF Opened
<1> QED
  BY <1>2, <1>4, <1>5, <1>6, <1>7 DEF PortsNext

LEMMA PortsIInvHolds == PortsSpec => []PortsIInv
<1>1. PortsInit => Remembered /\ Opened
  BY DEF PortsInit, Remembered, Opened
<1>2. ASSUME PortsIInv, [PortsNext]_portVars PROVE Remembered' /\ Opened'
  <2>1. CASE UNCHANGED portVars
    <3>1. UNCHANGED <<devs, found, selected_motor, doing, call, left, use>>
      BY <2>1 DEF portVars
    <3>2. PortsOK /\ Kept /\ Class' = Class /\ \A c, n : Dev(c, n)' = Dev(c, n)
      BY <1>2, <3>1, UnchangedDevices DEF PortsIInv, Dev
    <3> QED
      BY <1>2, <3>1, <3>2 DEF PortsIInv, Remembered, Opened, Kept, Classes, found, Dev
  <2> QED
    BY <1>2, <2>1, RememberedStays, OpenedStays DEF PortsIInv
<1> QED
  BY <1>1, <1>2, PortsCorrect, PTL DEF PortsSpec, PortsIInv

\* What a builtin reads and writes is the device at the port it was called for,
\* and the kind remembered of a sensor is its kind, wherever plugs go.
THEOREM RightPortHolds == PortsSpec => []RightPort
<1>1. PortsIInv => RightPort
  BY DEF PortsIInv, Remembered, Opened, RightPort
<1> QED
  BY <1>1, PortsIInvHolds, PTL

----------------------------------------------------------------------------
(***************************************************************************)
(* What stays plugged in is found                                          *)
(***************************************************************************)
\* There is one plug in a port.
Alone ==
  \A m, n \in AllOf(Class) :
    Attached(Class, m) /\ Attached(Class, n) /\ Dev(Class, m).port = Dev(Class, n).port => m = n

\* What was at the port is still there, and has not been looked for in vain: it
\* is remembered, is still to be looked at, or is being looked at.
StillThere ==
  /\ Attached(Class, call.steady) /\ Dev(Class, call.steady).port = call.port
  /\ doing \in {"list", "entry"} => call.again
  /\ doing # "act" /\ call.again =>
       \/ NumberAt(call.port) = call.steady
       \/ doing # "open" /\ call.steady \in left
       \/ doing = "entry" /\ call.fd = call.steady
  /\ doing = "act" => call.fd = call.steady \/ (Class = "motor" /\ call.fd = 0)

Undisturbed ==
  ~call.disturbed =>
    /\ \A n \in AllOf(Class) : Attached(Class, n) => IsSupported(n)
    /\ doing = "entry" => Attached(Class, call.fd)

Searching == doing # "idle" /\ call.steady # -1 => StillThere /\ Undisturbed

FindsIInv == PortsIInv /\ Alone /\ Searching /\ Finds

\* What is not of the kernel leaves the plugs where they are.
Builtin == CallMotor \/ CallSensor \/ Looking \/ Act

LEMMA PlugsStay ==
  ASSUME PortsOK, Builtin
  PROVE  /\ Kept /\ UNCHANGED use /\ Class' = Class /\ AllOf(Class)' = AllOf(Class)
         /\ \A n : Attached(Class, n)' = Attached(Class, n)
<1>1. Kept /\ UNCHANGED use /\ Class' = Class /\ Class \in Classes
  BY StepKeeps, ClassIs DEF Class, Builtin, Looking, PortsNext
<1>2. Act => AllOf(Class)' = AllOf(Class) /\ \A n : Attached(Class, n)' = Attached(Class, n)
  BY ActDoes
<1>3. CallMotor \/ CallSensor => UNCHANGED devs
  BY CallDoes DEF Called
<1>4. Looking => UNCHANGED devs
  BY DEF Looking, TalkTo, Open, Discover, NotAttached, List, Entry
<1> QED
  BY <1>1, <1>2, <1>3, <1>4, UnchangedDevices DEF Builtin

LEMMA AloneStays ==
  ASSUME PortsOK, Alone, PortsNext
  PROVE  Alone'
<1>1. Kept /\ UNCHANGED use /\ Class' = Class /\ Class \in Classes
  BY StepKeeps, ClassIs DEF Class
<1>2. CASE Plug
  <2>1. PICK p \in Ports[Class], kind \in use.kinds, new \in Nat :
          /\ At(p) = {} /\ AllOf(Class)' = AllOf(Class) \cup {new} /\ new \notin AllOf(Class)
          /\ Dev(Class, new)' = [port |-> p, kind |-> kind, here |-> TRUE, attr |-> NewAttr]
          /\ \A c \in Classes : \A n \in AllOf(c) : Dev(c, n)' = Dev(c, n)
    BY <1>2, PlugChanges
  <2>2. \A n \in AllOf(Class) : Attached(Class, n) => Dev(Class, n).port # p
    BY <2>1 DEF At, Present
  <2>3. ASSUME NEW n \in AllOf(Class)
        PROVE  /\ Dev(Class, n)'.port = Dev(Class, n).port
               /\ Attached(Class, n)' = Attached(Class, n)
    BY <1>1, <2>1 DEF Attached, Dev
  <2>4. Dev(Class, new)'.port = p
    BY <2>1
  <2> QED
    BY <1>1, <2>1, <2>2, <2>3, <2>4 DEF Alone, Dev
<1>3. CASE Unplug
  <2>1. PICK n \in Present :
          devs' = [devs EXCEPT ![Class][n + 1].here = FALSE, ![Class][n + 1].attr = NewAttr]
    BY <1>3 DEF Unplug
  <2>2. Changed(Class, n, [Dev(Class, n) EXCEPT !.here = FALSE, !.attr = NewAttr])
    BY <1>1, <2>1, UnplugChanges
  <2>3. AllOf(Class)' = AllOf(Class) /\ Dev(Class, n) \in Device
    BY <1>1, <2>1, <2>2, DeviceIs DEF Changed, AllOf, PortsOK, Present
  <2>4. ASSUME NEW m \in AllOf(Class)
        PROVE  /\ Dev(Class, m)'.port = Dev(Class, m).port
               /\ Attached(Class, m)' => Attached(Class, m)
    BY <1>1, <2>2, <2>3 DEF Changed, Attached, Dev, Device
  <2> QED
    BY <1>1, <2>3, <2>4 DEF Alone, Dev
<1>4. CASE Builtin
  BY <1>1, <1>4, PlugsStay DEF Alone, Kept, Dev
<1> QED
  BY <1>2, <1>3, <1>4 DEF PortsNext, Builtin, Looking

\* The device that was at the port stays there until it is noted that it has
\* gone, and so does the one that is looked at, unless that is noted.
LEMMA SteadyStays ==
  ASSUME PortsOK, doing # "idle", Plug \/ Unplug
  PROVE  /\ Attached(Class, call.steady) /\ call'.steady = call.steady
              => Attached(Class, call.steady)'
         /\ doing = "entry" /\ Attached(Class, call.fd) /\ ~call'.disturbed
              => Attached(Class, call.fd)'
<1>1. Kept /\ UNCHANGED use /\ Class' = Class /\ Class \in Classes /\ call \in Calls
  BY StepKeeps, ClassIs, CallIs DEF Class, PortsNext
<1>2. call'.fd = call.fd
  BY PlugNotes
<1>3. CASE Plug
  <2>1. \A n \in AllOf(Class) : Dev(Class, n)' = Dev(Class, n) /\ n \in AllOf(Class)'
    BY <1>1, <1>3, PlugChanges DEF Kept
  <2>2. \A n \in AllOf(Class) : Attached(Class, n) => Attached(Class, n)'
    BY <1>1, <2>1 DEF Attached, Dev
  <2> QED
    BY <1>1, <1>2, <2>2 DEF Attached, Dev
<1>4. CASE Unplug
  <2>1. PICK n \in Present :
          /\ devs' = [devs EXCEPT ![Class][n + 1].here = FALSE, ![Class][n + 1].attr = NewAttr]
          /\ call' = [call EXCEPT !.steady = IF n = @ THEN -1 ELSE @,
                                  !.disturbed = @ \/ (doing = "entry" /\ n = call.fd)]
    BY <1>4 DEF Unplug
  <2>2. Changed(Class, n, [Dev(Class, n) EXCEPT !.here = FALSE, !.attr = NewAttr])
    BY <1>1, <2>1, UnplugChanges
  <2>3. \A m \in AllOf(Class) : m # n => Dev(Class, m)' = Dev(Class, m) /\ m \in AllOf(Class)'
    BY <1>1, <2>2 DEF Changed, Kept
  <2>4. n \in Nat
    BY <1>1, <2>1, ClassIs DEF Present, AllOf
  <2>5. call'.steady = call.steady => call.steady # n
    BY <1>1, <2>1, <2>4 DEF Calls
  <2>6. doing = "entry" /\ ~call'.disturbed => call.fd # n
    BY <1>1, <2>1 DEF Calls
  <2>7. \A m \in AllOf(Class) : m # n /\ Attached(Class, m) => Attached(Class, m)'
    BY <1>1, <2>3 DEF Attached, Dev
  <2> QED
    BY <1>1, <1>2, <2>5, <2>6, <2>7 DEF Attached, Dev
<1> QED
  BY <1>3, <1>4

\* A device of no known kind does not come unnoted.
LEMMA NewIsKnown ==
  ASSUME PortsOK, doing # "idle", Plug \/ Unplug, ~call'.disturbed,
         \A n \in AllOf(Class) : Attached(Class, n) => IsSupported(n)
  PROVE  \A n \in AllOf(Class)' : Attached(Class, n)' => IsSupported(n)'
<1>1. Kept /\ UNCHANGED use /\ Class' = Class /\ Class \in Classes /\ call \in Calls
  BY StepKeeps, ClassIs, CallIs DEF Class, PortsNext
<1>2. \A n \in AllOf(Class) : Dev(Class, n)'.kind = Dev(Class, n).kind
  BY <1>1 DEF Kept
<1>3. CASE Plug
  <2>1. PICK p \in Ports[Class], kind \in use.kinds, new \in Nat :
          /\ AllOf(Class)' = AllOf(Class) \cup {new} /\ new \notin AllOf(Class)
          /\ Dev(Class, new)' = [port |-> p, kind |-> kind, here |-> TRUE, attr |-> NewAttr]
          /\ \A c \in Classes : \A n \in AllOf(c) : Dev(c, n)' = Dev(c, n)
          /\ call' = [call EXCEPT !.disturbed = @ \/ ~Known(kind)]
    BY <1>3, PlugChanges
  <2>2. Known(kind)
    BY <1>1, <2>1 DEF Calls
  <2>3. IsSupported(new)'
    BY <1>1, <2>1, <2>2 DEF IsSupported, Known, Dev
  <2>4. ASSUME NEW n \in AllOf(Class), Attached(Class, n)' PROVE IsSupported(n)'
    BY <1>1, <2>1, <2>4 DEF Attached, IsSupported, Known, Dev
  <2> QED
    BY <1>1, <2>1, <2>3, <2>4
<1>4. CASE Unplug
  <2>1. PICK m \in Present :
          devs' = [devs EXCEPT ![Class][m + 1].here = FALSE, ![Class][m + 1].attr = NewAttr]
    BY <1>4 DEF Unplug
  <2>2. Changed(Class, m, [Dev(Class, m) EXCEPT !.here = FALSE, !.attr = NewAttr])
        /\ AllOf(Class)' = AllOf(Class) /\ Dev(Class, m) \in Device
    BY <1>1, <2>1, UnplugChanges, DeviceIs DEF Changed, AllOf, PortsOK, Present
  <2>3. ASSUME NEW n \in AllOf(Class), Attached(Class, n)' PROVE Attached(Class, n)
    BY <1>1, <2>2, <2>3 DEF Changed, Attached, Dev, Device
  <2> QED
    BY <1>1, <1>2, <2>2, <2>3 DEF IsSupported, Known, Dev
<1> QED
  BY <1>3, <1>4

LEMMA SteadyThere ==
  ASSUME PortsOK, Builtin, Attached(Class, call.steady),
         Dev(Class, call.steady).port = call.port, call'.steady = call.steady, call'.port = call.port
  PROVE  Attached(Class, call.steady)' /\ Dev(Class, call.steady)'.port = call'.port
<1>1. Kept /\ Class' = Class /\ Class \in Classes /\ \A n : Attached(Class, n)' = Attached(Class, n)
  BY PlugsStay, ClassIs
<1> PICK s \in AllOf(Class) : s = call.steady
  BY DEF Attached
<1>2. Attached(Class, s)' /\ Dev(Class, s)'.port = Dev(Class, s).port
  BY <1>1 DEF Kept
<1> QED
  BY <1>1, <1>2 DEF Attached, Dev

LEMMA StaySupported ==
  ASSUME PortsOK, Builtin,
         \A n \in AllOf(Class) : Attached(Class, n) => IsSupported(n)
  PROVE  \A n \in AllOf(Class)' : Attached(Class, n)' => IsSupported(n)'
BY PlugsStay, ClassIs DEF Kept, IsSupported, Known

LEMMA SearchDuringPlug ==
  ASSUME FindsIInv, Plug \/ Unplug
  PROVE  Searching' /\ Finds'
<1>1. PortsOK /\ Kept /\ UNCHANGED <<found, doing, use>> /\ Class' = Class /\ Class \in Classes
  BY StepKeeps, ClassIs, PlugNotes DEF FindsIInv, PortsIInv, PortsNext, Class
<1>2. CASE doing = "idle"
  <2>1. call' = call /\ doing' = doing /\ Finds
    BY <1>1, <1>2, PlugNotes DEF FindsIInv
  <2>2. Searching'
    BY <1>2, <2>1 DEF Searching
  <2>3. Finds'
    BY <2>1 DEF Finds
  <2> QED
    BY <2>2, <2>3
<1>3. CASE doing # "idle"
  <2>1. Finds'
    BY <1>1, <1>3 DEF Finds
  <2>2. /\ call'.port = call.port /\ call'.fd = call.fd /\ call'.again = call.again
        /\ left \subseteq left'
    BY <1>1, <1>3, PlugNotes DEF Plug, Unplug
  <2>3. ASSUME call'.steady # -1 PROVE StillThere' /\ Undisturbed'
    <3>1. call'.steady = call.steady
      BY <1>1, <1>3, <2>3, PlugNotes
    <3>2. StillThere
      BY <1>3, <2>3, <3>1 DEF FindsIInv, Searching
    <3>3. Attached(Class, call.steady)'
      BY <1>1, <1>3, <3>1, <3>2, SteadyStays DEF StillThere
    <3>4. PICK s \in AllOf(Class) : s = call.steady
      BY <3>2 DEF StillThere, Attached
    <3>5. Dev(Class, call.steady)'.port = call'.port
      <4>1. Dev(Class, s)'.port = Dev(Class, s).port
        BY <1>1 DEF Kept
      <4> QED
        BY <1>1, <2>2, <3>1, <3>2, <3>4, <4>1 DEF StillThere, Dev
    <3>6. NumberAt(call.port)' = NumberAt(call.port)
      BY <1>1, <2>2 DEF NumberAt, MotorAt, SensorAt, found
    <3>7. Undisturbed'
      <4>1. Undisturbed /\ (call.disturbed => call'.disturbed)
        BY <1>1, <1>3, <2>3, <3>1, PlugNotes DEF FindsIInv, Searching
      <4> QED
        BY <1>1, <1>3, <2>2, <4>1, NewIsKnown, SteadyStays DEF Undisturbed
    <3> QED
      BY <1>1, <2>2, <3>1, <3>2, <3>3, <3>5, <3>6, <3>7 DEF StillThere
  <2> QED
    BY <2>1, <2>3 DEF Searching
<1> QED
  BY <1>2, <1>3

LEMMA SearchWhenCalled ==
  ASSUME FindsIInv, CallMotor \/ CallSensor
  PROVE  Searching' /\ Finds'
<1>1. PortsOK
  BY DEF FindsIInv, PortsIInv
<1>2. PICK op \in use.ops \ {None}, port \in Ports[Class], arg \in Int, todo \in Accesses(Files) :
        doing = "idle" /\ Called(op, port, arg, todo)
  BY <1>1, CallDoes
<1>3. /\ doing' = "open" /\ call'.port = port /\ call'.again = FALSE
      /\ UNCHANGED <<devs, use>>
      /\ call'.steady # -1 => call'.steady \in At(port)
      /\ ~call'.disturbed => \A n \in Present : IsSupported(n)
  BY <1>1, <1>2, CalledIs
<1>4. Class' = Class /\ \A n : /\ Attached(Class, n)' = Attached(Class, n)
                              /\ Dev(Class, n)' = Dev(Class, n)
                              /\ IsSupported(n)' = IsSupported(n)
  BY <1>3 DEF Class, Attached, AllOf, Dev, IsSupported, Known
<1>5. AllOf(Class)' = AllOf(Class)
  BY <1>1, <1>3, ClassIs, UnchangedDevices
<1>6. call'.steady # -1 => StillThere'
  BY <1>3, <1>4 DEF StillThere, At, Present, Attached, Dev
<1>7. Undisturbed'
  BY <1>3, <1>4, <1>5 DEF Undisturbed, Present
<1> QED
  BY <1>3, <1>6, <1>7 DEF Searching, Finds

\* The directory is read again when nothing is where it was remembered to be.
LEMMA SearchWhenOpen ==
  ASSUME FindsIInv, Open \/ Discover \/ NotAttached
  PROVE  Searching' /\ Finds'
<1>1. /\ PortsOK /\ Builtin /\ PortsNext /\ doing = "open" /\ call \in Calls
      /\ UNCHANGED <<devs, use>>
  <2>1. PortsOK /\ Builtin /\ PortsNext
    BY DEF FindsIInv, PortsIInv, Builtin, Looking, PortsNext
  <2>2. doing = "open" /\ UNCHANGED <<devs, use>>
    BY DEF Open, Discover, NotAttached
  <2> QED
    BY <2>1, <2>2, CallIs
<1>2. Class' = Class /\ Class \in Classes /\ UNCHANGED <<devs, use>>
  BY <1>1, ClassIs DEF Class
<1>3. /\ call'.steady = call.steady /\ call'.port = call.port
      /\ call'.disturbed = call.disturbed
  <2>1. CASE Open
    BY <1>1, <2>1 DEF Open, Calls
  <2>2. CASE Discover
    BY <1>1, <2>2 DEF Discover, Calls
  <2>3. CASE NotAttached
    BY <1>1, <2>3, EndsCall DEF NotAttached, Results, SameCall
  <2> QED
    BY <2>1, <2>2, <2>3
<1>4. ASSUME call.steady # -1
      PROVE  /\ StillThere /\ Undisturbed
             /\ Attached(Class, call.steady)' /\ Dev(Class, call.steady)'.port = call'.port
             /\ doing' # "entry" => Undisturbed'
  <2>1. StillThere /\ Undisturbed
    BY <1>1, <1>4 DEF FindsIInv, Searching
  <2>2. Attached(Class, call.steady)' /\ Dev(Class, call.steady)'.port = call'.port
    BY <1>1, <1>3, <2>1, SteadyThere DEF StillThere
  <2>3. doing' # "entry" => Undisturbed'
    BY <1>1, <1>3, <2>1, StaySupported DEF Undisturbed
  <2> QED
    BY <2>1, <2>2, <2>3
<1>5. CASE Open
  <2>1. /\ doing' = "act" /\ Attached(Class, NumberAt(call.port)) /\ call'.fd = NumberAt(call.port)
    BY <1>1, <1>5 DEF Open, Calls
  <2>2. Opened' /\ PortsOK'
    BY <1>1, StepKeeps, OpenedStays DEF FindsIInv
  <2>3. Alone'
    BY <1>1, AloneStays DEF FindsIInv
  <2>4. Attached(Class, call.fd)'
    BY <1>2, <2>1 DEF Attached, AllOf, Dev
  <2>5. call.steady # -1 => call'.fd = call'.steady \/ (Class = "motor" /\ call'.fd = 0)
    BY <1>2, <1>4, <2>1, <2>2, <2>3, <2>4 DEF Opened, Alone, Attached
  <2> QED
    BY <1>2, <1>3, <1>4, <2>1, <2>5 DEF Searching, Finds, StillThere
<1>6. CASE Discover
  <2>1. doing' = "list" /\ call'.again = TRUE /\ left' = Present
    BY <1>1, <1>6 DEF Discover, Calls
  <2>2. call.steady # -1 => call.steady \in Present
    BY <1>4 DEF StillThere, Present, Attached
  <2> QED
    BY <1>2, <1>3, <1>4, <2>1, <2>2 DEF Searching, Finds, StillThere
<1>7. CASE NotAttached
  <2>1. doing' = "idle" /\ call.again /\ ~Attached(Class, NumberAt(call.port))
    BY <1>7 DEF NotAttached, Ends
  <2>2. call.steady = -1
    BY <1>1, <1>4, <2>1 DEF StillThere
  <2> QED
    BY <1>3, <2>1, <2>2 DEF Searching, Finds
<1> QED
  BY <1>5, <1>6, <1>7

\* The entries of the directory, one by one
LEMMA SearchWhenListed ==
  ASSUME FindsIInv, List
  PROVE  Searching' /\ Finds'
<1>1. PortsOK /\ Builtin /\ doing = "list" /\ call \in Calls /\ UNCHANGED <<devs, found, use>>
  <2>1. PortsOK /\ Builtin /\ doing = "list" /\ UNCHANGED <<devs, found, use>>
    BY DEF FindsIInv, PortsIInv, Builtin, Looking, List
  <2> QED
    BY <2>1, CallIs
<1>2. Class' = Class /\ Class \in Classes /\ \A n : Attached(Class, n)' = Attached(Class, n)
  BY <1>1, PlugsStay, ClassIs
<1>3. Finds'
  BY <1>1 DEF List, PassesOver, Finds
<1>4. ASSUME call.steady # -1, call'.steady = call.steady, call'.port = call.port,
             call'.again = call.again, call'.disturbed = call.disturbed
      PROVE  /\ StillThere /\ Undisturbed
             /\ Attached(Class, call.steady)' /\ Dev(Class, call.steady)'.port = call'.port
             /\ NumberAt(call.port)' = NumberAt(call.port)
             /\ doing' # "entry" => Undisturbed'
  <2>1. StillThere /\ Undisturbed
    BY <1>1, <1>4 DEF FindsIInv, Searching
  <2>2. Attached(Class, call.steady)' /\ Dev(Class, call.steady)'.port = call'.port
    BY <1>1, <1>4, <2>1, SteadyThere DEF StillThere
  <2>3. NumberAt(call.port)' = NumberAt(call.port)
    BY <1>1, <1>2, <1>4 DEF NumberAt, MotorAt, SensorAt, found
  <2>4. doing' # "entry" => Undisturbed'
    BY <1>1, <1>4, <2>1, StaySupported DEF Undisturbed
  <2> QED
    BY <2>1, <2>2, <2>3, <2>4
<1>5. CASE left = {} /\ doing' = "open" /\ UNCHANGED <<call, left>>
  BY <1>1, <1>3, <1>4, <1>5 DEF Searching, StillThere
<1>6. ASSUME NEW n \in left, Attached(Class, n), doing' = "entry", left' = left \ {n},
             call' = [call EXCEPT !.fd = n]
      PROVE  Searching'
  <2>1. /\ call'.steady = call.steady /\ call'.port = call.port /\ call'.fd = n
        /\ call'.again = call.again /\ call'.disturbed = call.disturbed
    BY <1>1, <1>6 DEF Calls
  <2>2. Attached(Class, call.fd)'
    BY <1>2, <1>6, <2>1 DEF Attached
  <2>3. call.steady # -1 => StillThere' /\ Undisturbed'
    <3> SUFFICES ASSUME call.steady # -1 PROVE StillThere' /\ Undisturbed'
      OBVIOUS
    <3>1. /\ StillThere /\ Undisturbed
          /\ Attached(Class, call.steady)' /\ Dev(Class, call.steady)'.port = call'.port
          /\ NumberAt(call.port)' = NumberAt(call.port)
      BY <1>4, <2>1
    <3>2. StillThere'
      BY <1>1, <1>6, <2>1, <3>1 DEF StillThere
    <3>3. Undisturbed'
      BY <1>1, <2>1, <2>2, <3>1, StaySupported DEF Undisturbed
    <3> QED
      BY <3>2, <3>3
  <2> QED
    BY <2>1, <2>3 DEF Searching
<1>7. ASSUME NEW n \in left, ~Attached(Class, n), doing' = "list", left' = left \ {n}, call' = call
      PROVE  Searching'
  BY <1>1, <1>4, <1>7 DEF Searching, StillThere
<1>8. Searching'
  BY <1>5, <1>6, <1>7 DEF List, PassesOver
<1> QED
  BY <1>3, <1>8

\* What is looked at is the device sought, or that of another port.
LEMMA SearchWhenNoted ==
  ASSUME FindsIInv, Entry
  PROVE  Searching' /\ Finds'
<1>1. /\ PortsOK /\ Builtin /\ doing = "entry" /\ call \in Calls /\ UNCHANGED <<devs, left, use>>
      /\ Alone
  <2>1. PortsOK /\ Builtin /\ doing = "entry" /\ UNCHANGED <<devs, left, use>> /\ Alone
    BY DEF FindsIInv, PortsIInv, Builtin, Looking, Entry
  <2> QED
    BY <2>1, CallIs
<1>2. Class' = Class /\ Class \in Classes /\ \A n : Attached(Class, n)' = Attached(Class, n)
  BY <1>1, PlugsStay, ClassIs
<1>3. call.fd \in AllOf(Class) /\ call.port \in Ports[Class]
  BY <1>1 DEF PortsOK, CallOK
<1>4. CASE Attached(Class, call.fd) /\ IsSupported(call.fd)
  <2>1. /\ NotedMotor(call.fd) \/ NotedSensor(call.fd)
        /\ doing' = "list" /\ call' = call
    BY <1>4 DEF Entry
  <2>2. call.steady # -1 => StillThere' /\ Undisturbed'
    <3> SUFFICES ASSUME call.steady # -1 PROVE StillThere' /\ Undisturbed'
      OBVIOUS
    <3>1. StillThere /\ Undisturbed
      BY <1>1 DEF FindsIInv, Searching
    <3>2. Attached(Class, call.steady)' /\ Dev(Class, call.steady)'.port = call'.port
      BY <1>1, <2>1, <3>1, SteadyThere DEF StillThere
    <3>3. Undisturbed'
      BY <1>1, <2>1, <3>1, StaySupported DEF Undisturbed
    <3>4. CASE call.fd = call.steady
      <4>1. Dev(Class, call.fd).port = call.port
        BY <3>1, <3>4 DEF StillThere
      <4>2. NumberAt(call.port)' = call.fd
        <5>1. CASE NotedMotor(call.fd)
          BY <1>1, <1>2, <1>3, <2>1, <4>1, <5>1
             DEF NotedMotor, NumberAt, MotorAt, Ports, PortsOK, FoundOK
        <5>2. CASE NotedSensor(call.fd)
          <6>1. Dev("sensor", call.fd).kind # None /\ Class = "sensor"
            BY <1>4, <5>2 DEF NotedSensor, IsSupported, Known, Supported, None
          <6> QED
            BY <1>1, <1>2, <1>3, <2>1, <4>1, <5>2, <6>1
               DEF NotedSensor, NumberAt, SensorAt, Ports, PortsOK, FoundOK
        <5> QED
          BY <2>1, <5>1, <5>2
      <4> QED
        BY <1>1, <2>1, <3>1, <3>2, <3>3, <3>4, <4>2 DEF StillThere
    <3>5. CASE call.fd # call.steady
      <4>1. Dev(Class, call.fd).port # call.port
        BY <1>1, <1>3, <1>4, <3>1, <3>5 DEF StillThere, Alone, Attached
      <4>2. NumberAt(call.port)' = NumberAt(call.port)
        <5>1. CASE NotedMotor(call.fd)
          BY <1>1, <1>2, <1>3, <2>1, <4>1, <5>1
             DEF NotedMotor, NumberAt, MotorAt, Ports, PortsOK, FoundOK
        <5>2. CASE NotedSensor(call.fd)
          BY <1>1, <1>2, <1>3, <2>1, <4>1, <5>2
             DEF NotedSensor, NumberAt, SensorAt, Ports, PortsOK, FoundOK
        <5> QED
          BY <2>1, <5>1, <5>2
      <4> QED
        BY <1>1, <2>1, <3>1, <3>2, <3>3, <3>5, <4>2 DEF StillThere
    <3> QED
      BY <3>4, <3>5
  <2> QED
    BY <2>1, <2>2 DEF Searching, Finds
<1>5. CASE ~(Attached(Class, call.fd) /\ IsSupported(call.fd))
  <2>1. Ends("search") /\ doing' = "idle"
    BY <1>5 DEF Entry, Ends
  <2>2. call'.result = "search" /\ SameCall
    BY <1>1, <2>1, EndsCall DEF Results
  <2>3. call.steady # -1 => call.disturbed
    BY <1>1, <1>3, <1>5 DEF FindsIInv, Searching, Undisturbed
  <2> QED
    BY <2>1, <2>2, <2>3 DEF Searching, Finds, SameCall
<1> QED
  BY <1>4, <1>5

LEMMA SearchWhenActing ==
  ASSUME FindsIInv, Act
  PROVE  Searching' /\ Finds'
<1>1. PortsOK /\ Builtin /\ doing = "act" /\ UNCHANGED <<found, left, use>>
  BY DEF FindsIInv, PortsIInv, Builtin, Act
<1>2. Class' = Class
  BY <1>1, PlugsStay
<1>3. /\ doing' \in {"act", "idle"} /\ SameCall
      /\ doing' = "idle" => /\ call'.result \in {"ok", "argument", "gone"}
                            /\ call'.result = "gone" => ~Attached(Class, call.fd)
  BY <1>1, ActDoes
<1>4. call.steady # -1 => StillThere /\ Undisturbed
  BY <1>1 DEF FindsIInv, Searching
<1>5. call.steady # -1 => Attached(Class, call.steady)' /\ Dev(Class, call.steady)'.port = call'.port
  BY <1>1, <1>3, <1>4, SteadyThere DEF StillThere, SameCall
<1>6. CASE doing' = "act"
  <2>1. call.steady # -1 => Undisturbed'
    BY <1>1, <1>3, <1>4, <1>6, StaySupported DEF Undisturbed, SameCall
  <2> QED
    BY <1>1, <1>2, <1>3, <1>4, <1>5, <1>6, <2>1 DEF Searching, Finds, StillThere, SameCall
<1>7. CASE doing' = "idle"
  BY <1>1, <1>3, <1>4, <1>7 DEF Searching, Finds, StillThere, SameCall
<1> QED
  BY <1>3, <1>6, <1>7

LEMMA SearchUnchanged ==
  ASSUME FindsIInv, UNCHANGED <<devs, found, doing, call, left, use>>
  PROVE  Alone' /\ Searching' /\ Finds'
<1>1. /\ Class' = Class /\ \A n : /\ Attached(Class, n)' = Attached(Class, n)
                                 /\ Dev(Class, n)' = Dev(Class, n)
                                 /\ IsSupported(n)' = IsSupported(n)
  BY DEF Class, Attached, AllOf, Dev, IsSupported, Known
<1>2. AllOf(Class)' = AllOf(Class)
  BY <1>1 DEF AllOf
<1>3. Alone'
  BY <1>1, <1>2 DEF FindsIInv, Alone
<1>4. NumberAt(call.port)' = NumberAt(call.port)
  BY <1>1 DEF NumberAt, MotorAt, SensorAt, found
<1>5. Searching'
  <2>1. StillThere => StillThere'
    BY <1>1, <1>4 DEF StillThere, Attached, Dev
  <2>2. Undisturbed => Undisturbed'
    BY <1>1, <1>2 DEF Undisturbed, Attached
  <2> QED
    BY <2>1, <2>2 DEF FindsIInv, Searching
<1>6. Finds'
  BY DEF FindsIInv, Finds
<1> QED
  BY <1>3, <1>5, <1>6

\* A device that stays plugged in during a call is found, whatever was remembered
\* of its port.  What comes and goes meanwhile spoils the search only where it
\* is of an unknown kind or goes just while its entry is looked at; what has gone
\* since the directory was read does not.
THEOREM FindsHolds == PortsSpec => []Finds
<1>1. PortsInit => Alone /\ Searching /\ Finds
  <2> SUFFICES ASSUME PortsInit PROVE Alone /\ Searching /\ Finds
    OBVIOUS
  <2>1. Class \in Classes
    BY UsesAssumption DEF PortsInit, Class, Classes
  <2>2. AllOf(Class) = {}
    BY <2>1 DEF PortsInit, AllOf, Classes
  <2>3. Searching /\ Finds
    BY DEF PortsInit, Searching, Finds
  <2> QED
    BY <2>2, <2>3 DEF Alone
<1>2. ASSUME FindsIInv, PortsIInv', [PortsNext]_portVars
      PROVE  Alone' /\ Searching' /\ Finds'
  <2>1. CASE UNCHANGED portVars
    <3>1. UNCHANGED <<devs, found, doing, call, left, use>>
      BY <2>1 DEF portVars
    <3> QED
      BY <1>2, <3>1, SearchUnchanged
  <2>2. CASE TalkTo
    <3>1. UNCHANGED <<devs, found, doing, call, left, use>>
      BY <2>2 DEF TalkTo
    <3> QED
      BY <1>2, <3>1, SearchUnchanged
  <2>3. CASE PortsNext /\ ~TalkTo
    BY <1>2, <2>3, AloneStays, SearchDuringPlug, SearchWhenCalled, SearchWhenOpen,
       SearchWhenListed, SearchWhenNoted, SearchWhenActing DEF PortsNext, FindsIInv, PortsIInv
  <2> QED
    BY <1>2, <2>1, <2>2, <2>3
<1>3. PortsSpec => []FindsIInv
  BY <1>1, <1>2, PortsIInvHolds, PTL DEF PortsSpec, FindsIInv
<1> QED
  BY <1>3, PTL DEF FindsIInv

----------------------------------------------------------------------------
(***************************************************************************)
(* A motor does what it was asked to                                       *)
(***************************************************************************)
\* What the builtins that take a duration or a position write: it first, the
\* command second
FirstFile == IF call.op = "onfor" THEN "time_sp" ELSE "position_sp"
StartWord == IF call.op = "onfor" THEN "run-timed" ELSE "run-to-abs-pos"
Second == <<WriteOf("command", StartWord)>>
Both == <<WriteOf(FirstFile, call.arg), WriteOf("command", StartWord)>>

File(n, file) == Dev(Class, n).attr[file]

\* A device that is still there was not touched, or was given what was asked for.
StartsInTime ==
  call.op \in Timed =>
    /\ doing \in {"open", "list", "entry"} => call.todo \in {Both, <<Wrong>>}
    /\ doing = "act" =>
         \/ /\ call.todo \in {Both, <<Wrong>>}
            /\ Attached(Class, call.fd) => File(call.fd, "command") = call.before
         \/ /\ call.todo = Second
            /\ Attached(Class, call.fd) => File(call.fd, FirstFile) = call.arg
    /\ doing = "idle" /\ call.result \in {"ok", "argument"} => call.fd \in AllOf(Class)
    /\ doing = "idle" /\ call.result = "ok" /\ Attached(Class, call.fd)
         => File(call.fd, "command") = StartWord /\ File(call.fd, FirstFile) = call.arg
    /\ doing = "idle" /\ call.result = "argument" /\ Attached(Class, call.fd)
         => File(call.fd, "command") = call.before

StartsIInv == PortsOK /\ StartsInTime

LEMMA TimedIs ==
  ASSUME PortsOK, call.op \in Timed
  PROVE  /\ call \in Calls /\ Class = "motor"
         /\ FirstFile \in {"time_sp", "position_sp"} /\ FirstFile # "command"
<1>1. call \in Calls
  BY DEF PortsOK, CallOK, Timed, None
<1>2. Class \in Classes /\ (Class = "sensor" => call.op \in {"read"} \cup DOMAIN Modes)
  BY <1>1, ClassIs, UsesAssumption DEF PortsOK, Calls, Class
<1>3. Class = "motor"
  BY <1>2 DEF Timed, Modes, Classes
<1> QED
  BY <1>1, <1>3 DEF FirstFile

LEMMA TimedCommands ==
  /\ \A arg : Commands(arg)["onfor"] = <<WriteOf("time_sp", arg), WriteOf("command", "run-timed")>>
  /\ \A arg : Commands(arg)["setposition"]
                = <<WriteOf("position_sp", arg), WriteOf("command", "run-to-abs-pos")>>
BY DEF Commands

LEMMA PlugLeaves ==
  ASSUME PortsOK, Plug \/ Unplug, NEW n \in AllOf(Class)
  PROVE  /\ n \in AllOf(Class)'
         /\ Attached(Class, n)' => /\ Attached(Class, n)
                                   /\ \A file : File(n, file)' = File(n, file)
<1>1. Kept /\ Class' = Class /\ Class \in Classes /\ UNCHANGED use
  BY StepKeeps, ClassIs DEF Class, PortsNext
<1>2. CASE Plug
  BY <1>1, <1>2, PlugChanges DEF Kept, Attached, File, Dev
<1>3. CASE Unplug
  <2>1. PICK m \in Present :
          devs' = [devs EXCEPT ![Class][m + 1].here = FALSE, ![Class][m + 1].attr = NewAttr]
    BY <1>3 DEF Unplug
  <2>2. Changed(Class, m, [Dev(Class, m) EXCEPT !.here = FALSE, !.attr = NewAttr])
        /\ Dev(Class, m) \in Device
    BY <1>1, <2>1, UnplugChanges, DeviceIs DEF PortsOK, Present
  <2>3. CASE n = m
    BY <1>1, <2>2, <2>3 DEF Changed, Device, Attached, Dev, Kept
  <2>4. CASE n # m
    BY <1>1, <2>2, <2>4 DEF Changed, Attached, File, Dev, Kept
  <2> QED
    BY <2>3, <2>4
<1> QED
  BY <1>2, <1>3

LEMMA StartsDuringPlug ==
  ASSUME StartsIInv, Plug \/ Unplug
  PROVE  StartsInTime'
<1> SUFFICES ASSUME call'.op \in Timed PROVE StartsInTime'
  BY DEF StartsInTime
<1>1. /\ PortsOK /\ UNCHANGED doing /\ Class' = Class
      /\ call'.op = call.op /\ call'.arg = call.arg /\ call'.todo = call.todo
      /\ call'.fd = call.fd /\ call'.before = call.before /\ call'.result = call.result
  BY PlugNotes DEF StartsIInv, Class
<1>2. FirstFile' = FirstFile /\ StartWord' = StartWord /\ Both' = Both /\ Second' = Second
  BY <1>1 DEF FirstFile, StartWord, Both, Second
<1>3. StartsInTime /\ call.op \in Timed
  BY <1>1 DEF StartsIInv
<1>4. CASE call.fd \in AllOf(Class)
  <2>1. PICK n \in AllOf(Class) : n = call.fd
    BY <1>4
  <2>2. /\ call'.fd \in AllOf(Class)'
        /\ Attached(Class, call.fd)' => /\ Attached(Class, call.fd)
                                        /\ \A file : File(call.fd, file)' = File(call.fd, file)
    BY <1>1, <2>1, PlugLeaves DEF Attached, File, Dev
  <2> QED
    BY <1>1, <1>2, <1>3, <2>2 DEF StartsInTime
<1>5. CASE call.fd \notin AllOf(Class)
  <2>1. doing # "act"
    BY <1>1, <1>5 DEF PortsOK, CallOK
  <2> QED
    BY <1>1, <1>2, <1>3, <1>5, <2>1 DEF StartsInTime
<1> QED
  BY <1>4, <1>5

LEMMA StartsWhenCalled ==
  ASSUME StartsIInv, CallMotor \/ CallSensor
  PROVE  StartsInTime'
<1>1. PortsOK
  BY DEF StartsIInv
<1>2. PICK op \in use.ops \ {None}, port \in Ports[Class], arg \in Int, todo \in Accesses(Files) :
        /\ doing = "idle" /\ Called(op, port, arg, todo)
        /\ op \in Timed => todo = Commands(arg)[op] \/ todo = <<Wrong>>
  BY <1>1, CallDoes
<1>3. doing' = "open" /\ call'.op = op /\ call'.arg = arg /\ call'.todo = todo
  BY <1>1, <1>2, CalledIs
<1>4. op \in Timed => Both' = Commands(arg)[op]
  BY <1>3, TimedCommands DEF Both, FirstFile, StartWord, Timed
<1> QED
  BY <1>2, <1>3, <1>4 DEF StartsInTime

LEMMA StartsWhenLooking ==
  ASSUME StartsIInv, Looking
  PROVE  StartsInTime'
<1> SUFFICES ASSUME call'.op \in Timed PROVE StartsInTime'
  BY DEF StartsInTime
<1>1. PortsOK /\ StartsInTime /\ UNCHANGED <<devs, use>> /\ Class' = Class
  BY DEF StartsIInv, Looking, TalkTo, Open, Discover, NotAttached, List, Entry, Class
<1>2. AllOf(Class)' = AllOf(Class) /\ \A n : /\ Attached(Class, n)' = Attached(Class, n)
                                            /\ \A file : File(n, file)' = File(n, file)
  BY <1>1, ClassIs, UnchangedDevices DEF File, Dev
<1>3. CASE TalkTo
  <2>1. UNCHANGED <<doing, call>>
    BY <1>3 DEF TalkTo
  <2> QED
    BY <1>1, <1>2, <2>1 DEF StartsInTime, FirstFile, StartWord, Both, Second, Attached, File, Dev, AllOf
<1>4. CASE Discover \/ List \/ (Entry /\ doing' = "list" /\ call' = call)
  <2>1. /\ doing \in {"open", "list", "entry"} /\ call \in Calls
        /\ doing' \in {"open", "list", "entry"}
    BY <1>1, <1>4, CallIs DEF Discover, List, PassesOver, Entry
  <2>2. call'.op = call.op /\ call'.arg = call.arg /\ call'.todo = call.todo
    BY <1>4, <2>1 DEF Discover, List, PassesOver, Calls
  <2> QED
    BY <1>1, <2>1, <2>2 DEF StartsInTime, Both, FirstFile, StartWord
<1>5. CASE Open
  <2>1. /\ doing = "open" /\ doing' = "act" /\ call \in Calls
        /\ call' = [call EXCEPT !.fd = NumberAt(call.port),
                                !.before = Dev(Class, NumberAt(call.port)).attr.command]
    BY <1>1, <1>5, CallIs DEF Open
  <2>2. /\ call'.op = call.op /\ call'.arg = call.arg /\ call'.todo = call.todo
        /\ call'.fd = NumberAt(call.port) /\ call'.before = File(call'.fd, "command")
    BY <2>1 DEF Calls, File
  <2>3. File(call.fd, "command")' = call'.before
    BY <1>1, <2>2 DEF File, Dev
  <2> QED
    BY <1>1, <2>1, <2>2, <2>3 DEF StartsInTime, Both, FirstFile, StartWord
<1>6. CASE NotAttached \/ (Entry /\ Ends("search"))
  <2>1. PICK r \in {"no device", "search"} : doing # "idle" /\ Ends(r)
    BY <1>6 DEF NotAttached, Entry
  <2>2. doing' = "idle" /\ call'.result = r
    BY <1>1, <2>1, CallIs, EndsCall DEF Results
  <2> QED
    BY <2>2 DEF StartsInTime
<1> QED
  BY <1>3, <1>4, <1>5, <1>6 DEF Looking, Entry

\* A write changes the file it is for, and no other.
LEMMA WriteLeaves ==
  ASSUME PortsOK, NEW n \in AllOf(Class), NEW access \in Access(Files), access.does = "write",
         Written(n, access), UNCHANGED use
  PROVE  \A file \in AttrFiles :
           File(n, file)' = IF file = access.file THEN access.value ELSE File(n, file)
<1>1. PICK attr \in [AttrFiles -> Values] :
        /\ Changed(Class, n, [Dev(Class, n) EXCEPT !.attr = attr])
        /\ \A file \in AttrFiles :
             attr[file] = IF file = access.file THEN access.value ELSE Dev(Class, n).attr[file]
  BY WriteChanges
<1>2. Class \in Classes /\ Class' = Class /\ Dev(Class, n) \in Device
  BY ClassIs, DeviceIs DEF PortsOK, Class
<1>3. Dev(Class, n)' = [Dev(Class, n) EXCEPT !.attr = attr]
  BY <1>1, <1>2 DEF Changed
<1>4. Dev(Class, n)'.attr = attr
  BY <1>2, <1>3 DEF Device
<1> QED
  BY <1>1, <1>2, <1>4 DEF File, Dev

LEMMA StartsWhenActing ==
  ASSUME StartsIInv, Act
  PROVE  StartsInTime'
<1> SUFFICES ASSUME call'.op \in Timed PROVE StartsInTime'
  BY DEF StartsInTime
<1> DEFINE access == Head(call.todo)
           n == call.fd
<1>1. /\ PortsOK /\ StartsInTime /\ doing = "act" /\ UNCHANGED use
      /\ \/ access = Wrong /\ Ends("argument") /\ UNCHANGED devs
         \/ access # Wrong /\ ~Attached(Class, n) /\ Ends("gone") /\ UNCHANGED devs
         \/ /\ access.does = "read" /\ Attached(Class, n)
            /\ Continue(Follow(n, access)) /\ UNCHANGED devs
         \/ /\ access.does = "write" /\ Attached(Class, n)
            /\ IF Refused(access) THEN Ends("argument") /\ UNCHANGED devs
               ELSE Written(n, access) /\ Continue(Tail(call.todo))
  BY DEF Act, StartsIInv, GivesUp
<1>2. /\ SameCall /\ call'.op = call.op /\ call.op \in Timed /\ call \in Calls
      /\ n \in AllOf(Class) /\ access \in Access(Files) /\ Class' = Class
      /\ AllOf(Class)' = AllOf(Class) /\ \A m : Attached(Class, m)' = Attached(Class, m)
  BY <1>1, ActDoes, CallIs DEF SameCall, PortsOK, CallOK, Class
<1>3. FirstFile' = FirstFile /\ StartWord' = StartWord /\ Both' = Both /\ Second' = Second
  BY <1>2 DEF SameCall, FirstFile, StartWord, Both, Second
<1>4. FirstFile \in {"time_sp", "position_sp"} /\ FirstFile # "command"
  BY <1>1, <1>2, TimedIs
<1> HIDE DEF access, n
<1>5. ASSUME UNCHANGED devs PROVE \A file : File(n, file)' = File(n, file)
  BY <1>2, <1>5 DEF File, Dev, n, SameCall
<1>6. ASSUME NEW r \in Results, Ends(r) PROVE doing' = "idle" /\ call'.result = r
  BY <1>1, <1>2, <1>6, EndsCall
<1>7. CASE call.todo = <<Wrong>>
  <2>1. access = Wrong
    BY <1>7 DEF access
  <2>2. Ends("argument") /\ UNCHANGED devs
    BY <1>1, <2>1 DEF Wrong
  <2>3. Attached(Class, n) => File(n, "command") = call.before
    BY <1>1, <1>2, <1>7 DEF StartsInTime, n, Second, Wrong, WriteOf
  <2> QED
    BY <1>2, <1>5, <1>6, <2>2, <2>3 DEF StartsInTime, n, SameCall, Results
<1>8. CASE call.todo = Both
  <2>1. access = WriteOf(FirstFile, call.arg) /\ Tail(call.todo) = Second
    BY <1>8 DEF access, Both, Second
  <2>2. access.does = "write" /\ access.file = FirstFile /\ access.value = call.arg
    BY <2>1 DEF WriteOf
  <2>3. Attached(Class, n) => File(n, "command") = call.before
    BY <1>1, <1>2, <1>8 DEF StartsInTime, n, Both, Second
  <2>4. CASE Ends("argument") /\ UNCHANGED devs
    BY <1>2, <1>5, <1>6, <2>3, <2>4 DEF StartsInTime, n, SameCall, Results
  <2>5. CASE Ends("gone")
    BY <1>6, <2>5 DEF StartsInTime, Results
  <2>6. CASE Written(n, access) /\ Continue(Second)
    <3>1. doing' = "act" /\ call'.todo = Second
      <4>1. Second # << >> /\ Continue(Second)
        BY <2>6 DEF Second
      <4>2. doing' = "act" /\ call' = [call EXCEPT !.todo = Second]
        BY <4>1 DEF Continue
      <4> QED
        BY <1>2, <4>2 DEF Calls
    <3>2. File(n, FirstFile)' = call.arg
      <4>1. PICK d \in AllOf(Class), f \in {"time_sp", "position_sp"} : d = n /\ f = FirstFile
        BY <1>2, <1>4
      <4>2. File(d, f)' = call.arg
        BY <1>1, <1>2, <2>2, <2>6, <4>1, WriteLeaves DEF AttrFiles
      <4> QED
        BY <1>2, <1>3, <4>1, <4>2 DEF n, SameCall
    <3> QED
      BY <1>2, <1>3, <3>1, <3>2 DEF StartsInTime, n, SameCall
  <2>7. access # Wrong
    BY <2>2 DEF Wrong
  <2> QED
    BY <1>1, <2>1, <2>2, <2>4, <2>5, <2>6, <2>7
<1>9. CASE call.todo = Second
  <2>1. access = WriteOf("command", StartWord) /\ Tail(call.todo) = << >>
    BY <1>9 DEF access, Second
  <2>2. access.does = "write" /\ access.file = "command" /\ access.value = StartWord
    BY <2>1 DEF WriteOf
  <2>3. Attached(Class, n) => File(n, FirstFile) = call.arg
    BY <1>1, <1>2, <1>9 DEF StartsInTime, n, Both, Second, Wrong, WriteOf
  <2>4. access # Wrong /\ ~Refused(access)
    BY <2>2 DEF Wrong, Refused
  <2>5. CASE Ends("gone")
    BY <1>6, <2>5 DEF StartsInTime, Results
  <2>6. CASE Attached(Class, n) /\ Written(n, access) /\ Continue(<< >>)
    <3>1. doing' = "idle" /\ call'.result = "ok"
      BY <1>6, <2>6 DEF Continue, Results
    <3>2. File(n, "command")' = StartWord /\ File(n, FirstFile)' = File(n, FirstFile)
      <4>1. PICK d \in AllOf(Class), f \in {"time_sp", "position_sp"} : d = n /\ f = FirstFile
        BY <1>2, <1>4
      <4>2. File(d, "command")' = StartWord /\ File(d, f)' = File(d, f)
        BY <1>1, <1>2, <2>2, <2>6, <4>1, WriteLeaves DEF AttrFiles
      <4> QED
        BY <1>2, <1>3, <4>1, <4>2 DEF n, SameCall
    <3> QED
      BY <1>2, <1>3, <2>3, <2>6, <3>1, <3>2 DEF StartsInTime, n, SameCall
  <2> QED
    BY <1>1, <2>1, <2>2, <2>4, <2>5, <2>6
<1> QED
  BY <1>1, <1>2, <1>7, <1>8, <1>9 DEF StartsInTime

\* A motor that is told to run for a time or to a position is given both of what
\* was asked for, and is not started with what was left of an earlier call.
THEOREM StartsAsAskedHolds == PortsSpec => []StartsAsAsked
<1>1. PortsInit => StartsInTime
  BY DEF PortsInit, StartsInTime, Timed, None
<1>2. ASSUME StartsIInv, [PortsNext]_portVars PROVE StartsInTime'
  <2>1. CASE UNCHANGED portVars
    <3>1. UNCHANGED <<devs, doing, call, use>>
      BY <2>1 DEF portVars
    <3> QED
      BY <1>2, <3>1 DEF StartsIInv, StartsInTime, FirstFile, StartWord, Both, Second, Attached,
                        File, Dev, AllOf, Class
  <2> QED
    BY <1>2, <2>1, StartsDuringPlug, StartsWhenCalled, StartsWhenLooking, StartsWhenActing
       DEF PortsNext, Looking
<1>3. PortsSpec => []StartsIInv
  BY <1>1, <1>2, PortsCorrect, PTL DEF PortsSpec, StartsIInv
<1>4. ASSUME StartsIInv, doing = "idle", call.op \in Timed, Attached("motor", call.fd)
      PROVE  StartsAsAsked
  <2>1. Class = "motor" /\ StartsInTime
    BY <1>4, TimedIs DEF StartsIInv
  <2> QED
    BY <1>4, <2>1 DEF StartsInTime, StartsAsAsked, FirstFile, StartWord, File
<1>5. StartsIInv => StartsAsAsked
  BY <1>4 DEF StartsAsAsked
<1> QED
  BY <1>3, <1>5, PTL

=============================================================================
