--------------------------- MODULE PosixAioProofs ---------------------------
(***************************************************************************)
(* Proofs about PosixAio, for every pool of control blocks, every limit on *)
(* threads and every number of requests.                                   *)
(*                                                                         *)
(* RequestInv (with the types) and ThreadsAccounted are inductive; from    *)
(* RequestInv follows the safety part of what AsyncIO promises.            *)
(***************************************************************************)
EXTENDS PosixAio, FiniteSetTheorems, TLAPS

(***************************************************************************)
(* Lists of control blocks.                                                *)
(***************************************************************************)

\* s is r with one more element, at place k.
OneMore(s, k, r) ==
  /\ Len(r) \in Nat /\ Len(s) = Len(r) + 1 /\ k \in 1 .. Len(s)
  /\ DOMAIN s = 1 .. Len(s) /\ DOMAIN r = 1 .. Len(r)
  /\ \A i \in 1 .. Len(r) : r[i] = s[IF i < k THEN i ELSE i + 1]

\* Linking and unlinking change the set of elements by one.
LEMMA OneMoreElement ==
  ASSUME NEW s, NEW k, NEW r, OneMore(s, k, r)
  PROVE  /\ Range(s) = Range(r) \cup {s[k]}
         /\ IsInjective(s) <=> IsInjective(r) /\ s[k] \notin Range(r)
<1> DEFINE n == Len(r)
           shift(i) == IF i < k THEN i ELSE i + 1
<1>1. n \in Nat /\ k \in 1 .. n + 1 /\ DOMAIN s = 1 .. n + 1 /\ DOMAIN r = 1 .. n
  BY DEF OneMore
<1>2. \A i \in 1 .. n : r[i] = s[shift(i)]
  BY DEF OneMore
<1> HIDE DEF n
<1>3. \A i \in 1 .. n : shift(i) \in 1 .. n + 1 /\ shift(i) # k
  BY <1>1
<1>4. \A i, j \in 1 .. n : shift(i) = shift(j) => i = j
  BY <1>1
<1>5. \A m \in 1 .. n + 1 : m = k \/ \E i \in 1 .. n : m = shift(i)
  <2> SUFFICES ASSUME NEW m \in 1 .. n + 1, m # k PROVE \E i \in 1 .. n : m = shift(i)
    OBVIOUS
  <2>1. CASE m < k
    <3>1. m \in 1 .. n /\ m = shift(m)
      BY <1>1, <2>1
    <3> QED
      BY <3>1
  <2>2. CASE m > k
    <3>1. m - 1 \in 1 .. n /\ m = shift(m - 1)
      BY <1>1, <2>2
    <3> QED
      BY <3>1
  <2> QED
    BY <1>1, <2>1, <2>2
<1> HIDE DEF shift
<1>6. Range(s) = Range(r) \cup {s[k]}
  <2>1. \A x : x \in Range(s) <=> \E m \in 1 .. n + 1 : x = s[m]
    BY <1>1, Zenon DEF Range
  <2>2. \A x : x \in Range(r) <=> \E i \in 1 .. n : x = s[shift(i)]
    BY <1>1, <1>2, Zenon DEF Range
  <2>3. \A x : x \in Range(s) <=> x \in Range(r) \/ x = s[k]
    BY <1>1, <1>3, <1>5, <2>1, <2>2, Zenon
  <2> QED
    BY <2>3
<1>7. ASSUME IsInjective(s) PROVE IsInjective(r) /\ s[k] \notin Range(r)
  <2>1. \A i, j \in 1 .. n + 1 : s[i] = s[j] => i = j
    BY <1>1, <1>7, Zenon DEF IsInjective
  <2>2. \A i, j \in 1 .. n : r[i] = r[j] => i = j
    BY <1>2, <1>3, <1>4, <2>1, Zenon
  <2>3. \A i \in 1 .. n : r[i] # s[k]
    BY <1>1, <1>2, <1>3, <2>1, Zenon
  <2> QED
    BY <1>1, <2>2, <2>3, Zenon DEF IsInjective, Range
<1>8. ASSUME IsInjective(r), s[k] \notin Range(r) PROVE IsInjective(s)
  <2>1. \A i, j \in 1 .. n : r[i] = r[j] => i = j
    BY <1>1, <1>8, Zenon DEF IsInjective
  <2>2. \A i \in 1 .. n : s[k] # s[shift(i)]
    BY <1>1, <1>2, <1>8, Zenon DEF Range
  <2>3. ASSUME NEW a \in 1 .. n + 1, NEW b \in 1 .. n + 1, s[a] = s[b] PROVE a = b
    <3>1. CASE a = k \/ b = k
      BY <1>5, <2>2, <2>3, <3>1, Zenon
    <3>2. CASE a # k /\ b # k
      <4>1. PICK i \in 1 .. n : a = shift(i)
        BY <1>5, <3>2, Zenon
      <4>2. PICK j \in 1 .. n : b = shift(j)
        BY <1>5, <3>2, Zenon
      <4>3. i = j
        BY <1>2, <2>1, <2>3, <4>1, <4>2, Zenon
      <4> QED
        BY <4>1, <4>2, <4>3, Zenon
    <3> QED
      BY <3>1, <3>2
  <2> QED
    BY <1>1, <2>3, Zenon DEF IsInjective
<1> QED
  BY <1>6, <1>7, <1>8

\* Unlinking a request.
LEMMA Unlinks ==
  ASSUME NEW S, NEW s \in Seq(S), IsInjective(s), NEW e \in Range(s)
  PROVE  /\ Remove(s, e) \in Seq(S) /\ IsInjective(Remove(s, e))
         /\ Range(Remove(s, e)) = Range(s) \ {e}
<1>1. DOMAIN s = 1 .. Len(s) /\ Len(s) \in Nat
  OBVIOUS
<1>2. PICK k \in 1 .. Len(s) : s[k] = e
  BY <1>1, Zenon DEF Range
<1>3. {i \in 1 .. Len(s) : s[i] = e} = {k}
  BY <1>1, <1>2 DEF IsInjective
<1>4. (CHOOSE i \in 1 .. Len(s) : s[i] = e) = k
  BY <1>2, <1>3
<1> DEFINE r == Remove(s, e)
           a == SubSeq(s, 1, k - 1)
           b == SubSeq(s, k + 1, Len(s))
<1>6. a \in Seq(S) /\ Len(a) = k - 1 /\ \A i \in 1 .. k - 1 : a[i] = s[i]
  OBVIOUS
<1>7. b \in Seq(S) /\ Len(b) = Len(s) - k /\ \A i \in 1 .. Len(s) - k : b[i] = s[k + i]
  OBVIOUS
<1>8. r = a \o b
  BY <1>4, Zenon DEF Remove
<1> HIDE DEF a, b, r
<1>9. r \in Seq(S) /\ Len(r) = Len(s) - 1
  BY <1>6, <1>7, <1>8
<1>10. ASSUME NEW i \in 1 .. Len(s) - 1 PROVE r[i] = s[IF i < k THEN i ELSE i + 1]
  <2>1. CASE i < k
    BY <1>6, <1>7, <1>8, <2>1
  <2>2. CASE i >= k
    <3>1. r[i] = b[i - (k - 1)] /\ i - (k - 1) \in 1 .. Len(s) - k
      BY <1>6, <1>7, <1>8, <2>2
    <3>2. b[i - (k - 1)] = s[k + (i - (k - 1))] /\ k + (i - (k - 1)) = i + 1
      BY <1>7, <3>1
    <3> QED
      BY <2>2, <3>1, <3>2
  <2> QED
    BY <2>1, <2>2
<1>11. OneMore(s, k, r)
  <2>1. Len(r) \in Nat /\ Len(s) = Len(r) + 1 /\ DOMAIN r = 1 .. Len(r) /\ Len(s) - 1 = Len(r)
    BY <1>1, <1>9
  <2> QED
    BY <1>1, <1>10, <2>1, Zenon DEF OneMore
<1> QED
  BY <1>2, <1>9, <1>11, OneMoreElement DEF r

\* Linking a request at the head or at the tail.
LEMMA Links ==
  ASSUME NEW S, NEW s \in Seq(S), IsInjective(s), NEW e \in S, e \notin Range(s)
  PROVE  /\ <<e>> \o s \in Seq(S) /\ IsInjective(<<e>> \o s)
         /\ Range(<<e>> \o s) = Range(s) \cup {e}
         /\ Append(s, e) \in Seq(S) /\ IsInjective(Append(s, e))
         /\ Range(Append(s, e)) = Range(s) \cup {e}
<1> DEFINE h == <<e>> \o s
           t == Append(s, e)
<1>1. DOMAIN s = 1 .. Len(s) /\ Len(s) \in Nat
  OBVIOUS
<1>2. /\ h \in Seq(S) /\ Len(h) = Len(s) + 1 /\ DOMAIN h = 1 .. Len(h) /\ h[1] = e
      /\ \A i \in 1 .. Len(s) : h[i + 1] = s[i]
  OBVIOUS
<1>3. /\ t \in Seq(S) /\ Len(t) = Len(s) + 1 /\ DOMAIN t = 1 .. Len(t) /\ t[Len(s) + 1] = e
      /\ \A i \in 1 .. Len(s) : t[i] = s[i]
  OBVIOUS
<1> HIDE DEF h, t
<1>4. OneMore(h, 1, s)
  BY <1>1, <1>2 DEF OneMore
<1>5. OneMore(t, Len(s) + 1, s)
  BY <1>1, <1>3 DEF OneMore
<1>6. h \in Seq(S) /\ IsInjective(h) /\ Range(h) = Range(s) \cup {e}
  BY <1>2, <1>4, OneMoreElement
<1>7. t \in Seq(S) /\ IsInjective(t) /\ Range(t) = Range(s) \cup {e}
  BY <1>3, <1>5, OneMoreElement
<1> QED
  BY <1>6, <1>7 DEF h, t

\* A worker takes the first request.
LEMMA TakesHead ==
  ASSUME NEW S, NEW s \in Seq(S), IsInjective(s), s # <<>>
  PROVE  /\ Head(s) \in Range(s) /\ Tail(s) \in Seq(S) /\ IsInjective(Tail(s))
         /\ Range(Tail(s)) = Range(s) \ {Head(s)}
<1> DEFINE t == Tail(s)
<1>1. DOMAIN s = 1 .. Len(s) /\ Len(s) \in Nat /\ Len(s) >= 1 /\ Head(s) = s[1]
  OBVIOUS
<1>2. /\ t \in Seq(S) /\ Len(t) = Len(s) - 1 /\ DOMAIN t = 1 .. Len(t)
      /\ \A i \in 1 .. Len(s) - 1 : t[i] = s[i + 1]
  OBVIOUS
<1> HIDE DEF t
<1>3. OneMore(s, 1, t)
  BY <1>1, <1>2 DEF OneMore
<1> QED
  BY <1>1, <1>2, <1>3, OneMoreElement DEF t

\* The elements of a list.
LEMMA ElementsOf ==
  ASSUME NEW S, NEW s \in Seq(S)
  PROVE  Range(s) \subseteq S
BY DEF Range

(***************************************************************************)
(* The calls under way.                                                    *)
(***************************************************************************)

\* The requests whose callbacks run: done, and in no list.
Called(stack, linked, f) ==
  \A i \in 1 .. Len(stack) : stack[i].acb # None =>
     /\ stack[i].acb \notin linked
     /\ f[stack[i].acb].ret = "done"
     /\ \A j \in 1 .. Len(stack) : stack[i].acb = stack[j].acb => i = j

LEMMA FrameAcb ==
  ASSUME NEW stack \in Seq(Frame), NEW i \in 1 .. Len(stack), stack[i].acb # None
  PROVE  stack[i].acb \in Acbs
<1>1. stack[i] \in Frame
  OBVIOUS
<1> QED
  BY <1>1 DEF Frame

\* A call begins ...
LEMMA Push ==
  ASSUME NEW stack \in Seq(Frame), NEW f \in Frame
  PROVE  LET new == Append(stack, f)
         IN  /\ new \in Seq(Frame) /\ new # <<>>
             /\ InFlush(new) <=> f.acb = None
             /\ Len(new) = Len(stack) + 1 /\ Len(stack) \in Nat
             /\ \A i \in 1 .. Len(stack) : new[i] = stack[i]
             /\ new[Len(stack) + 1] = f
BY DEF InFlush, Last

\* ... and returns.
LEMMA Pop ==
  ASSUME NEW stack \in Seq(Frame), stack # <<>>
  PROVE  /\ Front(stack) \in Seq(Frame) /\ Last(stack) \in Frame
         /\ Last(stack) = stack[Len(stack)]
         /\ Len(Front(stack)) = Len(stack) - 1 /\ Len(stack) \in Nat \ {0}
         /\ \A i \in 1 .. Len(stack) - 1 : Front(stack)[i] = stack[i]
<1>1. Len(stack) \in Nat \ {0}
  OBVIOUS
<1>2. stack[Len(stack)] \in Frame
  BY <1>1
<1>3. \A k \in 1 .. Len(stack) :
         /\ SubSeq(stack, 1, k - 1) \in Seq(Frame)
         /\ Len(SubSeq(stack, 1, k - 1)) = k - 1
         /\ \A i \in 1 .. k - 1 : SubSeq(stack, 1, k - 1)[i] = stack[i]
  OBVIOUS
<1>4. Len(stack) \in 1 .. Len(stack)
  BY <1>1
<1> QED
  BY <1>1, <1>2, <1>3, <1>4, Zenon DEF Front, Last

LEMMA PushNests ==
  ASSUME NEW stack \in Seq(Frame), NEW f \in Frame, Nested(stack),
         IF f.acb = None THEN ~InFlush(stack)
         ELSE IF f.then = "loop" THEN stack = <<>> ELSE InFlush(stack)
  PROVE  Nested(Append(stack, f))
<1> DEFINE new == Append(stack, f)
<1>1. /\ Len(new) = Len(stack) + 1 /\ Len(stack) \in Nat
      /\ \A i \in 1 .. Len(stack) : new[i] = stack[i]
      /\ new[Len(stack) + 1] = f
  BY Push
<1>2. /\ stack = <<>> <=> Len(stack) = 0
      /\ Last(stack) = stack[Len(stack)]
  BY DEF Last
<1> HIDE DEF new
<1> SUFFICES ASSUME NEW i \in 1 .. Len(new)
             PROVE  IF new[i].acb = None THEN i > 1 => new[i - 1].acb # None
                    ELSE IF new[i].then = "loop" THEN i = 1
                    ELSE i > 1 /\ new[i - 1].acb = None
  BY Zenon DEF Nested, new
<1>3. CASE i \in 1 .. Len(stack)
  <2>1. new[i] = stack[i] /\ (i > 1 => new[i - 1] = stack[i - 1])
    BY <1>1, <1>3
  <2> QED
    BY <1>3, <2>1, Zenon DEF Nested
<1>4. CASE i = Len(stack) + 1
  <2>1. new[i] = f /\ (i > 1 => new[i - 1] = stack[Len(stack)])
    BY <1>1, <1>4
  <2>2. /\ i > 1 <=> stack # <<>>
        /\ i = 1 <=> stack = <<>>
    BY <1>1, <1>2, <1>4
  <2> QED
    BY <1>2, <2>1, <2>2, Zenon DEF InFlush
<1> QED
  BY <1>1, <1>3, <1>4

LEMMA PopNests ==
  ASSUME NEW stack \in Seq(Frame), stack # <<>>, Nested(stack)
  PROVE  /\ Nested(Front(stack))
         /\ InFlush(stack) => ~InFlush(Front(stack))
         /\ ~InFlush(stack) =>
              IF Last(stack).then = "loop" THEN Front(stack) = <<>> ELSE InFlush(Front(stack))
<1> DEFINE new == Front(stack)
           n == Len(stack)
<1>1. /\ new \in Seq(Frame) /\ Last(stack) = stack[n]
      /\ Len(new) = n - 1 /\ n \in Nat \ {0}
      /\ \A i \in 1 .. n - 1 : new[i] = stack[i]
  BY Pop
<1>2. /\ new = <<>> <=> n = 1
      /\ n > 1 => Last(new) = stack[n - 1]
  BY <1>1 DEF Last
<1> HIDE DEF new, n
<1>3. \A i \in 1 .. n :
         IF stack[i].acb = None THEN i > 1 => stack[i - 1].acb # None
         ELSE IF stack[i].then = "loop" THEN i = 1
         ELSE i > 1 /\ stack[i - 1].acb = None
  BY Zenon DEF Nested, n
<1>4. Nested(new)
  <2> SUFFICES ASSUME NEW i \in 1 .. n - 1
               PROVE  IF new[i].acb = None THEN i > 1 => new[i - 1].acb # None
                      ELSE IF new[i].then = "loop" THEN i = 1
                      ELSE i > 1 /\ new[i - 1].acb = None
    BY <1>1, Zenon DEF Nested
  <2>1. i \in 1 .. n /\ new[i] = stack[i] /\ (i > 1 => new[i - 1] = stack[i - 1])
    BY <1>1
  <2> QED
    BY <1>3, <2>1, Zenon
<1>5. n \in 1 .. n /\ (n > 1 <=> n # 1)
  BY <1>1
<1>6. InFlush(stack) => ~InFlush(new)
  BY <1>1, <1>2, <1>3, <1>5, Zenon DEF InFlush
<1>7. ~InFlush(stack) => IF Last(stack).then = "loop" THEN new = <<>> ELSE InFlush(new)
  BY <1>1, <1>2, <1>3, <1>5, Zenon DEF InFlush
<1> QED
  BY <1>4, <1>6, <1>7 DEF new

LEMMA CalledFrame ==
  ASSUME NEW stack \in Seq(Frame), NEW l, NEW f, NEW m, NEW g, Called(stack, l, f),
         \A b \in Acbs \ l : b \notin m /\ (f[b].ret = "done" => g[b].ret = "done")
  PROVE  Called(stack, m, g)
<1>1. \A i \in 1 .. Len(stack) : stack[i].acb # None => stack[i].acb \in Acbs
  BY FrameAcb
<1> QED
  BY <1>1, Zenon DEF Called

LEMMA CalledPush ==
  ASSUME NEW stack \in Seq(Frame), NEW l, NEW f, NEW m, NEW fr \in Frame, Called(stack, l, f),
         m \subseteq l,
         fr.acb # None => fr.acb \in l /\ fr.acb \notin m /\ f[fr.acb].ret = "done"
  PROVE  Called(Append(stack, fr), m, f)
<1> DEFINE new == Append(stack, fr)
           n == Len(stack)
<1>1. /\ Len(new) = n + 1 /\ n \in Nat
      /\ \A i \in 1 .. n : new[i] = stack[i]
      /\ new[n + 1] = fr
  BY Push
<1>2. \A i \in 1 .. n : stack[i].acb # None =>
         /\ stack[i].acb \notin l /\ stack[i].acb \notin m
         /\ f[stack[i].acb].ret = "done"
         /\ \A j \in 1 .. n : stack[i].acb = stack[j].acb => i = j
  BY DEF Called
<1>3. \A i \in 1 .. Len(new) : i \in 1 .. n \/ i = n + 1
  BY <1>1
<1> HIDE DEF new, n
<1>4. ASSUME NEW i \in 1 .. Len(new), new[i].acb # None
      PROVE  /\ new[i].acb \notin m /\ f[new[i].acb].ret = "done"
             /\ \A j \in 1 .. Len(new) : new[i].acb = new[j].acb => i = j
  <2>1. CASE i \in 1 .. n
    BY <1>1, <1>2, <1>3, <1>4, <2>1, Zenon
  <2>2. CASE i = n + 1
    <3>1. new[i] = fr /\ fr.acb \in l
      BY <1>1, <1>4, <2>2, Zenon
    <3> QED
      BY <1>1, <1>2, <1>3, <1>4, <2>2, <3>1, Zenon
  <2> QED
    BY <1>3, <2>1, <2>2, Zenon
<1> QED
  BY <1>4, Zenon DEF Called, new

LEMMA CalledPop ==
  ASSUME NEW stack \in Seq(Frame), stack # <<>>, NEW l, NEW f, NEW g, Called(stack, l, f),
         \A b \in Acbs : (Last(stack).acb = None \/ b # Last(stack).acb) => g[b] = f[b]
  PROVE  Called(Front(stack), l, g)
<1> DEFINE new == Front(stack)
           n == Len(stack)
<1>1. /\ Last(stack) = stack[n] /\ Len(new) = n - 1 /\ n \in Nat \ {0}
      /\ \A i \in 1 .. n - 1 : new[i] = stack[i]
  BY Pop
<1>2. n \in 1 .. n /\ \A i \in 1 .. n - 1 : i \in 1 .. n /\ i # n
  BY <1>1
<1>3. \A i \in 1 .. n : stack[i].acb # None => stack[i].acb \in Acbs
  BY FrameAcb
<1>4. \A i \in 1 .. n : stack[i].acb # None =>
         /\ stack[i].acb \notin l
         /\ f[stack[i].acb].ret = "done"
         /\ \A j \in 1 .. n : stack[i].acb = stack[j].acb => i = j
  BY DEF Called
<1> HIDE DEF new, n
<1>5. ASSUME NEW i \in 1 .. n - 1, new[i].acb # None
      PROVE  /\ new[i].acb \notin l /\ g[new[i].acb].ret = "done"
             /\ \A j \in 1 .. n - 1 : new[i].acb = new[j].acb => i = j
  <2>1. new[i] = stack[i] /\ stack[i].acb \in Acbs /\ i \in 1 .. n /\ i # n
    BY <1>1, <1>2, <1>3, <1>5, Zenon
  <2>2. stack[i].acb # stack[n].acb
    BY <1>2, <1>4, <1>5, <2>1, Zenon
  <2>3. g[stack[i].acb] = f[stack[i].acb]
    BY <1>1, <2>1, <2>2, Zenon
  <2>4. /\ stack[i].acb \notin l /\ f[stack[i].acb].ret = "done"
        /\ \A j \in 1 .. n : stack[i].acb = stack[j].acb => i = j
    BY <1>4, <1>5, <2>1, Zenon
  <2>5. \A j \in 1 .. n - 1 : j \in 1 .. n /\ new[j] = stack[j]
    BY <1>1, <1>2, Zenon
  <2> QED
    BY <2>1, <2>3, <2>4, <2>5, Zenon
<1> QED
  BY <1>1, <1>5, Zenon DEF Called, new

(***************************************************************************)
(* The invariant, in two parts: the requests and the workers, and the main *)
(* thread.                                                                 *)
(***************************************************************************)

Linked == Range(first_aio)
Queued == Range(request_list)

\* A linked request.
Pending(a) ==
  /\ acb[a].ret # "free" /\ acb[a].sub \in Submissions /\ fate[acb[a].sub] = "pending"
  /\ acb[a].active <=> a \notin Queued
  /\ ~acb[a].active => acb[a].ret = "EINPROGRESS"
  /\ \A b \in Linked : acb[a].sub = acb[b].sub => a = b

\* A worker's request.
Works(t) ==
  /\ thread[t].acb \in Linked /\ acb[thread[t].acb].active
  /\ acb[thread[t].acb].ret = "EINPROGRESS"
  /\ \A u \in Threads : thread[u].pc = "work" /\ thread[u].acb = thread[t].acb => u = t

RequestPart ==
  /\ acb \in [Acbs -> Request] /\ thread \in [Threads -> Worker]
  /\ fate \in [Submissions -> {"new", "pending", "called", "cancelled"}]
  /\ request_list \in Seq(Acbs) /\ first_aio \in Seq(Acbs)
  /\ IsInjective(request_list) /\ IsInjective(first_aio)
  /\ Queued \subseteq Linked
  /\ \A a \in Linked : Pending(a)
  /\ \A t \in Threads : thread[t].pc = "work" => Works(t)

MainPart ==
  /\ main \in Main /\ CallsNest /\ Called(main.stack, Linked, acb)
  /\ main.pc = "cancel" => main.acb \in Linked /\ acb[main.acb].active

\* The types that do not depend on the counters.
RequestTypes ==
  /\ acb \in [Acbs -> Request]
  /\ request_list \in Seq(Acbs) /\ first_aio \in Seq(Acbs)
  /\ thread \in [Threads -> Worker] /\ main \in Main
  /\ fate \in [Submissions -> {"new", "pending", "called", "cancelled"}]

LEMMA RequestParts == RequestTypes /\ RequestInv <=> RequestPart /\ MainPart
<1>2. ASSUME RequestTypes, RequestInv PROVE RequestPart /\ MainPart
  <2>1. \A a \in Linked : Pending(a)
    BY <1>2, Zenon DEF RequestInv, Pending, Linked, Queued
  <2>2. ASSUME NEW t \in Threads, thread[t].pc = "work" PROVE Works(t)
    BY <1>2, <2>2, Zenon DEF RequestInv, WorkOnOwnRequest, Works, Linked, Queued
  <2> QED
    BY <1>2, <2>1, <2>2, Zenon
       DEF RequestInv, RequestTypes, RequestPart, MainPart, Called, Linked, Queued
<1>3. ASSUME RequestPart, MainPart PROVE RequestTypes /\ RequestInv
  <2>1. RequestTypes
    BY <1>3, Zenon DEF RequestPart, MainPart, RequestTypes
  <2>2. ASSUME NEW t \in Threads, thread[t].pc = "work"
        PROVE  LET a == thread[t].acb
               IN  /\ a \in Range(first_aio) /\ acb[a].active /\ acb[a].ret = "EINPROGRESS"
                   /\ a \notin Range(request_list)
                   /\ \A u \in Threads \ {t} : thread[u].pc = "work" => thread[u].acb # a
    <3>1. Works(t)
      BY <1>3, <2>2, Zenon DEF RequestPart
    <3>2. Pending(thread[t].acb)
      BY <1>3, <3>1, Zenon DEF RequestPart, Works
    <3> QED
      BY <3>1, <3>2, Zenon DEF Works, Pending, Linked, Queued
  <2>3. \A a \in Linked : Pending(a)
    BY <1>3, Zenon DEF RequestPart
  <2> QED
    BY <1>3, <2>1, <2>2, <2>3, Zenon
       DEF RequestInv, WorkOnOwnRequest, RequestPart, MainPart, Called, Pending, Linked, Queued
<1> QED
  BY <1>2, <1>3

LEMMA RequestPartsNext == (RequestTypes /\ RequestInv)' <=> (RequestPart /\ MainPart)'
BY RequestParts, PTL

\* Steps that leave the requests alone: only a worker that had a request keeps it.
LEMMA RequestFrame ==
  ASSUME RequestPart, UNCHANGED <<acb, request_list, first_aio, fate>>,
         thread' \in [Threads -> Worker],
         \A t \in Threads : thread'[t].pc = "work" =>
            thread[t].pc = "work" /\ thread'[t].acb = thread[t].acb
  PROVE  RequestPart'
<1>1. UNCHANGED <<Linked, Queued>>
  BY DEF Linked, Queued
<1>2. ASSUME NEW t \in Threads, thread'[t].pc = "work" PROVE Works(t)'
  <2>1. Works(t) /\ thread'[t].acb = thread[t].acb
    BY <1>2, Zenon DEF RequestPart
  <2>2. \A u \in Threads : thread'[u].pc = "work" /\ thread'[u].acb = thread[t].acb => u = t
    BY <2>1, Zenon DEF Works
  <2> QED
    BY <1>1, <2>1, <2>2, Zenon DEF Works
<1>3. \A a \in Linked : Pending(a)'
  BY <1>1, Zenon DEF RequestPart, Pending
<1> QED
  BY <1>1, <1>2, <1>3, Zenon DEF RequestPart

\* Steps in which the main thread takes no part: the linked requests and those whose
\* callbacks run are what they were, but for the progress of their work.
LEMMA MainFrame ==
  ASSUME MainPart, UNCHANGED <<main, first_aio>>,
         \A a \in Linked : acb[a].active => acb'[a].active,
         \A a \in Acbs : acb[a].ret = "done" => acb'[a].ret = "done"
  PROVE  MainPart'
<1>1. Linked' = Linked /\ main.stack' = main.stack
  BY DEF Linked
<1>2. main.stack \in Seq(Frame)
  BY DEF MainPart, Main
<1>3. Called(main.stack, Linked, acb')
  BY <1>2, CalledFrame DEF MainPart
<1>4. Called(main.stack, Linked, acb)'
  BY <1>1, <1>3
<1>5. CallsNest'
  BY Zenon DEF MainPart, CallsNest
<1> QED
  BY <1>1, <1>4, <1>5, Zenon DEF MainPart

(***************************************************************************)
(* Steps of the workers.                                                   *)
(***************************************************************************)

Stages == {"none", "created", "spawn", "create", "lock", "wait", "timedout", "woken", "work",
           "notify"}

\* A worker goes to another stage ...
Staged(f, t, x, g) ==
  /\ g \in [Threads -> Worker]
  /\ \A u \in Threads : /\ g[u].pc = IF u = t THEN x ELSE f[u].pc
                        /\ g[u].acb = f[u].acb

LEMMA StageMoves ==
  ASSUME NEW f \in [Threads -> Worker], NEW t, NEW x \in Stages,
         NEW g, g = [f EXCEPT ![t].pc = x]
  PROVE  Staged(f, t, x, g)
<1>1. \A u \in Threads : g[u] = IF u = t THEN [f[u] EXCEPT !.pc = x] ELSE f[u]
  OBVIOUS
<1>2. \A w \in Worker : /\ [w EXCEPT !.pc = x] \in Worker
                        /\ [w EXCEPT !.pc = x].pc = x /\ [w EXCEPT !.pc = x].acb = w.acb
  BY DEF Worker, Stages
<1>3. g = [u \in Threads |-> g[u]]
  BY Zenon
<1>4. ASSUME NEW u \in Threads
      PROVE  /\ g[u] \in Worker /\ g[u].acb = f[u].acb
             /\ g[u].pc = IF u = t THEN x ELSE f[u].pc
  <2>1. f[u] \in Worker
    OBVIOUS
  <2>2. CASE u = t
    <3>1. g[u] = [f[u] EXCEPT !.pc = x]
      BY <1>1, <2>2, Zenon
    <3> QED
      BY <1>2, <2>1, <2>2, <3>1, Zenon
  <2>3. CASE u # t
    BY <1>1, <2>1, <2>3, Zenon
  <2> QED
    BY <2>2, <2>3
<1> QED
  BY <1>3, <1>4, Zenon DEF Staged

\* ... or also to another request.
LEMMA WorkerMoves ==
  ASSUME NEW f \in [Threads -> Worker], NEW t, NEW w \in Worker
  PROVE  LET g == [f EXCEPT ![t] = w]
         IN  /\ g \in [Threads -> Worker]
             /\ \A u \in Threads : g[u] = IF u = t THEN w ELSE f[u]
BY Zenon

\* The steps in which a worker takes and finishes no request.
QuietWorker(t) ==
  \/ ThreadStarts(t) \/ ThreadSpawns(t) \/ ThreadCreates(t) \/ ThreadTimesOut(t)
  \/ ThreadNotifies(t)
  \/ /\ thread[t].pc \in {"lock", "timedout", "woken"} /\ request_list = <<>>
     /\ \/ thread' = [thread EXCEPT ![t].pc = "wait"]
        \/ thread' = [thread EXCEPT ![t] = Dead]
     /\ UNCHANGED <<acb, request_list, first_aio, main, fate>>

LEMMA QuietWorkerStep ==
  ASSUME RequestPart, MainPart, NEW t \in Threads, QuietWorker(t)
  PROVE  RequestPart' /\ MainPart' /\ UNCHANGED fate
<1>1. UNCHANGED <<acb, request_list, first_aio, main, fate>>
  BY Zenon DEF QuietWorker, ThreadStarts, ThreadSpawns, ThreadCreates, ThreadTimesOut, ThreadNotifies
<1>2. thread \in [Threads -> Worker]
  BY DEF RequestPart
<1>3. /\ thread' \in [Threads -> Worker]
      /\ \A u \in Threads : thread'[u].pc = "work" =>
            thread[u].pc = "work" /\ thread'[u].acb = thread[u].acb
  <2>1. ASSUME NEW x \in Stages \ {"work"}, thread' = [thread EXCEPT ![t].pc = x]
        PROVE  <1>3!1 /\ <1>3!2
    <3>1. Staged(thread, t, x, thread')
      BY <1>2, <2>1, StageMoves, Zenon
    <3> QED
      BY <2>1, <3>1, Zenon DEF Staged
  <2>2. ASSUME thread' = [thread EXCEPT ![t] = Dead] PROVE <1>3!1 /\ <1>3!2
    <3>1. Dead \in Worker /\ Dead.pc # "work"
      BY DEF Dead, Worker
    <3> QED
      BY <1>2, <2>2, <3>1, WorkerMoves
  <2>3. ASSUME ThreadCreates(t) PROVE <1>3!1 /\ <1>3!2
    <3> DEFINE g == [thread EXCEPT ![t].pc = "lock"]
    <3>1. thread' = [g EXCEPT ![NewThread].pc = "created"]
      BY <2>3 DEF ThreadCreates
    <3>2. "lock" \in Stages /\ "created" \in Stages
      BY DEF Stages
    <3>3. Staged(thread, t, "lock", g)
      BY <1>2, <3>2, StageMoves, Zenon
    <3> HIDE DEF g
    <3>4. g \in [Threads -> Worker]
      BY <3>3 DEF Staged
    <3>5. Staged(g, NewThread, "created", thread')
      BY <3>1, <3>2, <3>4, StageMoves, Zenon
    <3> QED
      BY <3>3, <3>5, Zenon DEF Staged
  <2>4. \/ ThreadCreates(t)
        \/ thread' = [thread EXCEPT ![t] = Dead]
        \/ \E x \in Stages \ {"work"} : thread' = [thread EXCEPT ![t].pc = x]
    <3>1. \A x \in {"spawn", "lock", "create", "timedout", "woken", "wait"} : x \in Stages \ {"work"}
      BY DEF Stages
    <3>2. CASE ThreadStarts(t)
      BY <3>1, <3>2, Zenon DEF ThreadStarts
    <3>3. CASE ThreadSpawns(t)
      BY <3>1, <3>3, Zenon DEF ThreadSpawns
    <3>4. CASE ThreadTimesOut(t)
      BY <3>1, <3>4, Zenon DEF ThreadTimesOut
    <3>5. CASE ThreadNotifies(t)
      BY <3>1, <3>5, Zenon DEF ThreadNotifies
    <3> QED
      BY <3>1, <3>2, <3>3, <3>4, <3>5, Zenon DEF QuietWorker
  <2> QED
    BY <2>1, <2>2, <2>3, <2>4
<1>4. RequestPart'
  BY <1>1, <1>3, RequestFrame
<1>5. MainPart'
  BY <1>1, MainFrame
<1> QED
  BY <1>1, <1>4, <1>5

\* One field of a request changes.
Activated(f, a, g) ==
  /\ g \in [Acbs -> Request]
  /\ \A b \in Acbs : /\ g[b].ret = f[b].ret /\ g[b].sub = f[b].sub
                     /\ b # a => g[b].active = f[b].active
  /\ g[a].active

LEMMA ActiveRequest ==
  ASSUME NEW f \in [Acbs -> Request], NEW a \in Acbs, NEW g, g = [f EXCEPT ![a].active = TRUE]
  PROVE  Activated(f, a, g)
<1>1. \A w \in Request : LET v == [w EXCEPT !.active = TRUE]
                         IN  v \in Request /\ v.ret = w.ret /\ v.sub = w.sub /\ v.active
  BY Zenon DEF Request
<1>2. \A b \in Acbs : g[b] = IF b = a THEN [f[b] EXCEPT !.active = TRUE] ELSE f[b]
  BY Zenon
<1>3. g = [b \in Acbs |-> g[b]]
  BY Zenon
<1>4. \A b \in Acbs : f[b] \in Request
  OBVIOUS
<1>5. ASSUME NEW b \in Acbs
      PROVE  /\ g[b] \in Request /\ g[b].ret = f[b].ret /\ g[b].sub = f[b].sub
             /\ IF b = a THEN g[b].active ELSE g[b].active = f[b].active
  <2>1. CASE b = a
    BY <1>1, <1>2, <1>4, <2>1, Zenon
  <2>2. CASE b # a
    BY <1>2, <1>4, <2>2, Zenon
  <2> QED
    BY <2>1, <2>2
<1>6. g \in [Acbs -> Request]
  BY <1>3, <1>5, Zenon
<1> QED
  BY <1>5, <1>6, Zenon DEF Activated

Finished(f, a, g) ==
  /\ g \in [Acbs -> Request]
  /\ \A b \in Acbs : /\ g[b].active = f[b].active /\ g[b].sub = f[b].sub
                     /\ b # a => g[b].ret = f[b].ret
  /\ g[a].ret = "done"

LEMMA DoneRequest ==
  ASSUME NEW f \in [Acbs -> Request], NEW a \in Acbs, NEW g, g = [f EXCEPT ![a].ret = "done"]
  PROVE  Finished(f, a, g)
<1>1. \A w \in Request : LET v == [w EXCEPT !.ret = "done"]
                         IN  /\ v \in Request /\ v.active = w.active /\ v.sub = w.sub
                             /\ v.ret = "done"
  BY DEF Request
<1>2. \A b \in Acbs : g[b] = IF b = a THEN [f[b] EXCEPT !.ret = "done"] ELSE f[b]
  OBVIOUS
<1>3. g = [b \in Acbs |-> g[b]]
  BY Zenon
<1>4. \A b \in Acbs : f[b] \in Request
  OBVIOUS
<1>5. ASSUME NEW b \in Acbs
      PROVE  /\ g[b] \in Request /\ g[b].active = f[b].active /\ g[b].sub = f[b].sub
             /\ IF b = a THEN g[b].ret = "done" ELSE g[b].ret = f[b].ret
  <2>1. CASE b = a
    BY <1>1, <1>2, <1>4, <2>1, Zenon
  <2>2. CASE b # a
    BY <1>2, <1>4, <2>2, Zenon
  <2> QED
    BY <2>1, <2>2
<1>6. g \in [Acbs -> Request]
  BY <1>3, <1>5, Zenon
<1> QED
  BY <1>5, <1>6, Zenon DEF Finished

\* A worker takes the first request of request_list.
LEMMA TakesRequestStep ==
  ASSUME RequestPart, MainPart, NEW t \in Threads, NEW idle, thread[t].pc # "work",
         TakesRequest(t, idle)
  PROVE  RequestPart' /\ MainPart' /\ UNCHANGED fate
<1> DEFINE a == Head(request_list)
           w == [pc |-> "work", acb |-> a]
<1>1. /\ request_list # <<>> /\ request_list' = Tail(request_list)
      /\ acb' = [acb EXCEPT ![a].active = TRUE]
      /\ thread' = [thread EXCEPT ![t] = w]
      /\ UNCHANGED <<first_aio, main, fate>>
  BY Zenon DEF TakesRequest
<1>2. /\ acb \in [Acbs -> Request] /\ thread \in [Threads -> Worker]
      /\ request_list \in Seq(Acbs) /\ IsInjective(request_list)
      /\ Queued \subseteq Linked /\ Linked \subseteq Acbs
      /\ \A b \in Linked : Pending(b)
      /\ \A u \in Threads : thread[u].pc = "work" => Works(u)
  BY ElementsOf DEF RequestPart, Linked
<1>3. /\ a \in Queued /\ request_list' \in Seq(Acbs) /\ IsInjective(request_list')
      /\ Queued' = Queued \ {a} /\ Linked' = Linked
  BY <1>1, <1>2, TakesHead DEF Queued, Linked
<1>4. a \in Linked /\ a \in Acbs
  BY <1>2, <1>3, Zenon
<1>5. ~acb[a].active /\ acb[a].ret = "EINPROGRESS"
  BY <1>2, <1>3, <1>4, Zenon DEF Pending
<1>6. w \in Worker /\ w.pc = "work" /\ w.acb = a
  BY <1>4 DEF Worker
<1> HIDE DEF a, w
<1>7. /\ acb' \in [Acbs -> Request]
      /\ \A b \in Acbs : /\ acb'[b].ret = acb[b].ret /\ acb'[b].sub = acb[b].sub
                         /\ b # a => acb'[b].active = acb[b].active
      /\ acb'[a].active
  <2>1. acb \in [Acbs -> Request] /\ a \in Acbs
    BY <1>2, <1>4
  <2>2. acb' = [acb EXCEPT ![a].active = TRUE]
    BY <1>1
  <2>3. Activated(acb, a, acb')
    BY <2>1, <2>2, ActiveRequest, Zenon
  <2> QED
    BY <2>3, Zenon DEF Activated
<1>8. /\ thread' \in [Threads -> Worker]
      /\ \A u \in Threads : thread'[u] = IF u = t THEN w ELSE thread[u]
  BY <1>1, <1>2, <1>6, WorkerMoves
<1>9. ASSUME NEW b \in Linked PROVE Pending(b)'
  <2>1. Pending(b) /\ b \in Acbs
    BY <1>2, Zenon
  <2>2. (acb[b].active <=> b \notin Queued)'
    BY <1>3, <1>7, <2>1 DEF Pending
  <2>3. \A c \in Linked : acb'[b].sub = acb'[c].sub => b = c
    BY <1>2, <1>7, <2>1, Zenon DEF Pending
  <2>4. ~acb'[b].active => acb'[b].ret = "EINPROGRESS"
    BY <1>5, <1>7, <2>1, Zenon DEF Pending
  <2> QED
    BY <1>1, <1>3, <1>7, <2>1, <2>2, <2>3, <2>4, Zenon DEF Pending
<1>10. ASSUME NEW u \in Threads, thread'[u].pc = "work" PROVE Works(u)'
  <2>1. CASE u = t
    <3>1. thread'[u].acb = a
      BY <1>6, <1>8, <2>1, Zenon
    <3>2. ASSUME NEW v \in Threads, thread'[v].pc = "work", thread'[v].acb = a PROVE v = u
      <4> SUFFICES ASSUME v # t PROVE FALSE
        BY <2>1
      <4>1. thread'[v] = thread[v]
        BY <1>8, Zenon
      <4>2. Works(v) /\ thread[v].acb = a
        BY <1>2, <3>2, <4>1, Zenon
      <4> QED
        BY <1>5, <4>2, Zenon DEF Works
    <3> QED
      BY <1>3, <1>4, <1>5, <1>7, <3>1, <3>2, Zenon DEF Works
  <2>2. CASE u # t
    <3>1. thread'[u] = thread[u] /\ Works(u) /\ thread[u].acb \in Acbs
      BY <1>2, <1>8, <1>10, <2>2, Zenon DEF Works
    <3>2. thread[u].acb # a
      BY <1>5, <3>1, Zenon DEF Works
    <3>3. \A v \in Threads : thread'[v].pc = "work" /\ thread'[v].acb = thread'[u].acb => v = u
      BY <1>6, <1>8, <3>1, <3>2, Zenon DEF Works
    <3> QED
      BY <1>3, <1>7, <3>1, <3>2, <3>3, Zenon DEF Works
  <2> QED
    BY <2>1, <2>2
<1>11. RequestPart'
  <2>1. Queued' \subseteq Linked'
    BY <1>2, <1>3
  <2> QED
    BY <1>1, <1>3, <1>7, <1>8, <1>9, <1>10, <2>1, Zenon DEF RequestPart
<1>12. MainPart'
  <2>1. \A b \in Acbs : /\ acb[b].active => acb'[b].active
                        /\ acb[b].ret = "done" => acb'[b].ret = "done"
    BY <1>7, Zenon
  <2> QED
    BY <1>1, <1>2, <2>1, MainFrame
<1> QED
  BY <1>1, <1>11, <1>12

\* A worker has done its request.
LEMMA ThreadWorksStep ==
  ASSUME RequestPart, MainPart, NEW t \in Threads, ThreadWorks(t)
  PROVE  RequestPart' /\ MainPart' /\ UNCHANGED fate
<1> DEFINE a == thread[t].acb
           w == [pc |-> "notify", acb |-> None]
<1>1. /\ thread[t].pc = "work" /\ acb' = [acb EXCEPT ![a].ret = "done"]
      /\ thread' = [thread EXCEPT ![t] = w]
      /\ UNCHANGED <<first_aio, request_list, main, fate>>
  BY Zenon DEF ThreadWorks
<1>2. /\ acb \in [Acbs -> Request] /\ thread \in [Threads -> Worker]
      /\ Linked \subseteq Acbs
      /\ \A b \in Linked : Pending(b)
      /\ \A u \in Threads : thread[u].pc = "work" => Works(u)
  BY ElementsOf DEF RequestPart, Linked
<1>3. Queued' = Queued /\ Linked' = Linked
  BY <1>1 DEF Queued, Linked
<1>4. Works(t) /\ a \in Linked /\ a \in Acbs /\ acb[a].active
  BY <1>1, <1>2, Zenon DEF Works
<1>5. w \in Worker /\ w.pc # "work"
  BY DEF Worker
<1> HIDE DEF a, w
<1>6. /\ acb' \in [Acbs -> Request]
      /\ \A b \in Acbs : /\ acb'[b].active = acb[b].active /\ acb'[b].sub = acb[b].sub
                         /\ b # a => acb'[b].ret = acb[b].ret
      /\ acb'[a].ret = "done"
  <2>1. acb \in [Acbs -> Request] /\ a \in Acbs
    BY <1>2, <1>4
  <2>2. acb' = [acb EXCEPT ![a].ret = "done"]
    BY <1>1
  <2>3. Finished(acb, a, acb')
    BY <2>1, <2>2, DoneRequest, Zenon
  <2> QED
    BY <2>3, Zenon DEF Finished
<1>7. /\ thread' \in [Threads -> Worker]
      /\ \A u \in Threads : thread'[u] = IF u = t THEN w ELSE thread[u]
  BY <1>1, <1>2, <1>5, WorkerMoves
<1>8. ASSUME NEW b \in Linked PROVE Pending(b)'
  <2>1. Pending(b) /\ b \in Acbs
    BY <1>2, Zenon
  <2>2. \A c \in Linked : acb'[b].sub = acb'[c].sub => b = c
    BY <1>2, <1>6, <2>1, ZenonT(30) DEF Pending
  <2>3. acb'[b].ret # "free" /\ (~acb'[b].active => acb'[b].ret = "EINPROGRESS")
    <3>1. CASE b = a
      BY <1>4, <1>6, <3>1
    <3>2. CASE b # a
      BY <1>6, <2>1, <3>2, Zenon DEF Pending
    <3> QED
      BY <3>1, <3>2
  <2> QED
    BY <1>1, <1>3, <1>6, <2>1, <2>2, <2>3, Zenon DEF Pending
<1>9. ASSUME NEW u \in Threads, thread'[u].pc = "work" PROVE Works(u)'
  <2>1. u # t /\ thread'[u] = thread[u]
    BY <1>5, <1>7, <1>9, Zenon
  <2>2. Works(u) /\ thread[u].acb \in Acbs
    BY <1>2, <1>9, <2>1, Zenon DEF Works
  <2>3. thread[u].acb # a
    BY <1>1, <1>4, <1>9, <2>1, <2>2, Zenon DEF Works, a
  <2>4. \A v \in Threads : thread'[v].pc = "work" /\ thread'[v].acb = thread'[u].acb => v = u
    BY <1>5, <1>7, <2>1, <2>2, Zenon DEF Works
  <2> QED
    BY <1>3, <1>6, <2>1, <2>2, <2>3, <2>4, Zenon DEF Works
<1>10. RequestPart'
  BY <1>1, <1>3, <1>6, <1>7, <1>8, <1>9, Zenon DEF RequestPart
<1>11. MainPart'
  <2>1. \A b \in Acbs : /\ acb[b].active => acb'[b].active
                        /\ acb[b].ret = "done" => acb'[b].ret = "done"
    BY <1>6, Zenon
  <2> QED
    BY <1>1, <1>2, <2>1, MainFrame
<1> QED
  BY <1>1, <1>10, <1>11

(***************************************************************************)
(* Steps of the main thread.                                               *)
(***************************************************************************)

\* A request, which no worker has in its hands, is unlinked and gets its answer.
LEMMA UnlinkStep ==
  ASSUME RequestPart, NEW a \in Linked,
         \A t \in Threads : thread[t].pc = "work" => thread[t].acb # a,
         NEW x \in {"called", "cancelled"}, fate' = [fate EXCEPT ![acb[a].sub] = x],
         first_aio' = Remove(first_aio, a),
         acb' \in [Acbs -> Request], \A b \in Acbs : b # a => acb'[b] = acb[b],
         request_list' \in Seq(Acbs), IsInjective(request_list'), Queued' = Queued \ {a},
         UNCHANGED thread
  PROVE  /\ RequestPart' /\ Linked' = Linked \ {a}
         /\ Promise!Next
<1>1. /\ first_aio \in Seq(Acbs) /\ IsInjective(first_aio) /\ Linked \subseteq Acbs
      /\ Queued \subseteq Linked /\ thread \in [Threads -> Worker]
      /\ fate \in [Submissions -> {"new", "pending", "called", "cancelled"}]
      /\ \A b \in Linked : Pending(b)
      /\ \A t \in Threads : thread[t].pc = "work" => Works(t)
  BY ElementsOf DEF RequestPart, Linked
<1>2. /\ first_aio' \in Seq(Acbs) /\ IsInjective(first_aio')
      /\ Linked' = Linked \ {a}
  BY <1>1, Unlinks DEF Linked
<1>3. acb[a].sub \in Submissions /\ fate[acb[a].sub] = "pending"
  BY <1>1, Zenon DEF Pending
<1>4. /\ fate' \in [Submissions -> {"new", "pending", "called", "cancelled"}]
      /\ \A u \in Submissions : u # acb[a].sub => fate'[u] = fate[u]
  BY <1>1, <1>3
<1>5. ASSUME NEW b \in Linked' PROVE Pending(b)'
  <2>1. b \in Linked /\ b # a /\ Pending(b) /\ acb'[b] = acb[b]
    BY <1>1, <1>2
  <2>2. acb[b].sub # acb[a].sub
    BY <2>1, Zenon DEF Pending
  <2>3. fate'[acb'[b].sub] = "pending"
    BY <1>4, <2>1, <2>2, Zenon DEF Pending
  <2>4. b \in Queued' <=> b \in Queued
    BY <2>1
  <2>5. \A c \in Linked' : c \in Linked /\ acb'[c] = acb[c]
    BY <1>1, <1>2
  <2> QED
    BY <2>1, <2>3, <2>4, <2>5, Zenon DEF Pending
<1>6. ASSUME NEW t \in Threads, thread'[t].pc = "work" PROVE Works(t)'
  <2>1. Works(t) /\ thread[t].acb # a /\ thread[t].acb \in Acbs
    BY <1>1, <1>6, Zenon DEF Works
  <2>2. thread[t].acb \in Linked' /\ acb'[thread[t].acb] = acb[thread[t].acb]
    BY <1>2, <2>1 DEF Works
  <2> QED
    BY <2>1, <2>2, Zenon DEF Works
<1>7. Queued' \subseteq Linked'
  BY <1>1, <1>2
<1>8. RequestPart'
  BY <1>1, <1>2, <1>4, <1>5, <1>6, <1>7, Zenon DEF RequestPart
<1>9. Promise!Call(acb[a].sub) \/ Promise!Cancel(acb[a].sub)
  BY <1>3, Zenon DEF Promise!Call, Promise!Cancel
<1> QED
  BY <1>2, <1>3, <1>8, <1>9, Zenon DEF Promise!Next

\* Where the main thread may be, with these calls under way.
Fits(pc, then, stack) ==
  /\ pc = "loop" => stack = <<>>
  /\ pc = "callback" => stack # <<>> /\ ~InFlush(stack)
  /\ pc \in {"signal", "cancel"} => ~InFlush(stack)
  /\ pc \in {"bh", "check", "select"} => InFlush(stack)
  /\ pc \in {"scan", "create"} => IF then = "loop" THEN stack = <<>> ELSE InFlush(stack)

LEMMA MainFacts ==
  ASSUME MainPart
  PROVE  /\ main \in Main /\ main.stack \in Seq(Frame)
         /\ main.then \in {"loop", "select", "check"}
         /\ Nested(main.stack) /\ Fits(main.pc, main.then, main.stack)
         /\ Called(main.stack, Linked, acb)
<1>1. main \in Main
  BY DEF MainPart
<1>2. main.stack \in Seq(Frame) /\ main.then \in {"loop", "select", "check"}
  BY <1>1 DEF Main
<1> QED
  BY <1>1, <1>2, Zenon DEF MainPart, CallsNest, Fits

LEMMA MainGoes ==
  ASSUME main' \in Main, Nested(main'.stack), Fits(main'.pc, main'.then, main'.stack),
         Called(main'.stack, Linked', acb'),
         main'.pc = "cancel" => main'.acb \in Linked' /\ acb'[main'.acb].active
  PROVE  MainPart'
<1>1. CallsNest'
  BY Zenon DEF CallsNest, Fits
<1>2. Called(main.stack, Linked, acb)'
  OBVIOUS
<1> QED
  BY <1>1, <1>2, Zenon DEF MainPart

\* The fields of main that matter, after the moves of the main thread.
Moved(m, pc, then, stack) ==
  m \in Main /\ m.pc = pc /\ m.then = then /\ m.stack = stack

Places == {"loop", "signal", "create", "scan", "callback", "cancel", "bh", "check", "select"}
Thens == {"loop", "select", "check"}

LEMMA MainMoves ==
  ASSUME main \in Main
  PROVE  /\ \A pc \in Places : Moved([main EXCEPT !.pc = pc], pc, main.then, main.stack)
         /\ \A pc \in Places : Moved(GoTo(pc), pc, "loop", main.stack)
         /\ \A then \in Thens : Moved(Scan(then), "scan", then, main.stack)
         /\ \A then \in Thens : Moved([main EXCEPT !.pc = "create", !.then = then], "create", then, main.stack)
         /\ \A a \in Acbs : LET m == [main EXCEPT !.pc = "cancel", !.acb = a]
                            IN  Moved(m, "cancel", main.then, main.stack) /\ m.acb = a
         /\ Moved([main EXCEPT !.scan = @ + 1], main.pc, main.then, main.stack)
         /\ Moved(Return, Back(main.stack), main.then, main.stack)
<1>1. Back(main.stack) \in Places
  BY DEF Back, Places
<1>2. \A pc \in Places : Moved([main EXCEPT !.pc = pc], pc, main.then, main.stack)
  BY DEF Main, Places, Moved
<1>3. ASSUME NEW pc \in Places, NEW then \in Thens
      PROVE  Moved([main EXCEPT !.pc = pc, !.scan = 1, !.result = FALSE, !.then = then],
                   pc, then, main.stack)
  <2> DEFINE N == Nat \ {0}
             m == [main EXCEPT !.pc = pc, !.scan = 1, !.result = FALSE, !.then = then]
  <2>1. 1 \in N
    OBVIOUS
  <2>2. Main = [pc : Places, acb : Acbs \cup {None}, scan : N, result : BOOLEAN,
                then : Thens, stack : Seq(Frame)]
    BY DEF Main, Places, Thens
  <2> HIDE DEF N
  <2>3. m \in Main
    BY <2>1, <2>2, ZenonT(30)
  <2>4. m.pc = pc /\ m.then = then /\ m.stack = main.stack
    BY <2>2
  <2> QED
    BY <2>3, <2>4, Zenon DEF Moved
<1>4. /\ \A pc \in Places : Moved(GoTo(pc), pc, "loop", main.stack)
      /\ \A then \in Thens : Moved(Scan(then), "scan", then, main.stack)
  <2>1. "loop" \in Thens /\ "scan" \in Places
    BY DEF Places, Thens
  <2> QED
    BY <1>3, <2>1, Zenon DEF GoTo, Scan
<1>5. \A then \in Thens : Moved([main EXCEPT !.pc = "create", !.then = then], "create", then, main.stack)
  BY Zenon DEF Main, Thens, Moved
<1>6. \A a \in Acbs : LET m == [main EXCEPT !.pc = "cancel", !.acb = a]
                      IN  Moved(m, "cancel", main.then, main.stack) /\ m.acb = a
  BY Zenon DEF Main, Moved
<1>7. Moved([main EXCEPT !.scan = @ + 1], main.pc, main.then, main.stack)
  BY DEF Main, Moved
<1>8. Moved(Return, Back(main.stack), main.then, main.stack)
  BY <1>1, Zenon DEF Main, Places, Moved, Return
<1> QED
  BY <1>2, <1>3, <1>4, <1>5, <1>6, <1>7, <1>8, Zenon

\* The steps of the main thread that leave the requests and the calls alone: it goes to
\* another place where these calls may be under way.
QuietMain ==
  \/ Signal \/ LoopRunsBH \/ MainCreates \/ PassesOver \/ ProcessEnds \/ FlushPolls
  \/ ReadPipe("loop", "loop") \/ ReadPipe("select", "check")

LEMMA QuietMainMoves ==
  ASSUME MainPart, QuietMain
  PROVE  \E pc \in Places \ {"cancel"}, then \in Thens :
            Moved(main', pc, then, main.stack) /\ Fits(pc, then, main.stack)
<1>1. main \in Main /\ main.then \in Thens /\ Fits(main.pc, main.then, main.stack)
  BY MainFacts DEF Thens
<1>2. "loop" \in Thens /\ "select" \in Thens /\ "check" \in Thens
  BY DEF Thens
<1>3. /\ \A pc \in Thens \cup {"scan", "create", "callback"} : pc \in Places \ {"cancel"}
      /\ Back(main.stack) \in Places \ {"cancel"}
  BY DEF Places, Thens, Back
<1> DEFINE Under(then) == IF then = "loop" THEN main.stack = <<>> ELSE InFlush(main.stack)
<1>4. ASSUME NEW pc \in Thens, main' = GoTo(pc), Under(pc)
      PROVE  Moved(main', pc, "loop", main.stack) /\ Fits(pc, "loop", main.stack)
  <2>1. Moved(main', pc, "loop", main.stack)
    BY <1>1, <1>3, <1>4, MainMoves, Zenon
  <2>2. Fits(pc, "loop", main.stack)
    BY <1>4 DEF Fits, Thens
  <2> QED
    BY <2>1, <2>2
<1>5. ASSUME NEW then \in Thens, Under(then),
             main' = Scan(then) \/ main' = [main EXCEPT !.pc = "create", !.then = then]
      PROVE  \E pc \in {"scan", "create"} :
                Moved(main', pc, then, main.stack) /\ Fits(pc, then, main.stack)
  <2>1. PICK pc \in {"scan", "create"} : Moved(main', pc, then, main.stack)
    BY <1>1, <1>5, MainMoves, Zenon
  <2>2. Fits(pc, then, main.stack)
    BY <1>5 DEF Fits
  <2> QED
    BY <2>1, <2>2
<1>6. /\ main.pc = "loop" => Under("loop")
      /\ main.pc \in {"bh", "select"} => Under("check") /\ Under("select")
      /\ main.pc \in {"scan", "create"} => Under(main.then)
      /\ Under("select") => Under("check")
  BY <1>1, Zenon DEF Fits
<1> HIDE DEF Under
<1>7. ASSUME NEW pc \in Thens, main' = GoTo(pc), Under(pc)
      PROVE  \E x \in Places \ {"cancel"}, then \in Thens :
                Moved(main', x, then, main.stack) /\ Fits(x, then, main.stack)
  BY <1>2, <1>3, <1>4, <1>7
<1>8. ASSUME NEW then \in Thens, Under(then),
             main' = Scan(then) \/ main' = [main EXCEPT !.pc = "create", !.then = then]
      PROVE  \E pc \in Places \ {"cancel"}, x \in Thens :
                Moved(main', pc, x, main.stack) /\ Fits(pc, x, main.stack)
  BY <1>3, <1>5, <1>8, Zenon
<1>9. ASSUME NEW then \in Thens, RunBH(then)
      PROVE  main' = GoTo(then) \/ main' = [main EXCEPT !.pc = "create", !.then = then]
  BY <1>9 DEF RunBH
<1>10. CASE Signal
  <2>1. main.pc = "signal" /\ main' = Return
    BY <1>10, Zenon DEF Signal
  <2>2. Moved(main', Back(main.stack), main.then, main.stack)
    BY <1>1, <2>1, MainMoves, Zenon
  <2>3. Fits(Back(main.stack), main.then, main.stack)
    BY <1>1, <2>1 DEF Fits, Back
  <2> QED
    BY <1>1, <1>3, <2>2, <2>3, Zenon
<1>11. CASE LoopRunsBH
  <2>1. main.pc = "loop" /\ RunBH("loop")
    BY <1>11, Zenon DEF LoopRunsBH
  <2> QED
    BY <1>2, <1>6, <1>7, <1>8, <1>9, <2>1, Zenon
<1>12. CASE MainCreates
  <2>1. main.pc = "create" /\ main' = GoTo(main.then)
    BY <1>12, Zenon DEF MainCreates
  <2> QED
    BY <1>1, <1>2, <1>6, <1>7, <2>1, Zenon
<1>13. CASE PassesOver
  <2>1. main.pc = "scan" /\ main' = [main EXCEPT !.scan = @ + 1]
    BY <1>13, Zenon DEF PassesOver
  <2>2. Moved(main', "scan", main.then, main.stack)
    BY <1>1, <2>1, MainMoves, Zenon
  <2> QED
    BY <1>1, <1>3, <2>1, <2>2
<1>14. CASE ProcessEnds
  <2>1. main.pc = "scan" /\ \/ main' = GoTo(main.then)
                            \/ main.then = "select" /\ main' = GoTo("check")
    BY <1>14 DEF ProcessEnds
  <2> QED
    BY <1>1, <1>2, <1>6, <1>7, <2>1, Zenon
<1>15. CASE FlushPolls
  <2>1. main.pc = "bh" /\ (RunBH("check") \/ main' = Scan("select"))
    BY <1>15, Zenon DEF FlushPolls
  <2> QED
    BY <1>2, <1>6, <1>7, <1>8, <1>9, <2>1, Zenon
<1>16. CASE ReadPipe("loop", "loop")
  BY <1>2, <1>6, <1>8, <1>16, Zenon DEF ReadPipe
<1>17. CASE ReadPipe("select", "check")
  BY <1>2, <1>6, <1>8, <1>17, Zenon DEF ReadPipe
<1> QED
  BY <1>10, <1>11, <1>12, <1>13, <1>14, <1>15, <1>16, <1>17 DEF QuietMain

LEMMA QuietMainStep ==
  ASSUME RequestPart, MainPart, QuietMain
  PROVE  RequestPart' /\ MainPart' /\ UNCHANGED fate
<1>1. UNCHANGED <<acb, request_list, first_aio, fate>>
  BY Zenon DEF QuietMain, Signal, LoopRunsBH, MainCreates, PassesOver, ProcessEnds, FlushPolls, ReadPipe, RunBH
<1>2. thread \in [Threads -> Worker]
  BY DEF RequestPart
<1>3. \/ UNCHANGED thread
      \/ \E t, x : x \in {"woken", "created"} /\ thread' = [thread EXCEPT ![t].pc = x]
  <2>1. CASE Signal
    BY <2>1 DEF Signal
  <2>2. CASE MainCreates
    BY <2>2, Zenon DEF MainCreates
  <2>3. CASE ~Signal /\ ~MainCreates
    BY <2>3, Zenon DEF QuietMain, LoopRunsBH, PassesOver, ProcessEnds, FlushPolls, ReadPipe, RunBH
  <2> QED
    BY <2>1, <2>2, <2>3
<1>4. /\ thread' \in [Threads -> Worker]
      /\ \A u \in Threads : thread'[u].pc = "work" =>
            thread[u].pc = "work" /\ thread'[u].acb = thread[u].acb
  <2>1. ASSUME NEW t, NEW x \in {"woken", "created"}, thread' = [thread EXCEPT ![t].pc = x]
        PROVE  <1>4!1 /\ <1>4!2
    <3>1. x \in Stages /\ x # "work"
      BY DEF Stages
    <3>2. Staged(thread, t, x, thread')
      BY <1>2, <2>1, <3>1, StageMoves, Zenon
    <3> QED
      BY <3>1, <3>2, Zenon DEF Staged
  <2> QED
    BY <1>2, <1>3, <2>1, Zenon
<1>5. RequestPart'
  BY <1>1, <1>4, RequestFrame
<1>6. PICK pc \in Places \ {"cancel"}, then \in Thens :
         Moved(main', pc, then, main.stack) /\ Fits(pc, then, main.stack)
  BY QuietMainMoves
<1>7. main' \in Main /\ main'.pc = pc /\ main'.then = then /\ main'.stack = main.stack
  BY <1>6, Zenon DEF Moved
<1>8. Linked' = Linked /\ acb' = acb
  BY <1>1 DEF Linked
<1>9. Nested(main'.stack) /\ Called(main'.stack, Linked', acb')
  BY <1>7, <1>8, MainFacts
<1>10. Fits(main'.pc, main'.then, main'.stack) /\ main'.pc # "cancel"
  BY <1>6, <1>7
<1>11. MainPart'
  BY <1>7, <1>9, <1>10, MainGoes
<1> QED
  BY <1>1, <1>5, <1>11

\* A flush is called, goes on and returns.
LEMMA FlushStep ==
  ASSUME RequestPart, MainPart, FlushBegins \/ FlushChecks
  PROVE  RequestPart' /\ MainPart' /\ UNCHANGED fate
<1>1. UNCHANGED <<acb, request_list, first_aio, fate, thread>>
  BY Zenon DEF FlushBegins, FlushChecks
<1>2. RequestPart'
  <2>1. thread' \in [Threads -> Worker] /\ thread' = thread
    BY <1>1 DEF RequestPart
  <2> QED
    BY <1>1, <2>1, RequestFrame
<1>3. Linked' = Linked /\ acb' = acb
  BY <1>1 DEF Linked
<1>4. /\ main \in Main /\ main.stack \in Seq(Frame) /\ Nested(main.stack)
      /\ Fits(main.pc, main.then, main.stack) /\ Called(main.stack, Linked, acb)
  BY MainFacts
<1>5. CASE FlushBegins
  <2> DEFINE f == [acb |-> None, then |-> "check"]
  <2>1. f \in Frame /\ f.acb = None
    BY DEF Frame
  <2>2. Append(main.stack, f) \in Seq(Frame) /\ InFlush(Append(main.stack, f))
    BY <1>4, <2>1, Push
  <2>3. /\ main' \in Main /\ main'.pc = "bh" /\ main'.stack = Append(main.stack, f)
    BY <1>4, <1>5, <2>2, Zenon DEF FlushBegins, Main
  <2>4. ~InFlush(main.stack)
    BY <1>4, <1>5 DEF FlushBegins, Outside, Fits, InFlush
  <2> HIDE DEF f
  <2>5. Nested(main'.stack)
    BY <1>4, <2>1, <2>3, <2>4, PushNests
  <2>6. Called(main'.stack, Linked', acb')
    BY <1>3, <1>4, <2>1, <2>3, CalledPush
  <2>7. Fits(main'.pc, main'.then, main'.stack) /\ main'.pc # "cancel"
    BY <2>2, <2>3 DEF Fits
  <2>8. MainPart'
    BY <2>3, <2>5, <2>6, <2>7, MainGoes
  <2> QED
    BY <1>1, <1>2, <2>8
<1>6. CASE FlushChecks
  <2>1. main.pc = "check" /\ InFlush(main.stack) /\ main.stack # <<>>
    BY <1>4, <1>6 DEF FlushChecks, Fits, InFlush
  <2>2. CASE main' = [main EXCEPT !.pc = "bh"]
    <3>1. Moved(main', "bh", main.then, main.stack)
      BY <1>4, <2>2, MainMoves, Zenon DEF Places
    <3>2. main' \in Main /\ main'.pc = "bh" /\ main'.stack = main.stack
      BY <3>1 DEF Moved
    <3>3. Fits(main'.pc, main'.then, main'.stack) /\ main'.pc # "cancel"
      BY <2>1, <3>2 DEF Fits
    <3>4. MainPart'
      BY <1>3, <1>4, <3>2, <3>3, MainGoes
    <3> QED
      BY <1>1, <1>2, <3>4
  <2>3. CASE main' = [main EXCEPT !.pc = Back(Front(main.stack)), !.stack = Front(@)]
    <3> DEFINE st == Front(main.stack)
    <3>1. st \in Seq(Frame)
      BY <1>4, <2>1, Pop
    <3>2. Nested(st) /\ ~InFlush(st)
      BY <1>4, <2>1, PopNests
    <3>3. Called(st, Linked, acb)
      BY <1>4, <2>1, CalledPop
    <3> HIDE DEF st
    <3>4. Back(st) \in {"loop", "callback"}
      BY DEF Back
    <3>5. main' = [main EXCEPT !.pc = Back(st), !.stack = st]
      BY <2>3 DEF st
    <3>6. main' \in Main /\ main'.pc = Back(st) /\ main'.stack = st
      BY <1>4, <3>1, <3>4, <3>5, Zenon DEF Main
    <3>7. Fits(main'.pc, main'.then, main'.stack) /\ main'.pc # "cancel"
      BY <3>2, <3>6 DEF Fits, Back
    <3>8. MainPart'
      BY <1>3, <3>2, <3>3, <3>6, <3>7, MainGoes
    <3> QED
      BY <1>1, <1>2, <3>8
  <2> QED
    BY <1>6, <2>2, <2>3 DEF FlushChecks
<1> QED
  BY <1>5, <1>6

\* A control block gets another content.
LEMMA BlockMoves ==
  ASSUME NEW f \in [Acbs -> Request], NEW a, NEW r \in Request, NEW g, g = [f EXCEPT ![a] = r]
  PROVE  /\ g \in [Acbs -> Request]
         /\ \A b \in Acbs : g[b] = IF b = a THEN r ELSE f[b]
BY Zenon

LEMMA FreeRequest == Free \in Request /\ Free.ret = "free"
BY PosixAioConstants DEF Free, Request

\* A request that no worker has taken is cancelled at once; for another one
\* paio_cancel waits.
LEMMA CancelStep ==
  ASSUME RequestPart, MainPart, NEW a \in Acbs, Cancel(a)
  PROVE  RequestPart' /\ MainPart' /\ (Promise!Next \/ UNCHANGED fate)
<1>1. /\ acb \in [Acbs -> Request] /\ first_aio \in Seq(Acbs) /\ request_list \in Seq(Acbs)
      /\ IsInjective(request_list) /\ \A b \in Linked : Pending(b)
      /\ \A t \in Threads : thread[t].pc = "work" => Works(t)
      /\ thread \in [Threads -> Worker]
  BY DEF RequestPart
<1>2. a \in Linked
  BY <1>1, Zenon DEF Cancel, Linked
<1>3. /\ main \in Main /\ main.stack \in Seq(Frame) /\ Nested(main.stack)
      /\ Fits(main.pc, main.then, main.stack) /\ Called(main.stack, Linked, acb)
      /\ main.pc \in {"loop", "callback"}
  BY MainFacts, Zenon DEF Cancel, Outside
<1>4. thread' = thread
  BY Zenon DEF Cancel
<1>5. CASE ~acb[a].active
  <2>1. /\ request_list' = Remove(request_list, a)
        /\ first_aio' = Remove(first_aio, a)
        /\ fate' = [fate EXCEPT ![acb[a].sub] = "cancelled"]
        /\ acb' = [acb EXCEPT ![a] = Free] /\ main' = main
    BY <1>5, Zenon DEF Cancel
  <2>2. a \in Queued
    BY <1>1, <1>2, <1>5, Zenon DEF Pending
  <2>3. request_list' \in Seq(Acbs) /\ IsInjective(request_list') /\ Queued' = Queued \ {a}
    BY <1>1, <2>1, <2>2, Unlinks DEF Queued
  <2>4. acb' \in [Acbs -> Request] /\ \A b \in Acbs : b # a => acb'[b] = acb[b]
    BY <1>1, <2>1, FreeRequest, BlockMoves
  <2>5. \A t \in Threads : thread[t].pc = "work" => thread[t].acb # a
    BY <1>1, <1>5, Zenon DEF Works
  <2>6. RequestPart' /\ Linked' = Linked \ {a} /\ Promise!Next
    BY <1>2, <1>4, <2>1, <2>3, <2>4, <2>5, UnlinkStep, Zenon
  <2>7. \A b \in Acbs \ Linked : b \notin Linked' /\ (acb[b].ret = "done" => acb'[b].ret = "done")
    BY <1>2, <2>4, <2>6
  <2>8. Called(main.stack, Linked', acb')
    BY <1>3, <2>7, CalledFrame
  <2>9. MainPart'
    BY <1>3, <2>1, <2>8, MainGoes
  <2> QED
    BY <2>6, <2>9
<1>6. CASE acb[a].active
  <2>1. /\ main' = [main EXCEPT !.pc = "cancel", !.acb = a]
        /\ UNCHANGED <<acb, request_list, first_aio, fate>>
    BY <1>6, Zenon DEF Cancel
  <2>2. RequestPart'
    BY <1>1, <1>4, <2>1, RequestFrame
  <2>3. Moved(main', "cancel", main.then, main.stack) /\ main'.acb = a
    BY <1>3, <2>1, MainMoves, Zenon
  <2>4. main' \in Main /\ main'.pc = "cancel" /\ main'.stack = main.stack
    BY <2>3 DEF Moved
  <2>5. Linked' = Linked /\ acb' = acb
    BY <2>1 DEF Linked
  <2>6. Fits(main'.pc, main'.then, main'.stack)
    BY <1>3, <2>4 DEF Fits, InFlush
  <2>7. MainPart'
    BY <1>2, <1>3, <1>6, <2>3, <2>4, <2>5, <2>6, MainGoes
  <2> QED
    BY <2>1, <2>2, <2>7
<1> QED
  BY <1>5, <1>6

\* The worker has done the request for which paio_cancel waits.
LEMMA CancelWaitedStep ==
  ASSUME RequestPart, MainPart, CancelWaited
  PROVE  RequestPart' /\ MainPart' /\ Promise!Next
<1> DEFINE a == main.acb
<1>1. /\ main.pc = "cancel" /\ acb[a].ret # "EINPROGRESS"
      /\ first_aio' = Remove(first_aio, a)
      /\ fate' = [fate EXCEPT ![acb[a].sub] = "cancelled"]
      /\ acb' = [acb EXCEPT ![a] = Free]
      /\ main' = Return
      /\ UNCHANGED <<request_list, thread>>
  BY Zenon DEF CancelWaited
<1>2. /\ acb \in [Acbs -> Request] /\ request_list \in Seq(Acbs)
      /\ IsInjective(request_list) /\ \A b \in Linked : Pending(b)
      /\ \A t \in Threads : thread[t].pc = "work" => Works(t)
  BY DEF RequestPart
<1>3. a \in Linked /\ acb[a].active
  BY <1>1, Zenon DEF MainPart
<1>4. /\ main \in Main /\ main.stack \in Seq(Frame) /\ Nested(main.stack)
      /\ Fits(main.pc, main.then, main.stack) /\ Called(main.stack, Linked, acb)
  BY MainFacts
<1>5. Moved(main', Back(main.stack), main.then, main.stack)
  BY <1>1, <1>4, MainMoves, Zenon
<1> HIDE DEF a
<1>6. a \notin Queued
  BY <1>2, <1>3, Zenon DEF Pending
<1>7. request_list' \in Seq(Acbs) /\ IsInjective(request_list') /\ Queued' = Queued \ {a}
  <2>1. Queued' = Queued
    BY <1>1 DEF Queued
  <2> QED
    BY <1>1, <1>2, <1>6, <2>1
<1>8. acb' \in [Acbs -> Request] /\ \A b \in Acbs : b # a => acb'[b] = acb[b]
  BY <1>1, <1>2, FreeRequest, BlockMoves, Zenon
<1>9. \A t \in Threads : thread[t].pc = "work" => thread[t].acb # a
  BY <1>1, <1>2, Zenon DEF Works
<1>10. RequestPart' /\ Linked' = Linked \ {a} /\ Promise!Next
  BY <1>1, <1>3, <1>7, <1>8, <1>9, UnlinkStep, Zenon
<1>11. \A b \in Acbs \ Linked : b \notin Linked' /\ (acb[b].ret = "done" => acb'[b].ret = "done")
  BY <1>3, <1>8, <1>10
<1>12. Called(main.stack, Linked', acb')
  BY <1>4, <1>11, CalledFrame
<1>13. main' \in Main /\ main'.pc = Back(main.stack) /\ main'.stack = main.stack
  BY <1>5 DEF Moved
<1>14. Fits(main'.pc, main'.then, main'.stack) /\ main'.pc # "cancel"
  BY <1>1, <1>4, <1>13 DEF Fits, Back
<1>15. MainPart'
  BY <1>4, <1>12, <1>13, <1>14, MainGoes
<1> QED
  BY <1>10, <1>15

\* A call begins or returns.
LEMMA StackMoves ==
  ASSUME NEW m \in Main, NEW st \in Seq(Frame)
  PROVE  /\ Moved([m EXCEPT !.stack = st], m.pc, m.then, st)
         /\ Moved([m EXCEPT !.result = TRUE, !.stack = st], m.pc, m.then, st)
BY Zenon DEF Moved, Main

\* posix_aio_process_queue unlinks a request that is done and calls its callback.
LEMMA CallsBackStep ==
  ASSUME RequestPart, MainPart, CallsBack
  PROVE  RequestPart' /\ MainPart' /\ Promise!Next
<1> DEFINE a == first_aio[main.scan]
           f == [acb |-> a, then |-> main.then]
<1>1. /\ main.pc = "scan" /\ main.scan <= Len(first_aio)
      /\ acb[a].ret # "EINPROGRESS" /\ first_aio' = Remove(first_aio, a)
      /\ fate' = [fate EXCEPT ![acb[a].sub] = "called"]
      /\ main' = [GoTo("callback") EXCEPT !.stack = Append(@, f)]
      /\ UNCHANGED <<acb, request_list, thread>>
  BY Zenon DEF CallsBack
<1>2. /\ acb \in [Acbs -> Request] /\ request_list \in Seq(Acbs) /\ first_aio \in Seq(Acbs)
      /\ IsInjective(request_list) /\ \A b \in Linked : Pending(b)
      /\ \A t \in Threads : thread[t].pc = "work" => Works(t)
  BY DEF RequestPart
<1>3. /\ main \in Main /\ main.stack \in Seq(Frame) /\ Nested(main.stack)
      /\ Fits(main.pc, main.then, main.stack) /\ Called(main.stack, Linked, acb)
      /\ main.then \in {"loop", "select", "check"}
  BY MainFacts
<1>4. a \in Linked /\ a \in Acbs /\ a # None
  <2>1. main.scan \in 1 .. Len(first_aio)
    BY <1>1, <1>2, <1>3 DEF Main
  <2>2. a \in Linked
    BY <1>2, <2>1 DEF Linked, Range
  <2> QED
    BY <1>2, <2>1, <2>2, PosixAioConstants
<1>5. f \in Frame /\ f.acb = a /\ f.then = main.then
  BY <1>3, <1>4 DEF Frame
<1>6. Append(main.stack, f) \in Seq(Frame) /\ ~InFlush(Append(main.stack, f)) /\ Append(main.stack, f) # <<>>
  BY <1>3, <1>4, <1>5, Push
<1> HIDE DEF a, f
<1>7. acb[a].active /\ acb[a].ret = "done"
  <2>1. Pending(a) /\ acb[a].ret \in {"free", "EINPROGRESS", "done"}
    BY <1>2, <1>4 DEF Request
  <2> QED
    BY <1>1, <2>1 DEF Pending
<1>8. Queued' = Queued \ {a} /\ request_list' = request_list
  <2>1. a \notin Queued /\ Queued' = Queued
    BY <1>1, <1>2, <1>4, <1>7 DEF Pending, Queued
  <2> QED
    BY <1>1, <2>1
<1>9. \A t \in Threads : thread[t].pc = "work" => thread[t].acb # a
  BY <1>1, <1>2, Zenon DEF Works
<1>10. RequestPart' /\ Linked' = Linked \ {a} /\ Promise!Next
  BY <1>1, <1>2, <1>4, <1>8, <1>9, UnlinkStep, Zenon
<1>11. main' \in Main /\ main'.pc = "callback" /\ main'.stack = Append(main.stack, f)
  <2> DEFINE m == GoTo("callback")
  <2>1. m \in Main /\ m.pc = "callback" /\ m.stack = main.stack
    BY <1>3, MainMoves, Zenon DEF Places, Moved
  <2> HIDE DEF m
  <2>2. main' = [m EXCEPT !.stack = Append(main.stack, f)]
    BY <1>1, <2>1, Zenon DEF m
  <2> QED
    BY <1>6, <2>1, <2>2, StackMoves, Zenon DEF Moved
<1>12. Nested(main'.stack)
  <2>1. IF main.then = "loop" THEN main.stack = <<>> ELSE InFlush(main.stack)
    BY <1>1, <1>3 DEF Fits
  <2> QED
    BY <1>3, <1>4, <1>5, <1>11, <2>1, PushNests
<1>13. Called(main'.stack, Linked', acb')
  <2>1. Linked' \subseteq Linked /\ a \notin Linked'
    BY <1>10
  <2>2. Called(Append(main.stack, f), Linked', acb)
    BY <1>3, <1>4, <1>5, <1>7, <2>1, CalledPush
  <2> QED
    BY <1>1, <1>11, <2>2, Zenon
<1>14. Fits(main'.pc, main'.then, main'.stack) /\ main'.pc # "cancel"
  BY <1>6, <1>11 DEF Fits
<1>15. MainPart'
  BY <1>11, <1>12, <1>13, <1>14, MainGoes
<1> QED
  BY <1>10, <1>15

\* The callback returns and its request is released.
LEMMA CallbackReturnsStep ==
  ASSUME RequestPart, MainPart, CallbackReturns
  PROVE  RequestPart' /\ MainPart' /\ UNCHANGED fate
<1> DEFINE st == Front(main.stack)
           a == Last(main.stack).acb
           then == Last(main.stack).then
<1>1. /\ main.pc = "callback" /\ acb' = [acb EXCEPT ![a] = Free]
      /\ main' = [Scan(then) EXCEPT !.result = TRUE, !.stack = Front(@)]
      /\ UNCHANGED <<request_list, first_aio, thread, fate>>
  BY Zenon DEF CallbackReturns
<1>2. /\ main \in Main /\ main.stack \in Seq(Frame) /\ Nested(main.stack)
      /\ Fits(main.pc, main.then, main.stack) /\ Called(main.stack, Linked, acb)
  BY MainFacts
<1>3. main.stack # <<>> /\ ~InFlush(main.stack)
  BY <1>1, <1>2, Zenon DEF Fits
<1>4. /\ st \in Seq(Frame) /\ Last(main.stack) \in Frame
      /\ Last(main.stack) = main.stack[Len(main.stack)] /\ Len(main.stack) \in Nat \ {0}
  BY <1>2, <1>3, Pop
<1>5. /\ Nested(st)
      /\ IF then = "loop" THEN st = <<>> ELSE InFlush(st)
  BY <1>2, <1>3, PopNests
<1>6. a # None /\ a \in Acbs /\ then \in {"loop", "select", "check"}
  BY <1>3, <1>4 DEF InFlush, Frame
<1>7. a \notin Linked
  BY <1>2, <1>4, <1>6 DEF Called
<1>8. acb \in [Acbs -> Request] /\ Linked \subseteq Acbs
  BY ElementsOf DEF RequestPart, Linked
<1>9. acb' \in [Acbs -> Request] /\ \A b \in Acbs : b # a => acb'[b] = acb[b]
  BY <1>1, <1>8, FreeRequest, BlockMoves, Zenon
<1>10. Called(st, Linked, acb')
  <2>1. \A b \in Acbs : (Last(main.stack).acb = None \/ b # Last(main.stack).acb) => acb'[b] = acb[b]
    BY <1>6, <1>9, Zenon
  <2> QED
    BY <1>2, <1>3, <2>1, CalledPop, Zenon
<1>11. main' \in Main /\ main'.pc = "scan" /\ main'.then = then /\ main'.stack = st
  <2> DEFINE m == Scan(then)
  <2>1. m \in Main /\ m.pc = "scan" /\ m.then = then /\ m.stack = main.stack
    BY <1>2, <1>6, MainMoves, Zenon DEF Thens, Moved
  <2> HIDE DEF m
  <2>2. main' = [m EXCEPT !.result = TRUE, !.stack = st]
    BY <1>1, <2>1, Zenon DEF m
  <2> QED
    BY <1>4, <2>1, <2>2, StackMoves, Zenon DEF Moved
<1> HIDE DEF st, a, then
<1>12. Linked' = Linked /\ Queued' = Queued
  BY <1>1 DEF Linked, Queued
<1>13. Fits(main'.pc, main'.then, main'.stack) /\ main'.pc # "cancel"
  BY <1>5, <1>11 DEF Fits
<1>14. MainPart'
  BY <1>5, <1>10, <1>11, <1>12, <1>13, MainGoes
<1>15. \A b \in Linked : acb'[b] = acb[b]
  BY <1>7, <1>8, <1>9
<1>16. ASSUME NEW b \in Linked PROVE Pending(b)'
  <2>1. Pending(b) /\ acb'[b] = acb[b] /\ fate' = fate
    BY <1>1, <1>15, Zenon DEF RequestPart
  <2> QED
    BY <1>12, <1>15, <2>1, Zenon DEF Pending
<1>17. ASSUME NEW t \in Threads, thread[t].pc = "work" PROVE Works(t)'
  <2>1. Works(t) /\ thread' = thread
    BY <1>1, <1>17, Zenon DEF RequestPart
  <2> QED
    BY <1>12, <1>15, <2>1, Zenon DEF Works
<1>18. RequestPart'
  BY <1>1, <1>9, <1>12, <1>16, <1>17, Zenon DEF RequestPart
<1> QED
  BY <1>1, <1>14, <1>18

\* The next submission is one that has not been made.
LEMMA NextIsNew ==
  ASSUME NextSubmission # {}
  PROVE  Min(NextSubmission) \in NextSubmission
<1>1. NextSubmission \subseteq Nat
  BY PosixAioConstants DEF NextSubmission, Submissions
<1>2. PICK n \in NextSubmission : \A m \in NextSubmission : <<m, n>> \notin OpToRel(<, Nat)
  BY <1>1, WFMin, NatLessThanWellFounded, Zenon
<1>3. \A m \in NextSubmission : ~(m < n)
  BY <1>1, <1>2, ZenonT(30) DEF OpToRel
<1>4. \A m \in NextSubmission : n <= m
  BY <1>1, <1>3
<1> QED
  BY <1>4, Zenon DEF Min

\* A free control block is linked, and waits in request_list.
LEMMA SubmitStep ==
  ASSUME RequestPart, MainPart, NEW a \in Acbs, Submit(a)
  PROVE  RequestPart' /\ MainPart' /\ Promise!Next
<1> DEFINE s == Min(NextSubmission)
           r == [ret |-> "EINPROGRESS", active |-> FALSE, sub |-> s]
<1>1. /\ main.pc \in {"loop", "callback"} /\ acb[a].ret = "free" /\ NextSubmission # {}
      /\ acb' = [acb EXCEPT ![a] = r]
      /\ fate' = [fate EXCEPT ![s] = "pending"]
      /\ first_aio' = <<a>> \o first_aio /\ request_list' = Append(request_list, a)
      /\ main' = [main EXCEPT !.pc = "signal"] /\ thread' = thread
  BY Zenon DEF Submit, Outside
<1>2. s \in Submissions /\ fate[s] = "new"
  BY <1>1, NextIsNew DEF NextSubmission
<1>3. /\ r \in Request /\ r.ret = "EINPROGRESS" /\ ~r.active /\ r.sub = s
  BY <1>2, PosixAioConstants DEF Request, Submissions
<1> HIDE DEF s, r
<1>4. /\ acb \in [Acbs -> Request] /\ thread \in [Threads -> Worker]
      /\ fate \in [Submissions -> {"new", "pending", "called", "cancelled"}]
      /\ first_aio \in Seq(Acbs) /\ request_list \in Seq(Acbs)
      /\ IsInjective(request_list) /\ IsInjective(first_aio) /\ Queued \subseteq Linked
      /\ \A b \in Linked : Pending(b) /\ b \in Acbs
      /\ \A t \in Threads : thread[t].pc = "work" => Works(t)
  BY ElementsOf DEF RequestPart, Linked
<1>5. a \notin Linked /\ a \notin Queued
  <2>1. a \notin Linked
    BY <1>1, <1>4, Zenon DEF Pending
  <2> QED
    BY <1>4, <2>1
<1>6. first_aio' \in Seq(Acbs) /\ IsInjective(first_aio') /\ Linked' = Linked \cup {a}
  BY <1>1, <1>4, <1>5, Links DEF Linked
<1>7. request_list' \in Seq(Acbs) /\ IsInjective(request_list') /\ Queued' = Queued \cup {a}
  BY <1>1, <1>4, <1>5, Links DEF Queued
<1>8. acb' \in [Acbs -> Request] /\ \A b \in Acbs : acb'[b] = IF b = a THEN r ELSE acb[b]
  BY <1>1, <1>3, <1>4, BlockMoves
<1>9. /\ fate' \in [Submissions -> {"new", "pending", "called", "cancelled"}]
      /\ \A u \in Submissions : fate'[u] = IF u = s THEN "pending" ELSE fate[u]
  BY <1>1, <1>2, <1>4
<1>10. \A b \in Linked : b # a /\ acb'[b] = acb[b] /\ acb[b].sub # s
  <2>1. \A b \in Linked : b # a /\ b \in Acbs /\ fate[acb[b].sub] = "pending"
    BY <1>4, <1>5, Zenon DEF Pending
  <2> QED
    BY <1>2, <1>8, <2>1
<1>11. acb'[a] = r
  BY <1>8
<1>12. ASSUME NEW b \in Linked' PROVE Pending(b)'
  <2>1. CASE b = a
    <3>1. \A c \in Linked' : acb'[c].sub = s => c = a
      BY <1>6, <1>10
    <3> QED
      BY <1>2, <1>3, <1>7, <1>9, <1>11, <2>1, <3>1 DEF Pending
  <2>2. CASE b # a
    <3>1. b \in Linked /\ Pending(b) /\ acb'[b] = acb[b] /\ acb[b].sub # s
      BY <1>4, <1>6, <1>10, <2>2
    <3>2. \A c \in Linked' : acb'[c].sub = acb[b].sub => b = c
      BY <1>3, <1>6, <1>10, <1>11, <3>1, Zenon DEF Pending
    <3>3. b \in Queued' <=> b \in Queued
      BY <1>7, <2>2
    <3>4. fate'[acb[b].sub] = "pending"
      BY <1>9, <3>1, Zenon DEF Pending
    <3> QED
      BY <3>1, <3>2, <3>3, <3>4, Zenon DEF Pending
  <2> QED
    BY <2>1, <2>2
<1>13. ASSUME NEW t \in Threads, thread[t].pc = "work" PROVE Works(t)'
  <2>1. Works(t) /\ thread[t].acb \in Linked
    BY <1>4, <1>13, Zenon DEF Works
  <2>2. acb'[thread[t].acb] = acb[thread[t].acb] /\ thread[t].acb \in Linked'
    BY <1>6, <1>10, <2>1
  <2> QED
    BY <1>1, <2>1, <2>2, Zenon DEF Works
<1>14. RequestPart'
  <2>1. Queued' \subseteq Linked'
    BY <1>4, <1>6, <1>7
  <2> QED
    BY <1>1, <1>4, <1>6, <1>7, <1>8, <1>9, <1>12, <1>13, <2>1, Zenon DEF RequestPart
<1>15. /\ main \in Main /\ main.stack \in Seq(Frame) /\ Nested(main.stack)
       /\ Fits(main.pc, main.then, main.stack) /\ Called(main.stack, Linked, acb)
  BY MainFacts
<1>16. main' \in Main /\ main'.pc = "signal" /\ main'.stack = main.stack
  BY <1>1, <1>15, MainMoves, Zenon DEF Places, Moved
<1>17. Fits(main'.pc, main'.then, main'.stack) /\ main'.pc # "cancel"
  BY <1>1, <1>15, <1>16 DEF Fits, InFlush
<1>18. Called(main'.stack, Linked', acb')
  <2>1. \A i \in 1 .. Len(main.stack) : main.stack[i].acb # None =>
           /\ main.stack[i].acb \in Acbs /\ main.stack[i].acb \notin Linked
           /\ acb[main.stack[i].acb].ret = "done"
           /\ \A j \in 1 .. Len(main.stack) : main.stack[i].acb = main.stack[j].acb => i = j
    BY <1>15, FrameAcb DEF Called
  <2>2. \A i \in 1 .. Len(main.stack) : main.stack[i].acb # None =>
           main.stack[i].acb # a /\ acb'[main.stack[i].acb] = acb[main.stack[i].acb]
    BY <1>1, <1>8, <2>1
  <2>3. \A b : b \notin Linked /\ b # a => b \notin Linked'
    BY <1>6
  <2> QED
    BY <1>16, <2>1, <2>2, <2>3, ZenonT(30) DEF Called
<1>19. MainPart'
  BY <1>15, <1>16, <1>17, <1>18, MainGoes
<1>20. Promise!Submit(s)
  BY <1>1, <1>2, Zenon DEF Promise!Submit
<1> QED
  BY <1>2, <1>14, <1>19, <1>20, Zenon DEF Promise!Next

(***************************************************************************)
(* The requests.                                                           *)
(***************************************************************************)

\* Every step keeps RequestInv, and is a step of AsyncIO or leaves fate alone.
LEMMA RequestStep ==
  ASSUME RequestTypes, RequestInv, [Next]_vars
  PROVE  (RequestTypes /\ RequestInv)' /\ [Promise!Next]_fate
<1>1. RequestPart /\ MainPart
  BY RequestParts
<1> SUFFICES RequestPart' /\ MainPart' /\ (Promise!Next \/ UNCHANGED fate)
  BY RequestPartsNext
<1>2. ASSUME NEW t \in Threads, ThreadSteps(t) \/ ThreadTimesOut(t)
      PROVE  RequestPart' /\ MainPart' /\ UNCHANGED fate
  <2>1. CASE QuietWorker(t)
    BY <1>1, <2>1, QuietWorkerStep
  <2>2. CASE ThreadWorks(t)
    BY <1>1, <2>2, ThreadWorksStep
  <2>3. CASE ThreadLocks(t) \/ ThreadTimedOut(t) \/ ThreadWoken(t)
    <3>1. thread[t].pc \in {"lock", "timedout", "woken"} /\ thread[t].pc # "work"
      BY <2>3 DEF ThreadLocks, ThreadTimedOut, ThreadWoken
    <3>2. \/ QuietWorker(t)
          \/ \E idle \in {0, 1} : TakesRequest(t, idle)
      BY <2>3, <3>1, Zenon DEF ThreadLocks, ThreadTimedOut, ThreadWoken, QuietWorker
    <3> QED
      BY <1>1, <2>1, <3>1, <3>2, TakesRequestStep
  <2> QED
    BY <1>2, <2>1, <2>2, <2>3, Zenon DEF ThreadSteps, QuietWorker
<1>3. CASE QuietMain
  BY <1>1, <1>3, QuietMainStep
<1>4. CASE FlushBegins \/ FlushChecks
  BY <1>1, <1>4, FlushStep
<1>5. CASE CancelWaited
  BY <1>1, <1>5, CancelWaitedStep
<1>6. CASE CallsBack
  BY <1>1, <1>6, CallsBackStep
<1>7. CASE CallbackReturns
  BY <1>1, <1>7, CallbackReturnsStep
<1>8. ASSUME NEW a \in Acbs, Submit(a) \/ Cancel(a)
      PROVE  RequestPart' /\ MainPart' /\ (Promise!Next \/ UNCHANGED fate)
  BY <1>1, <1>8, SubmitStep, CancelStep
<1>9. CASE UNCHANGED vars
  <2>1. UNCHANGED <<acb, request_list, first_aio, fate, main, thread>>
    BY <1>9 DEF vars
  <2>2. thread' \in [Threads -> Worker]
    BY <1>1, <2>1 DEF RequestPart
  <2> QED
    BY <1>1, <2>1, <2>2, RequestFrame, MainFrame
<1> QED
  BY <1>2, <1>3, <1>4, <1>5, <1>6, <1>7, <1>8, <1>9, Zenon DEF Next, MainSteps, QuietMain

LEMMA RequestInit == Init => RequestTypes /\ RequestInv /\ Promise!Init
<1> SUFFICES ASSUME Init PROVE RequestTypes /\ RequestInv /\ Promise!Init
  OBVIOUS
<1>1. /\ acb = [a \in Acbs |-> Free] /\ request_list = <<>> /\ first_aio = <<>>
      /\ thread = [t \in Threads |-> Dead] /\ main = AtLoop
      /\ fate = [s \in Submissions |-> "new"]
  BY DEF Init
<1>2. Dead \in Worker /\ Dead.pc = "none"
  BY DEF Dead, Worker
<1>3. AtLoop \in Main /\ AtLoop.pc = "loop" /\ AtLoop.stack = <<>>
  BY DEF AtLoop, Main
<1>4. RequestTypes
  BY <1>1, <1>2, <1>3, FreeRequest DEF RequestTypes
<1>5. Promise!Init
  BY <1>1 DEF Promise!Init
<1>6. WorkOnOwnRequest
  BY <1>1, <1>2 DEF WorkOnOwnRequest
<1>7. CallsNest
  BY <1>1, <1>3 DEF CallsNest, Nested
<1>8. Range(<<>>) = {} /\ IsInjective(<<>>)
  BY DEF Range, IsInjective
<1> QED
  BY <1>1, <1>3, <1>4, <1>5, <1>6, <1>7, <1>8 DEF RequestInv

\* The requests of first_aio are pending, each for a submission of its own, and a block
\* is released only when no list, no worker and no callback knows it (paio_submit,
\* paio_cancel, aio_thread and posix_aio_process_queue, with nested flushes).
THEOREM RequestInvariance == Spec => [](RequestTypes /\ RequestInv)
<1>1. Init => RequestTypes /\ RequestInv
  BY RequestInit
<1>2. RequestTypes /\ RequestInv /\ [Next]_vars => (RequestTypes /\ RequestInv)'
  BY RequestStep
<1> QED
  BY <1>1, <1>2, PTL DEF Spec

\* No worker is left with a request that was released or reused behind its back.
THEOREM WorkersKeepTheirRequests == Spec => []WorkOnOwnRequest
<1>1. RequestInv => WorkOnOwnRequest
  BY DEF RequestInv
<1> QED
  BY <1>1, RequestInvariance, PTL

\* The safety part of AsyncIO: a request is called back or cancelled only after it was
\* submitted, at most once, and never both.
THEOREM KeepsAsyncIO == Spec => Promise!Safety
<1>1. Init => Promise!Init
  BY RequestInit
<1>2. RequestTypes /\ RequestInv /\ [Next]_vars => [Promise!Next]_fate
  BY RequestStep
<1> QED
  BY <1>1, <1>2, RequestInvariance, PTL DEF Spec, Promise!Safety

(***************************************************************************)
(* The threads.                                                            *)
(***************************************************************************)

\* The threads of f in some stage.
Tally(f, stages) == Cardinality({t \in Threads : f[t].pc \in stages})
Weight(x, stages) == IF x \in stages THEN 1 ELSE 0

\* Only t goes to another stage; so the tallies change by its weight.
OnlyOne(f, g, t) == \A u \in Threads : u # t => g[u].pc = f[u].pc
Shifted(f, g, t, stages) ==
  /\ Tally(f, stages) \in Nat /\ Tally(g, stages) \in Nat
  /\ Tally(g, stages) = Tally(f, stages) + Weight(g[t].pc, stages) - Weight(f[t].pc, stages)

LEMMA TallyMoves ==
  ASSUME NEW f, NEW g, NEW t \in Threads, OnlyOne(f, g, t), NEW stages
  PROVE  Shifted(f, g, t, stages)
<1> DEFINE F == {u \in Threads : f[u].pc \in stages}
           G == {u \in Threads : g[u].pc \in stages}
           R == F \ {t}
<1>1. IsFiniteSet(F) /\ IsFiniteSet(G)
  BY PosixAioConstants, FS_Subset
<1>2. Cardinality(F) \in Nat /\ Cardinality(G) \in Nat
  BY <1>1, FS_CardinalityType
<1>3. R = G \ {t}
  BY DEF OnlyOne
<1>4. Cardinality(R) = Cardinality(F) - Weight(f[t].pc, stages)
  <2>1. t \in F <=> f[t].pc \in stages
    OBVIOUS
  <2>2. Cardinality(R) = IF t \in F THEN Cardinality(F) - 1 ELSE Cardinality(F)
    BY <1>1, FS_RemoveElement, Zenon
  <2> HIDE DEF F, G, R
  <2> QED
    BY <1>2, <2>1, <2>2 DEF Weight
<1>5. Cardinality(R) = Cardinality(G) - Weight(g[t].pc, stages)
  <2>1. t \in G <=> g[t].pc \in stages
    OBVIOUS
  <2>2. Cardinality(G \ {t}) = IF t \in G THEN Cardinality(G) - 1 ELSE Cardinality(G)
    BY <1>1, FS_RemoveElement, Zenon
  <2> HIDE DEF F, G, R
  <2> QED
    BY <1>2, <1>3, <2>1, <2>2 DEF Weight
<1>6. Weight(f[t].pc, stages) \in Nat /\ Weight(g[t].pc, stages) \in Nat
  BY DEF Weight
<1>7. Tally(f, stages) = Cardinality(F) /\ Tally(g, stages) = Cardinality(G)
  BY DEF Tally
<1> HIDE DEF F, G, R
<1>8. Cardinality(G) = Cardinality(F) + Weight(g[t].pc, stages) - Weight(f[t].pc, stages)
  <2> DEFINE a == Cardinality(F)
             b == Cardinality(G)
             v == Weight(f[t].pc, stages)
             w == Weight(g[t].pc, stages)
  <2>1. a \in Nat /\ b \in Nat /\ v \in Nat /\ w \in Nat /\ a - v = b - w
    BY <1>2, <1>4, <1>5, <1>6, Zenon
  <2> HIDE DEF a, b, v, w
  <2>2. b = a + w - v
    BY <2>1
  <2> QED
    BY <2>2 DEF a, b, v, w
<1> QED
  BY <1>2, <1>7, <1>8, Zenon DEF Shifted

LEMMA TallyBounds ==
  ASSUME NEW f
  PROVE  \A a, b : /\ Tally(f, a) \in Nat /\ Tally(f, a) <= max_threads
                   /\ a \subseteq b => Tally(f, a) <= Tally(f, b)
<1> SUFFICES ASSUME NEW a, NEW b
             PROVE  /\ Tally(f, a) \in Nat /\ Tally(f, a) <= max_threads
                    /\ a \subseteq b => Tally(f, a) <= Tally(f, b)
  OBVIOUS
<1> DEFINE A == {u \in Threads : f[u].pc \in a}
           B == {u \in Threads : f[u].pc \in b}
<1>1. /\ IsFiniteSet(A) /\ IsFiniteSet(B) /\ Cardinality(A) <= max_threads
  BY PosixAioConstants, FS_Subset
<1>2. Cardinality(A) \in Nat
  BY <1>1, FS_CardinalityType
<1>3. ASSUME a \subseteq b PROVE Cardinality(A) <= Cardinality(B)
  <2>1. A \subseteq B
    BY <1>3
  <2> HIDE DEF A, B
  <2> QED
    BY <1>1, <2>1, FS_Subset
<1> QED
  BY <1>1, <1>2, <1>3 DEF Tally

\* The threads that the counters count.
Alive == Tally(thread, Existing)
Creators == Tally(thread, {"create"})
Created == Tally(thread, {"created"})
Idle == Tally(thread, {"wait", "timedout", "woken"})
Starting == Tally(thread, {"created", "spawn", "create"})
MainCreating == IF main.pc = "create" THEN 1 ELSE 0

\* ThreadsAccounted without the types of the rest.
Accounts ==
  /\ cur_threads \in Nat /\ cur_threads <= max_threads
  /\ idle_threads \in Nat /\ new_threads \in Nat /\ pending_threads \in Nat
  /\ scheduled \in BOOLEAN /\ pipe \in 0 .. 1
  /\ cur_threads = new_threads + Creators + MainCreating + Alive
  /\ pending_threads = Creators + MainCreating + Created
  /\ idle_threads = Idle
  /\ new_threads > 0 => scheduled \/ MainCreating = 1 \/ Starting > 0

TallyOK ==
  /\ Alive \in Nat /\ Creators \in Nat /\ Created \in Nat /\ Idle \in Nat /\ Starting \in Nat
  /\ MainCreating \in {0, 1} /\ max_threads \in Nat
  /\ Alive <= max_threads /\ Idle <= Alive /\ Created <= Alive /\ Creators <= Alive
  /\ Created <= Starting /\ Creators <= Starting

LEMMA TallyFacts == TallyOK
<1>1. /\ {"wait", "timedout", "woken"} \subseteq Existing
      /\ {"created"} \subseteq Existing /\ {"create"} \subseteq Existing
      /\ {"created"} \subseteq {"created", "spawn", "create"}
      /\ {"create"} \subseteq {"created", "spawn", "create"}
  BY DEF Existing
<1>2. MainCreating \in {0, 1} /\ max_threads \in Nat
  BY PosixAioConstants DEF MainCreating
<1> QED
  BY <1>1, <1>2, TallyBounds, Zenon DEF TallyOK, Alive, Creators, Created, Idle, Starting

LEMMA TallyFactsNext == TallyOK'
BY TallyFacts, PTL

LEMMA AccountParts == ThreadsAccounted <=> RequestTypes /\ Accounts
<1>1. /\ Count(Existing) = Alive /\ Creating = Creators + MainCreating
      /\ Count({"created"}) = Created /\ Count({"wait", "timedout", "woken"}) = Idle
      /\ Count({"created", "spawn", "create"}) = Starting
  BY Zenon DEF Count, Creating, Alive, Creators, Created, Idle, Starting, MainCreating, Tally
<1>2. main.pc = "create" <=> MainCreating = 1
  BY DEF MainCreating
<1>3. ASSUME ThreadsAccounted PROVE RequestTypes /\ Accounts
  <2>1. TypeOK
    BY <1>3 DEF ThreadsAccounted
  <2>2. RequestTypes
    BY <2>1, Zenon DEF TypeOK, RequestTypes
  <2>3. /\ cur_threads \in Nat /\ cur_threads <= max_threads
        /\ idle_threads \in Nat /\ new_threads \in Nat /\ pending_threads \in Nat
        /\ scheduled \in BOOLEAN /\ pipe \in 0 .. 1
    BY <2>1, TallyFacts DEF TypeOK, TallyOK
  <2>4. /\ cur_threads = new_threads + (Creators + MainCreating) + Alive
        /\ pending_threads = Creators + MainCreating + Created
        /\ idle_threads = Idle
        /\ new_threads > 0 => scheduled \/ MainCreating = 1 \/ Starting > 0
    BY <1>1, <1>2, <1>3, Zenon DEF ThreadsAccounted
  <2>5. cur_threads = new_threads + Creators + MainCreating + Alive
    BY <2>3, <2>4, TallyFacts DEF TallyOK
  <2> QED
    BY <2>2, <2>3, <2>4, <2>5, Zenon DEF Accounts
<1>4. ASSUME RequestTypes, Accounts PROVE ThreadsAccounted
  <2>1. /\ cur_threads \in 0 .. max_threads /\ idle_threads \in 0 .. max_threads
        /\ new_threads \in 0 .. max_threads /\ pending_threads \in 0 .. max_threads
        /\ cur_threads = new_threads + (Creators + MainCreating) + Alive
    BY <1>4, TallyFacts DEF Accounts, TallyOK
  <2>2. TypeOK
    BY <1>4, <2>1, Zenon DEF TypeOK, RequestTypes, Accounts
  <2> QED
    BY <1>1, <1>2, <1>4, <2>1, <2>2, Zenon DEF ThreadsAccounted, Accounts
<1> QED
  BY <1>3, <1>4

\* A thread goes from stage x to stage y.
Moves(x, y) ==
  /\ Alive' = Alive + Weight(y, Existing) - Weight(x, Existing)
  /\ Creators' = Creators + Weight(y, {"create"}) - Weight(x, {"create"})
  /\ Created' = Created + Weight(y, {"created"}) - Weight(x, {"created"})
  /\ Idle' = Idle + Weight(y, {"wait", "timedout", "woken"})
                  - Weight(x, {"wait", "timedout", "woken"})
  /\ Starting' = Starting + Weight(y, {"created", "spawn", "create"})
                          - Weight(x, {"created", "spawn", "create"})

LEMMA StageTallies ==
  ASSUME NEW t \in Threads, NEW x, NEW y, thread[t].pc = x, thread'[t].pc = y,
         OnlyOne(thread, thread', t)
  PROVE  Moves(x, y)
<1>1. ASSUME NEW S PROVE Tally(thread', S) = Tally(thread, S) + Weight(y, S) - Weight(x, S)
  <2>1. Shifted(thread, thread', t, S)
    BY TallyMoves
  <2> QED
    BY <2>1 DEF Shifted
<1>2. \A S : Tally(thread, S)' = Tally(thread', S)
  BY DEF Tally
<1> QED
  BY <1>1, <1>2, Zenon DEF Moves, Alive, Creators, Created, Idle, Starting

\* A thread that is owed finds a free name.
LEMMA NewThreadIsFree ==
  ASSUME thread \in [Threads -> Worker], Alive < max_threads
  PROVE  NewThread \in Threads /\ thread[NewThread].pc = "none"
<1>1. \E t \in Threads : thread[t].pc \notin Existing
  <2> SUFFICES ASSUME \A t \in Threads : thread[t].pc \in Existing PROVE FALSE
    BY Zenon
  <2>1. {t \in Threads : thread[t].pc \in Existing} = Threads
    OBVIOUS
  <2>2. Alive = max_threads
    BY <2>1, PosixAioConstants, Zenon DEF Alive, Tally
  <2> QED
    BY <2>2, TallyFacts DEF TallyOK
<1>2. \A t \in Threads : thread[t].pc \in Existing \cup {"none"}
  BY DEF Worker, Existing
<1>3. \E t \in Threads : thread[t].pc = "none"
  BY <1>1, <1>2
<1> QED
  BY <1>3, Zenon DEF NewThread

\* The counters after a step agree with the tallies after it, and somebody owes what new
\* threads are owed.
Agree ==
  /\ new_threads' \in Nat /\ cur_threads' <= max_threads
  /\ cur_threads' = new_threads' + Creators' + MainCreating' + Alive'
  /\ pending_threads' = Creators' + MainCreating' + Created'
  /\ idle_threads' = Idle'

Owed == new_threads > 0 => scheduled \/ MainCreating = 1 \/ Starting > 0

LEMMA AccountsAgree ==
  ASSUME Agree, scheduled' \in BOOLEAN, pipe' \in 0 .. 1, Owed'
  PROVE  Accounts'
<1>1. /\ cur_threads' \in Nat /\ cur_threads' <= max_threads /\ idle_threads' \in Nat
      /\ pending_threads' \in Nat
  <2>1. /\ new_threads' \in Nat /\ cur_threads' <= max_threads /\ idle_threads' = Idle'
        /\ cur_threads' = new_threads' + Creators' + MainCreating' + Alive'
        /\ pending_threads' = Creators' + MainCreating' + Created'
    BY DEF Agree
  <2>2. /\ Alive' \in Nat /\ Creators' \in Nat /\ Created' \in Nat /\ Idle' \in Nat
        /\ MainCreating' \in Nat
    BY TallyFactsNext DEF TallyOK
  <2>3. \A a, b, c, d \in Nat : a + b + c \in Nat /\ a + b + c + d \in Nat
    OBVIOUS
  <2> QED
    BY <2>1, <2>2, <2>3, Zenon
<1> QED
  BY <1>1, Zenon DEF Agree, Accounts, Owed

\* The changes of the tallies.
Tallies(alive, creators, created, idle, starting) ==
  /\ Alive' = Alive + alive /\ Creators' = Creators + creators /\ Created' = Created + created
  /\ Idle' = Idle + idle /\ Starting' = Starting + starting

LEMMA MoveTallies ==
  /\ Moves("created", "spawn") => Tallies(0, 0, -1, 0, 0)
  /\ Moves("spawn", "create") => Tallies(0, 1, 0, 0, 0)
  /\ Moves("spawn", "lock") => Tallies(0, 0, 0, 0, -1)
  /\ Moves("lock", "wait") => Tallies(0, 0, 0, 1, 0)
  /\ \A x \in {"timedout", "woken"} : Moves(x, "work") => Tallies(0, 0, 0, -1, 0)
  /\ Moves("timedout", "none") => Tallies(-1, 0, 0, -1, 0)
  /\ Moves("none", "created") => Tallies(1, 0, 1, 0, 1)
  /\ \A x, y \in {"wait", "timedout", "woken"} : Moves(x, y) => Tallies(0, 0, 0, 0, 0)
  /\ \A x, y \in {"lock", "work", "notify"} : Moves(x, y) => Tallies(0, 0, 0, 0, 0)
<1>1. Moves("created", "spawn") => Tallies(0, 0, -1, 0, 0)
  BY TallyFacts DEF TallyOK, Moves, Weight, Existing, Tallies
<1>2. Moves("spawn", "create") => Tallies(0, 1, 0, 0, 0)
  BY TallyFacts DEF TallyOK, Moves, Weight, Existing, Tallies
<1>3. Moves("spawn", "lock") => Tallies(0, 0, 0, 0, -1)
  BY TallyFacts DEF TallyOK, Moves, Weight, Existing, Tallies
<1>4. Moves("lock", "wait") => Tallies(0, 0, 0, 1, 0)
  BY TallyFacts DEF TallyOK, Moves, Weight, Existing, Tallies
<1>5. \A x \in {"timedout", "woken"} : Moves(x, "work") => Tallies(0, 0, 0, -1, 0)
  BY TallyFacts DEF TallyOK, Moves, Weight, Existing, Tallies
<1>6. Moves("timedout", "none") => Tallies(-1, 0, 0, -1, 0)
  BY TallyFacts DEF TallyOK, Moves, Weight, Existing, Tallies
<1>7. Moves("none", "created") => Tallies(1, 0, 1, 0, 1)
  BY TallyFacts DEF TallyOK, Moves, Weight, Existing, Tallies
<1>8. \A x, y \in {"wait", "timedout", "woken"} : Moves(x, y) => Tallies(0, 0, 0, 0, 0)
  BY TallyFacts DEF TallyOK, Moves, Weight, Existing, Tallies
<1>9. \A x, y \in {"lock", "work", "notify"} : Moves(x, y) => Tallies(0, 0, 0, 0, 0)
  BY TallyFacts DEF TallyOK, Moves, Weight, Existing, Tallies
<1> QED
  BY <1>1, <1>2, <1>3, <1>4, <1>5, <1>6, <1>7, <1>8, <1>9

\* One thread goes from stage x to stage y.
Goes(t, x, y) ==
  /\ t \in Threads /\ thread[t].pc = x /\ thread'[t].pc = y /\ OnlyOne(thread, thread', t)

LEMMA GoesTo ==
  ASSUME thread \in [Threads -> Worker], NEW t \in Threads, NEW y \in Stages,
         thread' = [thread EXCEPT ![t].pc = y]
  PROVE  Goes(t, thread[t].pc, y)
<1>1. Staged(thread, t, y, thread')
  BY StageMoves, Zenon
<1> QED
  BY <1>1, Zenon DEF Staged, Goes, OnlyOne

LEMMA GoesMoves ==
  ASSUME NEW t, NEW x, NEW y, Goes(t, x, y)
  PROVE  Moves(x, y)
BY StageTallies DEF Goes

\* What the tallies say before a step.
LEMMA AccountFacts ==
  ASSUME Accounts
  PROVE  /\ cur_threads \in Nat /\ cur_threads <= max_threads /\ idle_threads \in Nat
         /\ new_threads \in Nat /\ pending_threads \in Nat /\ max_threads \in Nat
         /\ cur_threads = new_threads + Creators + MainCreating + Alive
         /\ pending_threads = Creators + MainCreating + Created
         /\ idle_threads = Idle
         /\ MainCreating \in {0, 1} /\ Alive \in Nat /\ Creators \in Nat /\ Created \in Nat
         /\ Idle \in Nat /\ Starting \in Nat
<1>1. /\ max_threads \in Nat
      /\ MainCreating \in {0, 1} /\ Alive \in Nat /\ Creators \in Nat /\ Created \in Nat
      /\ Idle \in Nat /\ Starting \in Nat
  BY TallyFacts, Zenon DEF TallyOK
<1> QED
  BY <1>1, Zenon DEF Accounts

\* A worker creates a thread.
LEMMA CreateTallies ==
  ASSUME thread \in [Threads -> Worker], Accounts, NEW t \in Threads, thread[t].pc = "create",
         thread' = [[thread EXCEPT ![t].pc = "lock"] EXCEPT ![NewThread].pc = "created"]
  PROVE  Tallies(1, -1, 1, 0, 0)
<1> DEFINE g == [thread EXCEPT ![t].pc = "lock"]
<1>1. Staged(thread, t, "lock", g)
  BY StageMoves, Zenon DEF Stages
<1>2. thread' = [g EXCEPT ![NewThread].pc = "created"]
  OBVIOUS
<1> HIDE DEF g
<1>3. g \in [Threads -> Worker]
  BY <1>1, Zenon DEF Staged
<1>4. Staged(g, NewThread, "created", thread')
  BY <1>2, <1>3, StageMoves, Zenon DEF Stages
<1>5. Creators > 0
  <2>1. t \in {u \in Threads : thread[u].pc \in {"create"}}
    OBVIOUS
  <2>2. IsFiniteSet({u \in Threads : thread[u].pc \in {"create"}})
    BY PosixAioConstants, FS_Subset
  <2>3. Creators # 0
    BY <2>1, <2>2, FS_EmptySet DEF Creators, Tally
  <2> QED
    BY <2>3, TallyFacts DEF TallyOK
<1>6. Alive < max_threads
  BY <1>5, AccountFacts
<1>7. NewThread \in Threads /\ thread[NewThread].pc = "none"
  BY <1>6, NewThreadIsFree
<1>8. NewThread # t /\ g[NewThread].pc = "none" /\ g[t].pc = "lock" /\ thread'[NewThread].pc = "created"
  <2>1. NewThread # t
    BY <1>7
  <2> QED
    BY <1>1, <1>4, <1>7, <2>1, Zenon DEF Staged
<1>9. OnlyOne(thread, g, t) /\ OnlyOne(g, thread', NewThread)
  BY <1>1, <1>4, Zenon DEF Staged, OnlyOne
<1>10. ASSUME NEW S
       PROVE  Tally(thread, S)' = Tally(thread, S) + Weight("lock", S) - Weight("create", S)
                                  + Weight("created", S) - Weight("none", S)
  <2>1. Shifted(thread, g, t, S)
    BY <1>9, TallyMoves
  <2>2. Shifted(g, thread', NewThread, S)
    BY <1>7, <1>9, TallyMoves
  <2>3. Tally(g, S) = Tally(thread, S) + Weight("lock", S) - Weight("create", S)
    BY <1>8, <2>1 DEF Shifted
  <2>4. Tally(thread', S) = Tally(g, S) + Weight("created", S) - Weight("none", S)
    BY <1>8, <2>2 DEF Shifted
  <2>5. Tally(thread, S)' = Tally(thread', S)
    BY DEF Tally
  <2> QED
    BY <2>3, <2>4, <2>5
<1>11. /\ Alive' = Alive + Weight("lock", Existing) - Weight("create", Existing)
                  + Weight("created", Existing) - Weight("none", Existing)
       /\ Creators' = Creators + Weight("lock", {"create"}) - Weight("create", {"create"})
                     + Weight("created", {"create"}) - Weight("none", {"create"})
       /\ Created' = Created + Weight("lock", {"created"}) - Weight("create", {"created"})
                    + Weight("created", {"created"}) - Weight("none", {"created"})
       /\ Idle' = Idle + Weight("lock", {"wait", "timedout", "woken"}) - Weight("create", {"wait", "timedout", "woken"})
                 + Weight("created", {"wait", "timedout", "woken"}) - Weight("none", {"wait", "timedout", "woken"})
       /\ Starting' = Starting + Weight("lock", {"created", "spawn", "create"}) - Weight("create", {"created", "spawn", "create"})
                     + Weight("created", {"created", "spawn", "create"}) - Weight("none", {"created", "spawn", "create"})
  BY <1>10, Zenon DEF Alive, Creators, Created, Idle, Starting
<1> QED
  BY <1>11, TallyFacts DEF Tallies, TallyOK, Weight, Existing

\* A step that takes no thread out of those that still look for owed threads.
Starters == new_threads' > 0 => new_threads > 0 /\ (Starting > 0 => Starting' > 0)

\* The steps of the workers.
LEMMA WorkerAccounts ==
  ASSUME RequestTypes, Accounts, NEW t \in Threads, ThreadSteps(t) \/ ThreadTimesOut(t)
  PROVE  Accounts'
<1>1. thread \in [Threads -> Worker]
  BY DEF RequestTypes
<1>2. /\ scheduled' = scheduled /\ scheduled' \in BOOLEAN
      /\ pipe' \in 0 .. 1 /\ MainCreating' = MainCreating
  <2>1. scheduled' = scheduled /\ main' = main /\ (pipe' = pipe \/ pipe' = 1)
    BY Zenon DEF ThreadSteps, ThreadStarts, ThreadSpawns, ThreadCreates, ThreadLocks, ThreadTimesOut,
              ThreadTimedOut, ThreadWoken, ThreadWorks, ThreadNotifies, TakesRequest, counters
  <2>2. MainCreating' = MainCreating
    BY <2>1 DEF MainCreating
  <2>3. pipe' \in 0 .. 1
    BY <2>1 DEF Accounts
  <2> QED
    BY <2>1, <2>2, <2>3, Zenon DEF Accounts
<1>3. \A x \in {"spawn", "create", "lock", "wait", "timedout", "woken", "created"} : x \in Stages
  BY DEF Stages
<1> SUFFICES Agree /\ Starters
  BY <1>2, AccountsAgree, Zenon DEF Accounts, Starters, Owed
<1>4. ASSUME UNCHANGED <<cur_threads, idle_threads, new_threads, pending_threads>>,
             Tallies(0, 0, 0, 0, 0)
      PROVE  Agree /\ Starters
  BY <1>2, <1>4, AccountFacts DEF Agree, Starters, Tallies
<1>5. ASSUME NEW x, thread[t].pc = x, TakesRequest(t, IF x = "lock" THEN 0 ELSE 1),
             x \in {"lock", "timedout", "woken"}
      PROVE  Agree /\ Starters
  <2> DEFINE w == [pc |-> "work", acb |-> Head(request_list)]
  <2>1. /\ thread' = [thread EXCEPT ![t] = w]
        /\ idle_threads' = idle_threads - (IF x = "lock" THEN 0 ELSE 1)
        /\ UNCHANGED <<cur_threads, new_threads, pending_threads>>
    BY <1>5, Zenon DEF TakesRequest
  <2>2. w.pc = "work"
    OBVIOUS
  <2> HIDE DEF w
  <2>3. Goes(t, x, "work")
    BY <1>1, <1>5, <2>1, <2>2 DEF Goes, OnlyOne
  <2>4. Moves(x, "work")
    BY <2>3, GoesMoves
  <2>5. CASE x = "lock"
    <3>1. Tallies(0, 0, 0, 0, 0)
      BY <2>4, <2>5, MoveTallies
    <3>2. idle_threads' = idle_threads
      BY <2>1, <2>5, AccountFacts
    <3> QED
      BY <1>4, <2>1, <3>1, <3>2
  <2>6. CASE x # "lock"
    <3>1. Tallies(0, 0, 0, -1, 0)
      BY <1>5, <2>4, <2>6, MoveTallies
    <3>2. idle_threads' = idle_threads - 1
      BY <2>1, <2>6
    <3> QED
      BY <1>2, <2>1, <3>1, <3>2, AccountFacts DEF Agree, Starters, Tallies
  <2> QED
    BY <2>5, <2>6
<1>6. CASE ThreadStarts(t)
  <2>1. /\ thread[t].pc = "created" /\ thread' = [thread EXCEPT ![t].pc = "spawn"]
        /\ pending_threads' = pending_threads - 1
        /\ UNCHANGED <<cur_threads, idle_threads, new_threads>>
    BY <1>6, Zenon DEF ThreadStarts
  <2>2. Goes(t, "created", "spawn")
    BY <1>1, <1>3, <2>1, GoesTo, Zenon
  <2>3. Tallies(0, 0, -1, 0, 0)
    BY <2>2, GoesMoves, MoveTallies
  <2> QED
    BY <1>2, <2>1, <2>3, AccountFacts DEF Agree, Starters, Tallies
<1>7. CASE ThreadSpawns(t)
  <2>1. CASE new_threads = 0
    <3>1. /\ thread[t].pc = "spawn" /\ thread' = [thread EXCEPT ![t].pc = "lock"]
          /\ UNCHANGED <<cur_threads, idle_threads, new_threads, pending_threads>>
      BY <1>7, <2>1 DEF ThreadSpawns, do_spawn_thread
    <3>2. Goes(t, "spawn", "lock")
      BY <1>1, <1>3, <3>1, GoesTo, Zenon
    <3>3. Tallies(0, 0, 0, 0, -1)
      BY <3>2, GoesMoves, MoveTallies
    <3> QED
      BY <1>2, <2>1, <3>1, <3>3, AccountFacts DEF Agree, Starters, Tallies
  <2>2. CASE new_threads # 0
    <3>1. /\ thread[t].pc = "spawn" /\ thread' = [thread EXCEPT ![t].pc = "create"]
          /\ new_threads' = new_threads - 1 /\ pending_threads' = pending_threads + 1
          /\ UNCHANGED <<cur_threads, idle_threads>>
      BY <1>7, <2>2 DEF ThreadSpawns, do_spawn_thread
    <3>2. Goes(t, "spawn", "create")
      BY <1>1, <1>3, <3>1, GoesTo, Zenon
    <3>3. Tallies(0, 1, 0, 0, 0)
      BY <3>2, GoesMoves, MoveTallies
    <3> QED
      BY <1>2, <2>2, <3>1, <3>3, AccountFacts DEF Agree, Starters, Tallies
  <2> QED
    BY <2>1, <2>2
<1>8. CASE ThreadCreates(t)
  <2>1. /\ thread[t].pc = "create"
        /\ thread' = [[thread EXCEPT ![t].pc = "lock"] EXCEPT ![NewThread].pc = "created"]
        /\ UNCHANGED <<cur_threads, idle_threads, new_threads, pending_threads>>
    BY <1>8, Zenon DEF ThreadCreates, counters
  <2>2. Tallies(1, -1, 1, 0, 0)
    BY <1>1, <2>1, CreateTallies, Zenon
  <2> QED
    BY <1>2, <2>1, <2>2, AccountFacts DEF Agree, Starters, Tallies
<1>9. CASE ThreadLocks(t)
  <2>1. CASE TakesRequest(t, 0)
    BY <1>5, <1>9, <2>1 DEF ThreadLocks
  <2>2. CASE ~TakesRequest(t, 0)
    <3>1. /\ thread[t].pc = "lock" /\ thread' = [thread EXCEPT ![t].pc = "wait"]
          /\ idle_threads' = idle_threads + 1
          /\ UNCHANGED <<cur_threads, new_threads, pending_threads>>
      BY <1>9, <2>2, Zenon DEF ThreadLocks
    <3>2. Goes(t, "lock", "wait")
      BY <1>1, <1>3, <3>1, GoesTo, Zenon
    <3>3. Tallies(0, 0, 0, 1, 0)
      BY <3>2, GoesMoves, MoveTallies
    <3> QED
      BY <1>2, <3>1, <3>3, AccountFacts DEF Agree, Starters, Tallies
  <2> QED
    BY <2>1, <2>2
<1>10. CASE ThreadTimesOut(t)
  <2>1. PICK y \in {"timedout", "woken"} : thread' = [thread EXCEPT ![t].pc = y]
    BY <1>10, Zenon DEF ThreadTimesOut
  <2>2. /\ thread[t].pc = "wait"
        /\ UNCHANGED <<cur_threads, idle_threads, new_threads, pending_threads>>
    BY <1>10, Zenon DEF ThreadTimesOut, counters
  <2>3. Goes(t, "wait", y)
    BY <1>1, <1>3, <2>1, <2>2, GoesTo, Zenon
  <2>4. Tallies(0, 0, 0, 0, 0)
    BY <2>3, GoesMoves, MoveTallies
  <2> QED
    BY <1>4, <2>2, <2>4
<1>11. CASE ThreadTimedOut(t)
  <2>1. CASE TakesRequest(t, 1)
    BY <1>5, <1>11, <2>1 DEF ThreadTimedOut
  <2>2. CASE ~TakesRequest(t, 1)
    <3>1. /\ thread[t].pc = "timedout" /\ thread' = [thread EXCEPT ![t] = Dead]
          /\ idle_threads' = idle_threads - 1 /\ cur_threads' = cur_threads - 1
          /\ UNCHANGED <<new_threads, pending_threads>>
      BY <1>11, <2>2, Zenon DEF ThreadTimedOut
    <3>2. Dead.pc = "none"
      BY DEF Dead
    <3>3. Goes(t, "timedout", "none")
      BY <1>1, <3>1, <3>2 DEF Goes, OnlyOne
    <3>4. Tallies(-1, 0, 0, -1, 0)
      BY <3>3, GoesMoves, MoveTallies
    <3> QED
      BY <1>2, <3>1, <3>4, AccountFacts DEF Agree, Starters, Tallies
  <2> QED
    BY <2>1, <2>2
<1>12. CASE ThreadWoken(t)
  <2>1. CASE TakesRequest(t, 1)
    BY <1>5, <1>12, <2>1 DEF ThreadWoken
  <2>2. CASE ~TakesRequest(t, 1)
    <3>1. /\ thread[t].pc = "woken" /\ thread' = [thread EXCEPT ![t].pc = "wait"]
          /\ UNCHANGED <<cur_threads, idle_threads, new_threads, pending_threads>>
      BY <1>12, <2>2, Zenon DEF ThreadWoken, counters
    <3>2. Goes(t, "woken", "wait")
      BY <1>1, <1>3, <3>1, GoesTo, Zenon
    <3>3. Tallies(0, 0, 0, 0, 0)
      BY <3>2, GoesMoves, MoveTallies
    <3> QED
      BY <1>4, <3>1, <3>3
  <2> QED
    BY <2>1, <2>2
<1>13. CASE ThreadWorks(t)
  <2> DEFINE w == [pc |-> "notify", acb |-> None]
  <2>1. /\ thread[t].pc = "work" /\ thread' = [thread EXCEPT ![t] = w]
        /\ UNCHANGED <<cur_threads, idle_threads, new_threads, pending_threads>>
    BY <1>13, Zenon DEF ThreadWorks, counters
  <2>2. w.pc = "notify"
    OBVIOUS
  <2> HIDE DEF w
  <2>3. Goes(t, "work", "notify")
    BY <1>1, <2>1, <2>2 DEF Goes, OnlyOne
  <2>4. Tallies(0, 0, 0, 0, 0)
    BY <2>3, GoesMoves, MoveTallies
  <2> QED
    BY <1>4, <2>1, <2>4
<1>14. CASE ThreadNotifies(t)
  <2>1. /\ thread[t].pc = "notify" /\ thread' = [thread EXCEPT ![t].pc = "lock"]
        /\ UNCHANGED <<cur_threads, idle_threads, new_threads, pending_threads>>
    BY <1>14, Zenon DEF ThreadNotifies, counters
  <2>2. Goes(t, "notify", "lock")
    BY <1>1, <1>3, <2>1, GoesTo, Zenon
  <2>3. Tallies(0, 0, 0, 0, 0)
    BY <2>2, GoesMoves, MoveTallies
  <2> QED
    BY <1>4, <2>1, <2>3
<1> QED
  BY <1>6, <1>7, <1>8, <1>9, <1>10, <1>11, <1>12, <1>13, <1>14, Zenon DEF ThreadSteps

\* The steps of the main thread that have nothing to do with threads.
ThreadlessMain ==
  \/ \E a \in Acbs : Cancel(a)
  \/ CancelWaited \/ ReadPipe("loop", "loop") \/ ReadPipe("select", "check") \/ PassesOver
  \/ CallsBack \/ CallbackReturns \/ ProcessEnds \/ FlushBegins \/ FlushChecks
  \/ main.pc = "bh" /\ main' = Scan("select")
     /\ UNCHANGED <<acb, request_list, first_aio, counters, scheduled, pipe, thread, fate>>

LEMMA ThreadlessPlaces ==
  ASSUME main \in Main, ThreadlessMain
  PROVE  main.pc # "create" /\ main'.pc # "create"
<1>1. main.pc # "create"
  BY Zenon DEF ThreadlessMain, Cancel, Outside, CancelWaited, ReadPipe, PassesOver, CallsBack, CallbackReturns,
         ProcessEnds, FlushBegins, FlushChecks
<1>2. ASSUME NEW m \in Main, NEW st
      PROVE  /\ [m EXCEPT !.stack = st].pc = m.pc
             /\ [m EXCEPT !.pc = "bh", !.stack = st].pc = "bh"
             /\ [m EXCEPT !.pc = Back(Front(m.stack)), !.stack = st].pc = Back(Front(m.stack))
  BY DEF Main
<1>3. /\ \A x : Back(x) # "create"
      /\ main.then # "create" /\ main.then \in Thens
      /\ {"callback", "bh", "check", "loop"} \subseteq Places /\ {"loop", "check", "select"} \subseteq Thens
      /\ Thens \subseteq Places
  BY DEF Back, Main, Places, Thens
<1>4. /\ \A pc \in Places : GoTo(pc) \in Main /\ GoTo(pc).pc = pc
      /\ \A pc \in Places : [main EXCEPT !.pc = pc].pc = pc
      /\ \A then \in Thens : Scan(then) \in Main /\ Scan(then).pc = "scan"
      /\ \A a \in Acbs : [main EXCEPT !.pc = "cancel", !.acb = a].pc = "cancel"
      /\ [main EXCEPT !.scan = @ + 1].pc = main.pc /\ Return.pc = Back(main.stack)
  BY MainMoves, Zenon DEF Moved
<1> SUFFICES main'.pc # "create"
  BY <1>1
<1>5. ASSUME NEW a \in Acbs, Cancel(a) PROVE main'.pc # "create"
  BY <1>1, <1>4, <1>5, Zenon DEF Cancel
<1>6. CASE CancelWaited
  BY <1>3, <1>4, <1>6, Zenon DEF CancelWaited
<1>7. CASE ReadPipe("loop", "loop") \/ ReadPipe("select", "check")
  BY <1>3, <1>4, <1>7 DEF ReadPipe
<1>8. CASE PassesOver
  BY <1>1, <1>4, <1>8, Zenon DEF PassesOver
<1>9. CASE CallsBack
  <2>1. PICK st : main' = [GoTo("callback") EXCEPT !.stack = st]
    BY <1>9, Zenon DEF CallsBack
  <2> QED
    BY <1>2, <1>3, <1>4, <2>1
<1>10. CASE CallbackReturns
  <2>1. PICK then, st : main' = [Scan(then) EXCEPT !.result = TRUE, !.stack = st]
    BY <1>10, Zenon DEF CallbackReturns
  <2> QED
    BY <2>1 DEF Scan, Main
<1>11. CASE ProcessEnds
  <2>1. main' = GoTo("check") \/ main' = GoTo(main.then)
    BY <1>11 DEF ProcessEnds
  <2> QED
    BY <1>3, <1>4, <2>1
<1>12. CASE FlushBegins
  <2>1. PICK st : main' = [main EXCEPT !.pc = "bh", !.stack = st]
    BY <1>12, Zenon DEF FlushBegins
  <2> QED
    BY <1>2, <2>1
<1>13. CASE FlushChecks
  <2>1. \/ main' = [main EXCEPT !.pc = "bh"]
        \/ \E st : main' = [main EXCEPT !.pc = Back(Front(main.stack)), !.stack = st]
    BY <1>13, Zenon DEF FlushChecks
  <2>2. CASE main' = [main EXCEPT !.pc = "bh"]
    BY <1>3, <1>4, <2>2
  <2>3. ASSUME NEW st, main' = [main EXCEPT !.pc = Back(Front(main.stack)), !.stack = st]
        PROVE  main'.pc # "create"
    <3>1. main'.pc = Back(Front(main.stack))
      BY <1>2, <2>3, Zenon
    <3> QED
      BY <1>3, <3>1, Zenon
  <2> QED
    BY <2>1, <2>2, <2>3, Zenon
<1>14. CASE main' = Scan("select")
  BY <1>3, <1>4, <1>14
<1> QED
  BY <1>5, <1>6, <1>7, <1>8, <1>9, <1>10, <1>11, <1>12, <1>13, <1>14, Zenon DEF ThreadlessMain

\* They leave the accounts as they are.
LEMMA SameAccounts ==
  ASSUME Accounts, UNCHANGED <<cur_threads, idle_threads, new_threads, pending_threads>>,
         scheduled' = scheduled, pipe' \in 0 .. 1, MainCreating' = MainCreating,
         Tallies(0, 0, 0, 0, 0)
  PROVE  Accounts'
<1>1. Agree
  BY AccountFacts DEF Agree, Tallies
<1>2. Starting' = Starting
  BY AccountFacts DEF Tallies
<1> QED
  BY <1>1, <1>2, AccountsAgree, Zenon DEF Accounts, Owed

LEMMA NoMoves ==
  ASSUME UNCHANGED thread
  PROVE  Tallies(0, 0, 0, 0, 0)
<1>1. /\ Alive' = Alive /\ Creators' = Creators /\ Created' = Created /\ Idle' = Idle
      /\ Starting' = Starting
  BY DEF Alive, Creators, Created, Idle, Starting, Tally
<1> QED
  BY <1>1, TallyFacts DEF Tallies, TallyOK

LEMMA MainAccounts ==
  ASSUME RequestTypes, Accounts, MainSteps \/ (\E a \in Acbs : Submit(a) \/ Cancel(a)) \/ FlushBegins
  PROVE  Accounts'
<1>1. thread \in [Threads -> Worker] /\ main \in Main /\ main.then \in Thens /\ Thens \subseteq Places
  BY DEF RequestTypes, Main, Thens, Places
<1>2. pipe \in 0 .. 1 /\ scheduled \in BOOLEAN
  BY DEF Accounts
<1>3. CASE ThreadlessMain
  <2>1. /\ UNCHANGED <<cur_threads, idle_threads, new_threads, pending_threads>>
        /\ scheduled' = scheduled /\ thread' = thread /\ (pipe' = pipe \/ pipe' = 0)
    BY <1>3, Zenon DEF ThreadlessMain, Cancel, CancelWaited, ReadPipe, PassesOver, CallsBack,
                       CallbackReturns, ProcessEnds, FlushBegins, FlushChecks, counters
  <2>2. pipe' \in 0 .. 1
    BY <1>2, <2>1
  <2>3. MainCreating' = MainCreating
    BY <1>1, <1>3, ThreadlessPlaces DEF MainCreating
  <2> QED
    BY <2>1, <2>2, <2>3, NoMoves, SameAccounts
<1>4. CASE Signal
  <2>1. /\ UNCHANGED <<cur_threads, idle_threads, new_threads, pending_threads>>
        /\ scheduled' = scheduled /\ pipe' = pipe /\ main' = Return /\ main.pc = "signal"
    BY <1>4, Zenon DEF Signal, counters
  <2>2. MainCreating' = MainCreating
    <3>1. main'.pc = Back(main.stack)
      BY <1>1, <2>1, MainMoves, Zenon DEF Moved
    <3> QED
      BY <2>1, <3>1 DEF MainCreating, Back
  <2>3. Tallies(0, 0, 0, 0, 0)
    <3>1. CASE UNCHANGED thread
      BY <3>1, NoMoves
    <3>2. ASSUME NEW t \in Threads, thread[t].pc = "wait", thread' = [thread EXCEPT ![t].pc = "woken"]
          PROVE  Tallies(0, 0, 0, 0, 0)
      <4>1. Goes(t, "wait", "woken")
        BY <1>1, <3>2, GoesTo, Zenon DEF Stages
      <4> QED
        BY <4>1, GoesMoves, MoveTallies
    <3> QED
      BY <1>4, <3>1, <3>2 DEF Signal
  <2> QED
    BY <1>2, <2>1, <2>2, <2>3, SameAccounts
<1>5. ASSUME NEW a \in Acbs, Submit(a) PROVE Accounts'
  <2>1. /\ main.pc \in {"loop", "callback"} /\ main' = [main EXCEPT !.pc = "signal"]
        /\ UNCHANGED <<idle_threads, pending_threads, pipe, thread>>
        /\ IF NeedsThread THEN spawn_thread ELSE UNCHANGED <<cur_threads, new_threads, scheduled>>
    BY <1>5, Zenon DEF Submit, Outside
  <2>2. MainCreating' = MainCreating
    BY <1>1, <2>1, MainMoves, Zenon DEF MainCreating, Moved, Places
  <2>3. Tallies(0, 0, 0, 0, 0)
    BY <2>1, NoMoves
  <2>4. CASE ~NeedsThread
    BY <1>2, <2>1, <2>2, <2>3, <2>4, SameAccounts
  <2>5. CASE NeedsThread
    <3>1. /\ cur_threads' = cur_threads + 1 /\ new_threads' = new_threads + 1
          /\ cur_threads < max_threads
          /\ scheduled' = (scheduled \/ pending_threads = 0)
      BY <2>1, <2>5, Zenon DEF NeedsThread, spawn_thread
    <3>2. Agree
      BY <2>1, <2>2, <2>3, <3>1, AccountFacts DEF Agree, Tallies
    <3>3. pending_threads = 0 \/ MainCreating' = 1 \/ Starting' > 0
      <4>1. Created <= Starting /\ Creators <= Starting /\ Starting' = Starting
        BY <2>3, TallyFacts DEF TallyOK, Tallies
      <4> QED
        BY <2>2, <4>1, AccountFacts
    <3>4. Owed' /\ scheduled' \in BOOLEAN
      BY <3>1, <3>3, Zenon DEF Owed
    <3> QED
      BY <1>2, <2>1, <3>2, <3>4, AccountsAgree
  <2> QED
    BY <2>4, <2>5
<1>6. ASSUME NEW then \in Thens, main.pc \in {"loop", "bh"}, RunBH(then) PROVE Accounts'
  <2>1. /\ scheduled' = FALSE /\ UNCHANGED <<cur_threads, idle_threads, pipe, thread>>
        /\ main' = IF new_threads = 0 THEN GoTo(then)
                   ELSE [main EXCEPT !.pc = "create", !.then = then]
        /\ new_threads' = IF new_threads = 0 THEN 0 ELSE new_threads - 1
        /\ pending_threads' = IF new_threads = 0 THEN pending_threads ELSE pending_threads + 1
    BY <1>6, Zenon DEF RunBH, do_spawn_thread
  <2>2. Tallies(0, 0, 0, 0, 0)
    BY <2>1, NoMoves
  <2>3. MainCreating = 0
    BY <1>6 DEF MainCreating
  <2>4. MainCreating' = IF new_threads = 0 THEN 0 ELSE 1
    <3>1. /\ Moved(GoTo(then), then, "loop", main.stack)
          /\ Moved([main EXCEPT !.pc = "create", !.then = then], "create", then, main.stack)
      BY <1>1, MainMoves, Zenon
    <3>2. main'.pc = IF new_threads = 0 THEN then ELSE "create"
      BY <2>1, <3>1, Zenon DEF Moved
    <3> QED
      BY <3>2 DEF MainCreating, Thens
  <2>5. Agree
    BY <2>1, <2>2, <2>3, <2>4, AccountFacts DEF Agree, Tallies
  <2>6. new_threads' > 0 => MainCreating' = 1
    BY <2>1, <2>4
  <2>7. Owed' /\ scheduled' \in BOOLEAN
    BY <2>1, <2>6, Zenon DEF Owed
  <2> QED
    BY <1>2, <2>1, <2>5, <2>7, AccountsAgree
<1>7. CASE MainCreates
  <2>1. /\ main.pc = "create" /\ thread' = [thread EXCEPT ![NewThread].pc = "created"]
        /\ main' = GoTo(main.then)
        /\ UNCHANGED <<cur_threads, idle_threads, new_threads, pending_threads>>
        /\ scheduled' = scheduled /\ pipe' = pipe
    BY <1>7, Zenon DEF MainCreates, counters
  <2>2. MainCreating = 1
    BY <2>1 DEF MainCreating
  <2>3. MainCreating' = 0
    <3>1. main'.pc = main.then
      BY <1>1, <2>1, MainMoves, Zenon DEF Moved
    <3> QED
      BY <1>1, <3>1 DEF MainCreating, Thens
  <2>4. Alive < max_threads
    BY <2>2, AccountFacts
  <2>5. NewThread \in Threads /\ thread[NewThread].pc = "none"
    BY <1>1, <2>4, NewThreadIsFree
  <2>6. Goes(NewThread, "none", "created")
    BY <1>1, <2>1, <2>5, GoesTo, Zenon DEF Stages
  <2>7. Tallies(1, 0, 1, 0, 1)
    BY <2>6, GoesMoves, MoveTallies
  <2>8. Agree
    BY <2>1, <2>2, <2>3, <2>7, AccountFacts DEF Agree, Tallies
  <2>9. Starting' > 0
    BY <2>7, AccountFacts DEF Tallies
  <2>10. Owed' /\ scheduled' \in BOOLEAN
    BY <1>2, <2>1, <2>9, Zenon DEF Owed
  <2> QED
    BY <1>2, <2>1, <2>8, <2>10, AccountsAgree
<1>8. CASE LoopRunsBH \/ FlushPolls
  <2>1. \/ main.pc = "loop" /\ RunBH("loop")
        \/ main.pc = "bh" /\ RunBH("check")
        \/ ThreadlessMain
    BY <1>8, Zenon DEF LoopRunsBH, FlushPolls, ThreadlessMain
  <2> QED
    BY <1>3, <1>6, <2>1 DEF Thens
<1> QED
  BY <1>3, <1>4, <1>5, <1>7, <1>8, Zenon DEF MainSteps, ThreadlessMain

\* The counters of posix-aio-compat.c are exact, whatever threads are created, time out
\* and take requests: so qemu_paio_submit never asks for one thread too many, and a thread
\* it asked for is always somebody's to create (spawn_thread, do_spawn_thread, aio_thread).
THEOREM ThreadsAreAccounted == Spec => []ThreadsAccounted
<1>1. Init => Accounts
  <2> SUFFICES ASSUME Init PROVE Accounts
    OBVIOUS
  <2>1. \A t \in Threads : thread[t].pc = "none"
    BY DEF Init, Dead
  <2>2. ASSUME NEW S, "none" \notin S PROVE Tally(thread, S) = 0
    <3>1. {t \in Threads : thread[t].pc \in S} = {}
      BY <2>1, <2>2
    <3> QED
      BY <3>1, FS_EmptySet, Zenon DEF Tally
  <2>3. "none" \notin Existing
    BY DEF Existing
  <2>4. Alive = 0 /\ Creators = 0 /\ Created = 0 /\ Idle = 0
    BY <2>2, <2>3 DEF Alive, Creators, Created, Idle
  <2>5. MainCreating = 0
    BY DEF MainCreating, Init, AtLoop
  <2>6. /\ cur_threads = 0 /\ idle_threads = 0 /\ new_threads = 0 /\ pending_threads = 0
        /\ scheduled = FALSE /\ pipe = 0 /\ max_threads \in Nat
    BY PosixAioConstants, Zenon DEF Init
  <2>7. /\ 0 \in Nat /\ 0 <= max_threads /\ 0 \in 0 .. 1 /\ 0 = 0 + 0 + 0 + 0 /\ 0 = 0 + 0 + 0 /\ ~(0 > 0)
    BY <2>6
  <2> QED
    BY <2>4, <2>5, <2>6, <2>7, Zenon DEF Accounts
<1>2. RequestTypes /\ Accounts /\ [Next]_vars => Accounts'
  <2> SUFFICES ASSUME RequestTypes, Accounts, [Next]_vars PROVE Accounts'
    OBVIOUS
  <2>1. ASSUME UNCHANGED vars PROVE Accounts'
    <3>1. /\ UNCHANGED <<cur_threads, idle_threads, new_threads, pending_threads>>
          /\ scheduled' = scheduled /\ pipe' = pipe /\ thread' = thread /\ main' = main
      BY <2>1, Zenon DEF vars, counters
    <3>2. MainCreating' = MainCreating
      BY <3>1 DEF MainCreating
    <3>3. pipe' \in 0 .. 1
      BY <3>1 DEF Accounts
    <3> QED
      BY <3>1, <3>2, <3>3, NoMoves, SameAccounts
  <2> QED
    BY <2>1, WorkerAccounts, MainAccounts, Zenon DEF Next
<1>3. RequestTypes /\ Accounts => ThreadsAccounted
  BY AccountParts
<1>4. Spec => []RequestTypes
  BY RequestInvariance, PTL
<1> QED
  BY <1>1, <1>2, <1>3, <1>4, PTL DEF Spec
=============================================================================
