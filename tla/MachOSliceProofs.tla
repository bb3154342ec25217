--------------------------- MODULE MachOSliceProofs ---------------------------
(***************************************************************************)
(* Whatever the slices, dylibs and sizes: the load commands of a slice     *)
(* stay typed, within their room and without duplicates, the linked        *)
(* dylibs keep their ordinals, and a forced signature covers what it       *)
(* signed.                                                                 *)
(***************************************************************************)
EXTENDS MachOSlice, Recursion, SequenceTheorems

LEMMA CommandSizeType == \A d \in Dylib : CommandSize(d) \in Nat
  BY SizeAssumption DEF CommandSize

(* BytesBefore is the running sum that its recursion describes.            *)
LEMMA BytesBeforeStep ==
  ASSUME NEW cmds \in Seq(Command)
  PROVE  /\ BytesBefore(cmds) \in [0 .. Len(cmds) -> Nat]
         /\ BytesBefore(cmds)[0] = 0
         /\ \A k \in 1 .. Len(cmds) :
              BytesBefore(cmds)[k] = BytesBefore(cmds)[k - 1] + CommandSize(cmds[k].name)
<1> DEFINE n == Len(cmds)
           size == [k \in 1 .. n |-> CommandSize(cmds[k].name)]
           step == [k \in 1 .. n |-> [x \in Nat |-> x + size[k]]]
           body(f) == [k \in 0 .. n |-> IF k = 0 THEN 0 ELSE f[k - 1] + CommandSize(cmds[k].name)]
<1>1. n \in Nat /\ \A k \in 1 .. n : cmds[k].name \in Dylib
  <2>1. n \in Nat /\ cmds \in [1 .. n -> Command]
    BY LenProperties
  <2> QED
    BY <2>1 DEF Command
<1>2. size \in [1 .. n -> Nat]
  BY <1>1, CommandSizeType
<1>3. step \in [1 .. n -> [Nat -> Nat]]
  BY <1>2
<1>4. \A k \in 1 .. n : \A x \in Nat : step[k][x] = x + CommandSize(cmds[k].name)
  BY <1>1
<1> HIDE DEF n, step, body
<1>5. PICK f : Solves(f, n, Nat, 0, step)
  BY <1>1, <1>3, RecursionExists, 0 \in Nat
<1>6. f = body(f)
  BY <1>1, <1>4, <1>5 DEF body, Solves
<1>7. BytesBefore(cmds) = CHOOSE g : g = body(g)
  BY DEF BytesBefore, n, body
<1> DEFINE g == BytesBefore(cmds)
<1>8. g = body(g)
  BY <1>6, <1>7, Zenon
<1>9. /\ g[0] = 0
      /\ \A k \in 1 .. n : g[k] = g[k - 1] + CommandSize(cmds[k].name)
      /\ g = [k \in 0 .. n |-> g[k]]
  <2> HIDE DEF g
  <2>1. /\ body(g)[0] = 0
        /\ \A k \in 1 .. n : body(g)[k] = g[k - 1] + CommandSize(cmds[k].name)
        /\ body(g) = [k \in 0 .. n |-> body(g)[k]]
    BY <1>1 DEF body
  <2> QED
    BY <2>1, <1>8, Zenon
<1> HIDE DEF g
<1>10. \A k \in 0 .. n : g[k] \in Nat
  <2> DEFINE S == {k \in 0 .. n : g[k] \in Nat}
  <2>1. 0 \in S
    BY <1>1, <1>9
  <2>2. ASSUME NEW k \in 0 .. n - 1, k \in S PROVE k + 1 \in S
    <3>1. k + 1 \in 1 .. n /\ (k + 1) - 1 = k
      BY <1>1
    <3>2. g[k + 1] = g[k] + CommandSize(cmds[k + 1].name)
      BY <1>9, <3>1
    <3>3. CommandSize(cmds[k + 1].name) \in Nat
      BY <1>1, <3>1, CommandSizeType
    <3> QED
      BY <2>2, <3>1, <3>2, <3>3
  <2> HIDE DEF S
  <2>3. 0 .. n \subseteq S
    BY <1>1, <2>1, <2>2, Induction
  <2> QED
    BY <2>3 DEF S
<1> QED
  BY <1>9, <1>10 DEF g, n

(* Equal names take up equal space.                                        *)
LEMMA SameBytes ==
  ASSUME NEW a \in Seq(Command), NEW b \in Seq(Command), NEW m \in Nat,
         m <= Len(a), m <= Len(b), \A k \in 1 .. m : a[k].name = b[k].name
  PROVE  BytesBefore(a)[m] = BytesBefore(b)[m]
<1> DEFINE S == {k \in 0 .. m : BytesBefore(a)[k] = BytesBefore(b)[k]}
<1>1. 0 \in S
  BY BytesBeforeStep
<1>2. ASSUME NEW k \in 0 .. m - 1, k \in S PROVE k + 1 \in S
  <2>1. /\ k + 1 \in 1 .. m /\ k + 1 \in 1 .. Len(a) /\ k + 1 \in 1 .. Len(b)
        /\ (k + 1) - 1 = k
    BY LenProperties
  <2>2. /\ BytesBefore(a)[k + 1] = BytesBefore(a)[k] + CommandSize(a[k + 1].name)
        /\ BytesBefore(b)[k + 1] = BytesBefore(b)[k] + CommandSize(b[k + 1].name)
    BY <2>1, BytesBeforeStep
  <2> QED
    BY <1>2, <2>1, <2>2
<1> HIDE DEF S
<1>3. 0 .. m \subseteq S
  BY <1>1, <1>2, Induction
<1> QED
  BY <1>3 DEF S

LEMMA CommandBytesType == \A cmds \in Seq(Command) : CommandBytes(cmds) \in Nat
  BY BytesBeforeStep, LenProperties DEF CommandBytes

LEMMA BytesOfAppend ==
  ASSUME NEW cmds \in Seq(Command), NEW c \in Command
  PROVE  CommandBytes(Append(cmds, c)) = CommandBytes(cmds) + CommandSize(c.name)
<1> DEFINE longer == Append(cmds, c)
           n == Len(cmds)
<1>1. /\ n \in Nat /\ longer \in Seq(Command) /\ Len(longer) = n + 1
      /\ longer[n + 1] = c /\ \A k \in 1 .. n : longer[k] = cmds[k]
  BY LenProperties, AppendProperties
<1> HIDE DEF longer, n
<1>2. BytesBefore(longer)[n] = BytesBefore(cmds)[n]
  <2>1. n <= Len(longer) /\ n <= Len(cmds) /\ \A k \in 1 .. n : longer[k].name = cmds[k].name
    BY <1>1 DEF n
  <2> QED
    BY <1>1, <2>1, SameBytes
<1>3. BytesBefore(longer)[n + 1] = BytesBefore(longer)[n] + CommandSize(longer[n + 1].name)
  <2>1. n + 1 \in 1 .. Len(longer) /\ (n + 1) - 1 = n
    BY <1>1
  <2> QED
    BY <1>1, <2>1, BytesBeforeStep
<1> QED
  BY <1>1, <1>2, <1>3 DEF CommandBytes, longer, n

(* Rebuilt copies the commands one after another.                          *)
LEMMA RebuiltStep ==
  ASSUME NEW cmds \in Seq(Command), NEW ds
  PROVE  /\ Rebuilt(cmds, ds) \in [0 .. Len(cmds) -> Seq(Command)]
         /\ Rebuilt(cmds, ds)[0] = <<>>
         /\ \A k \in 1 .. Len(cmds) :
              Rebuilt(cmds, ds)[k] = IF cmds[k].name \in ds THEN Rebuilt(cmds, ds)[k - 1]
                                     ELSE Append(Rebuilt(cmds, ds)[k - 1], cmds[k])
<1> DEFINE n == Len(cmds)
           Cmds == Seq(Command)
           next(k, x) == IF cmds[k].name \in ds THEN x ELSE Append(x, cmds[k])
           step == [k \in 1 .. n |-> [x \in Cmds |-> next(k, x)]]
           body(f) == [k \in 0 .. n |-> IF k = 0 THEN <<>> ELSE next(k, f[k - 1])]
           g == Rebuilt(cmds, ds)
<1>1. n \in Nat /\ \A k \in 1 .. n : cmds[k] \in Command
  BY LenProperties, ElementOfSeq
<1>2. <<>> \in Cmds /\ \A x \in Cmds, k \in 1 .. n : next(k, x) \in Cmds
  BY <1>1, AppendProperties, EmptySeq
<1>3. g = CHOOSE h : h = body(h)
  BY DEF Rebuilt
<1> HIDE DEF n, Cmds, next, g
<1>4. step \in [1 .. n -> [Cmds -> Cmds]]
  BY <1>2
<1>5. PICK f : Solves(f, n, Cmds, <<>>, step)
  <2> HIDE DEF step
  <2> QED
    BY <1>1, <1>2, <1>4, RecursionExists
<1>6. f = body(f)
  BY <1>1, <1>5 DEF Solves
<1>7. g = body(g)
  <2> HIDE DEF body
  <2> QED
    BY <1>3, <1>6, Zenon
<1>8. /\ g[0] = <<>>
      /\ \A k \in 1 .. n : g[k] = next(k, g[k - 1])
      /\ g = [k \in 0 .. n |-> g[k]]
  <2>1. /\ body(g)[0] = <<>>
        /\ \A k \in 1 .. n : body(g)[k] = next(k, g[k - 1])
        /\ body(g) = [k \in 0 .. n |-> body(g)[k]]
    BY <1>1
  <2> HIDE DEF body
  <2> QED
    BY <2>1, <1>7, Zenon
<1>9. \A k \in 0 .. n : g[k] \in Cmds
  <2> DEFINE S == {k \in 0 .. n : g[k] \in Cmds}
  <2>1. 0 \in S
    BY <1>1, <1>2, <1>8
  <2>2. ASSUME NEW k \in 0 .. n - 1, k \in S PROVE k + 1 \in S
    <3>1. k + 1 \in 1 .. n /\ (k + 1) - 1 = k
      BY <1>1
    <3>2. g[k + 1] = next(k + 1, g[k]) /\ g[k] \in Cmds
      BY <1>8, <2>2, <3>1
    <3>3. next(k + 1, g[k]) \in Cmds
      BY <1>2, <3>1, <3>2
    <3> QED
      BY <1>1, <3>2, <3>3
  <2> HIDE DEF S
  <2>3. 0 .. n \subseteq S
    BY <1>1, <2>1, <2>2, Induction
  <2> QED
    BY <2>3 DEF S
<1> QED
  BY <1>8, <1>9 DEF g, n, Cmds, next

(* What Rebuilt has copied so far: no more bytes, no other names, and none *)
(* twice that was not there twice.                                         *)
LEMMA RebuiltShrinks ==
  ASSUME NEW cmds \in Seq(Command), NEW ds, NEW k \in 0 .. Len(cmds)
  PROVE  LET r == Rebuilt(cmds, ds)[k]
         IN /\ CommandBytes(r) <= BytesBefore(cmds)[k]
            /\ \A i \in 1 .. Len(r) : \E j \in 1 .. k : r[i].name = cmds[j].name
            /\ (\A i, j \in 1 .. Len(cmds) : cmds[i].name = cmds[j].name => i = j)
                 => \A i, j \in 1 .. Len(r) : r[i].name = r[j].name => i = j
<1> DEFINE n == Len(cmds)
           g == Rebuilt(cmds, ds)
           fits(i) == CommandBytes(g[i]) <= BytesBefore(cmds)[i]
           known(i) == \A x \in 1 .. Len(g[i]) : \E y \in 1 .. i : g[i][x].name = cmds[y].name
           once(c) == \A x, y \in 1 .. Len(c) : c[x].name = c[y].name => x = y
           S == {i \in 0 .. n : fits(i) /\ known(i) /\ (once(cmds) => once(g[i]))}
<1>1. n \in Nat /\ \A i \in 1 .. n : cmds[i] \in Command
  BY LenProperties, ElementOfSeq
<1>2. /\ g \in [0 .. n -> Seq(Command)] /\ g[0] = <<>>
      /\ \A i \in 1 .. n : g[i] = IF cmds[i].name \in ds THEN g[i - 1]
                                  ELSE Append(g[i - 1], cmds[i])
  BY RebuiltStep
<1>3. /\ BytesBefore(cmds) \in [0 .. n -> Nat] /\ BytesBefore(cmds)[0] = 0
      /\ \A i \in 1 .. n :
           BytesBefore(cmds)[i] = BytesBefore(cmds)[i - 1] + CommandSize(cmds[i].name)
  BY BytesBeforeStep
<1> HIDE DEF n, g
<1>4. 0 \in S
  <2>1. <<>> \in Seq(Command) /\ Len(<<>>) = 0
    BY EmptySeq
  <2>2. CommandBytes(<<>>) = 0
    BY <2>1, BytesBeforeStep DEF CommandBytes
  <2> QED
    BY <1>1, <1>2, <1>3, <2>1, <2>2, SMTT(30)
<1>5. ASSUME NEW i \in 0 .. n - 1, i \in S PROVE i + 1 \in S
  <2> DEFINE old == g[i]
             c == cmds[i + 1]
  <2>1. i + 1 \in 1 .. n /\ (i + 1) - 1 = i /\ i \in 0 .. n /\ c \in Command
    BY <1>1
  <2>2. old \in Seq(Command) /\ Len(old) \in Nat
    BY <1>2, <2>1, LenProperties
  <2>3. BytesBefore(cmds)[i + 1] = BytesBefore(cmds)[i] + CommandSize(c.name)
    BY <1>3, <2>1
  <2>4. CommandSize(c.name) \in Nat /\ CommandBytes(old) \in Nat /\ BytesBefore(cmds)[i] \in Nat
    BY <1>3, <2>1, <2>2, CommandSizeType, CommandBytesType DEF Command
  <2>5. CASE c.name \in ds
    <3>1. g[i + 1] = g[i]
      BY <1>2, <2>1, <2>5
    <3>2. fits(i + 1)
      BY <1>5, <2>3, <2>4, <3>1
    <3>3. known(i + 1) /\ (once(cmds) => once(g[i + 1]))
      BY <1>5, <2>1, <3>1
    <3> QED
      BY <1>1, <3>2, <3>3
  <2>6. CASE c.name \notin ds
    <3>1. g[i + 1] = Append(old, c)
      BY <1>2, <2>1, <2>6
    <3>2. /\ Len(g[i + 1]) = Len(old) + 1 /\ g[i + 1][Len(old) + 1] = c
          /\ \A x \in 1 .. Len(old) : g[i + 1][x] = old[x]
      BY <2>1, <2>2, <3>1, AppendProperties
    <3>3. CommandBytes(g[i + 1]) = CommandBytes(old) + CommandSize(c.name)
      BY <2>1, <2>2, <3>1, BytesOfAppend
    <3>4. fits(i + 1)
      BY <1>5, <2>3, <2>4, <3>3
    <3> DEFINE longer == g[i + 1]
               m == Len(old)
    <3> HIDE DEF longer, m
    <3>5. ASSUME NEW x \in 1 .. Len(longer)
          PROVE  \/ x = m + 1 /\ longer[x] = c
                 \/ x \in 1 .. m /\ longer[x] = old[x]
      BY <2>2, <3>2 DEF longer, m
    <3>6. known(i + 1)
      <4> SUFFICES ASSUME NEW x \in 1 .. Len(longer)
                   PROVE  \E y \in 1 .. i + 1 : longer[x].name = cmds[y].name
        BY DEF longer
      <4>1. CASE x = m + 1 /\ longer[x] = c
        <5>1. i + 1 \in 1 .. i + 1
          BY <2>1
        <5> QED
          BY <4>1, <5>1
      <4>2. CASE x \in 1 .. m /\ longer[x] = old[x]
        <5>1. PICK y \in 1 .. i : old[x].name = cmds[y].name
          BY <1>5, <4>2 DEF m
        <5> QED
          BY <2>1, <4>2, <5>1
      <4> QED
        BY <3>5, <4>1, <4>2
    <3>7. ASSUME once(cmds) PROVE once(g[i + 1])
      <4>1. \A x \in 1 .. m : old[x].name # c.name
        <5> SUFFICES ASSUME NEW x \in 1 .. m, old[x].name = c.name PROVE FALSE
          OBVIOUS
        <5>1. PICK y \in 1 .. i : old[x].name = cmds[y].name
          BY <1>5 DEF m
        <5>2. y \in 1 .. n /\ y # i + 1
          BY <1>1, <2>1
        <5> QED
          BY <2>1, <3>7, <5>1, <5>2 DEF n
      <4>2. \A x, y \in 1 .. m : old[x].name = old[y].name => x = y
        BY <1>5, <3>7 DEF m
      <4> SUFFICES ASSUME NEW x \in 1 .. Len(longer), NEW y \in 1 .. Len(longer),
                          longer[x].name = longer[y].name
                   PROVE  x = y
        BY DEF longer
      <4> HIDE DEF old, c
      <4> QED
        BY <3>5, <4>1, <4>2
    <3> QED
      BY <1>1, <3>4, <3>6, <3>7
  <2> QED
    BY <2>5, <2>6
<1> HIDE DEF S
<1>6. 0 .. n \subseteq S
  BY <1>1, <1>4, <1>5, Induction
<1> QED
  BY <1>6 DEF S, n, g

------------------------------------------------------------------------------
(* What an operation makes of one slice.                                   *)

Once(cmds) == \A i, j \in 1 .. Len(cmds) : cmds[i].name = cmds[j].name => i = j

(* A slice as every operation finds and leaves it.                         *)
Sound(s) ==
  /\ s \in SliceState /\ s.alternate.hash # "sha1"
  /\ Used(s) <= Room
  /\ Once(s.cmds)

SliceInv == /\ \A i \in Slice : Sound(slices[i])
            /\ SliceTypeOK
            /\ ForcedSignatureCovers

LEMMA SliceFields ==
  ASSUME NEW s \in SliceState
  PROVE  /\ s.cmds \in Seq(Command) /\ s.hasSignature \in BOOLEAN
         /\ s.capacity \in Capacities \cup {Grown} /\ s.capacity \in Nat
         /\ s.primary \in CodeDirectory /\ s.alternate \in CodeDirectory
         /\ DOMAIN s.cmds = 1 .. Len(s.cmds) /\ Len(s.cmds) \in Nat
         /\ CommandBytes(s.cmds) \in Nat /\ Used(s) \in Nat
<1>1. /\ s.cmds \in Seq(Command) /\ s.hasSignature \in BOOLEAN
      /\ s.capacity \in Capacities \cup {Grown}
      /\ s.primary \in CodeDirectory /\ s.alternate \in CodeDirectory
  BY DEF SliceState
<1>2. s.capacity \in Nat
  BY <1>1, SizeAssumption
<1>3. DOMAIN s.cmds = 1 .. Len(s.cmds) /\ Len(s.cmds) \in Nat
  BY <1>1, LenProperties
<1>4. CommandBytes(s.cmds) \in Nat
  BY <1>1, CommandBytesType
<1>5. Used(s) \in Nat
  BY <1>4 DEF Used, SignatureCommandSize
<1> QED
  BY <1>1, <1>2, <1>3, <1>4, <1>5

LEMMA FirstIndexType ==
  ASSUME NEW s \in SliceState, NEW d \in Dylib, Holds(s, d), Once(s.cmds)
  PROVE  FirstIndex(s, d) \in 1 .. Len(s.cmds) /\ s.cmds[FirstIndex(s, d)].name = d
<1>1. DOMAIN s.cmds = 1 .. Len(s.cmds) /\ Len(s.cmds) \in Nat
  BY SliceFields
<1>2. PICK i \in 1 .. Len(s.cmds) : s.cmds[i].name = d
  BY <1>1 DEF Holds
<1>3. \A j \in 1 .. i - 1 : s.cmds[j].name # d
  BY <1>1, <1>2 DEF Once
<1> QED
  BY <1>1, <1>2, <1>3 DEF FirstIndex

(* An injection: the commands before it keep their places and names.       *)
LEMMA InjectedSound ==
  ASSUME NEW s, Sound(s), NEW d \in Dylib, NEW w \in BOOLEAN, Holds(s, d) \/ Fits(s, d)
  PROVE  /\ Sound(Injected(s, d, w))
         /\ \A j \in DOMAIN s.cmds : /\ j \in DOMAIN Injected(s, d, w).cmds
                                     /\ Injected(s, d, w).cmds[j].name = s.cmds[j].name
<1> DEFINE c == [name |-> d, weak |-> w]
           n == Len(s.cmds)
<1>1. /\ s \in SliceState /\ s.alternate.hash # "sha1" /\ Used(s) <= Room /\ Once(s.cmds)
  BY DEF Sound
<1>2. /\ s.cmds \in Seq(Command) /\ DOMAIN s.cmds = 1 .. n /\ n \in Nat
      /\ CommandBytes(s.cmds) \in Nat
  BY <1>1, SliceFields
<1>3. c \in Command /\ c.name = d
  BY DEF Command
<1>4. ASSUME NEW cmds \in Seq(Command), Once(cmds),
             CommandBytes(cmds) - CommandBytes(s.cmds) <= Room - Used(s),
             n <= Len(cmds), \A j \in 1 .. n : cmds[j].name = s.cmds[j].name,
             Injected(s, d, w) = [s EXCEPT !.cmds = cmds]
      PROVE  /\ Sound(Injected(s, d, w))
             /\ \A j \in DOMAIN s.cmds : /\ j \in DOMAIN Injected(s, d, w).cmds
                                         /\ Injected(s, d, w).cmds[j].name = s.cmds[j].name
  <2> DEFINE t == Injected(s, d, w)
  <2>1. t \in SliceState /\ t.cmds = cmds /\ t.hasSignature = s.hasSignature
        /\ t.alternate = s.alternate
    BY <1>1, <1>4 DEF SliceState
  <2>2. Used(t) <= Room
    BY <1>1, <1>2, <1>4, <2>1, CommandBytesType, SizeAssumption DEF Used, SignatureCommandSize
  <2>3. DOMAIN t.cmds = 1 .. Len(cmds) /\ Len(cmds) \in Nat
    BY <2>1, <1>4, LenProperties
  <2> HIDE DEF t
  <2>4. Sound(t)
    BY <1>1, <1>4, <2>1, <2>2 DEF Sound
  <2> QED
    BY <1>2, <1>4, <2>1, <2>3, <2>4 DEF t
<1>5. CASE Holds(s, d)
  <2> DEFINE f == FirstIndex(s, d)
             e == [s.cmds[f] EXCEPT !.weak = w]
             cmds == [s.cmds EXCEPT ![f] = e]
  <2>1. f \in 1 .. n /\ s.cmds[f].name = d /\ s.cmds[f] \in Command
    BY <1>1, <1>2, <1>5, FirstIndexType, ElementOfSeq
  <2> HIDE DEF f
  <2>2. e \in Command /\ e.name = d
    BY <2>1 DEF Command
  <2> HIDE DEF e
  <2>3. /\ cmds \in Seq(Command) /\ Len(cmds) = n
        /\ \A j \in 1 .. n : cmds[j] = IF j = f THEN e ELSE s.cmds[j]
    BY <1>2, <2>1, <2>2, ExceptSeq
  <2> HIDE DEF cmds
  <2>4. \A j \in 1 .. n : cmds[j].name = s.cmds[j].name
    BY <2>1, <2>2, <2>3
  <2>5. Once(cmds)
    BY <1>1, <2>3, <2>4 DEF Once
  <2>6. CommandBytes(cmds) = CommandBytes(s.cmds)
    BY <1>2, <2>3, <2>4, SameBytes DEF CommandBytes
  <2>7. Injected(s, d, w) = [s EXCEPT !.cmds = cmds]
    BY <1>5 DEF Injected, cmds, e, f
  <2>8. CommandBytes(cmds) - CommandBytes(s.cmds) <= Room - Used(s)
    BY <1>1, <1>2, <2>6, SizeAssumption, SliceFields
  <2>9. n <= Len(cmds)
    BY <1>2, <2>3
  <2> QED
    BY <1>4, <2>3, <2>4, <2>5, <2>7, <2>8, <2>9, Zenon
<1>6. CASE ~Holds(s, d) /\ Fits(s, d)
  <2> DEFINE cmds == Append(s.cmds, c)
  <2>1. /\ cmds \in Seq(Command) /\ Len(cmds) = n + 1 /\ cmds[n + 1] = c
        /\ \A j \in 1 .. n : cmds[j] = s.cmds[j]
    BY <1>2, <1>3, AppendProperties
  <2>2. CommandBytes(cmds) = CommandBytes(s.cmds) + CommandSize(d)
    BY <1>2, <1>3, BytesOfAppend
  <2> HIDE DEF c
  <2>3. Once(cmds)
    <3>1. \A j \in 1 .. n : s.cmds[j].name # d
      BY <1>2, <1>6 DEF Holds
    <3> HIDE DEF cmds
    <3>2. \A j \in 1 .. n + 1 : j \in 1 .. n \/ j = n + 1
      BY <1>2
    <3> SUFFICES ASSUME NEW i \in 1 .. n + 1, NEW j \in 1 .. n + 1,
                        cmds[i].name = cmds[j].name
                 PROVE  i = j
      BY <2>1 DEF Once
    <3>3. CASE i = n + 1 \/ j = n + 1
      BY <1>3, <2>1, <3>1, <3>2, <3>3
    <3>4. CASE i \in 1 .. n /\ j \in 1 .. n
      BY <1>1, <2>1, <3>4 DEF Once
    <3> QED
      BY <3>2, <3>3, <3>4
  <2>4. CommandBytes(cmds) - CommandBytes(s.cmds) <= Room - Used(s)
    <3>1. CommandSize(d) \in Nat /\ Used(s) \in Nat
      BY <1>1, SliceFields, CommandSizeType
    <3>2. CommandSize(d) <= Room - Used(s)
      BY <1>1, <1>6, <3>1, SizeAssumption DEF Fits, FreeSpace
    <3> QED
      BY <1>2, <2>2, <3>1, <3>2, SizeAssumption
  <2>5. Injected(s, d, w) = [s EXCEPT !.cmds = cmds]
    BY <1>6 DEF Injected, c
  <2> HIDE DEF cmds
  <2>6. n <= Len(cmds) /\ \A j \in 1 .. n : cmds[j].name = s.cmds[j].name
    BY <1>2, <2>1
  <2> QED
    BY <1>4, <2>1, <2>3, <2>4, <2>5, <2>6, Zenon
<1> QED
  BY <1>5, <1>6

LEMMA RemovedSound ==
  ASSUME NEW s, Sound(s), NEW ds
  PROVE  Sound(Removed(s, ds))
<1> DEFINE n == Len(s.cmds)
           r == Rebuilt(s.cmds, ds)[n]
           t == Removed(s, ds)
<1>1. /\ s \in SliceState /\ s.alternate.hash # "sha1" /\ Used(s) <= Room /\ Once(s.cmds)
      /\ s.cmds \in Seq(Command) /\ n \in Nat
  BY SliceFields DEF Sound
<1>2. r \in Seq(Command)
  BY <1>1, RebuiltStep
<1>3. CommandBytes(r) <= CommandBytes(s.cmds) /\ Once(r)
  <2>1. n \in 0 .. n
    BY <1>1
  <2>2. /\ CommandBytes(r) <= BytesBefore(s.cmds)[n]
        /\ Once(s.cmds) => Once(r)
    BY <1>1, <2>1, RebuiltShrinks DEF Once
  <2> QED
    BY <1>1, <2>2 DEF CommandBytes
<1>4. t = [s EXCEPT !.cmds = r]
  BY DEF Removed
<1> HIDE DEF r, t, n
<1>5. /\ t \in SliceState /\ t.cmds = r /\ t.hasSignature = s.hasSignature
      /\ t.alternate = s.alternate
  BY <1>1, <1>2, <1>4 DEF SliceState
<1>6. Used(t) <= Room
  BY <1>1, <1>2, <1>3, <1>5, CommandBytesType, SizeAssumption DEF Used, SignatureCommandSize
<1> QED
  BY <1>1, <1>3, <1>5, <1>6 DEF Sound, t

LEMMA DigestType ==
  ASSUME NEW s \in SliceState, NEW h \in {"sha1", "sha256"}
  PROVE  Digest(s, h) \in CodeDirectory /\ Digest(s, h).hash = h
<1>1. FirstPage(s) \in Page
  BY SliceFields DEF FirstPage, Page
<1> QED
  BY <1>1 DEF Digest, CodeDirectory

LEMMA NoDirectoryType == NoDirectory \in CodeDirectory /\ NoDirectory.hash = "none"
<1>1. <<>> \in Seq(Command)
  BY EmptySeq
<1> QED
  BY <1>1 DEF NoDirectory, CodeDirectory, Page

(* A signature changes the code directories only; a forced one covers the  *)
(* slice.                                                                  *)
LEMMA SignedSound ==
  ASSUME NEW s, Sound(s), NEW force \in BOOLEAN, NEW both \in BOOLEAN
  PROVE  /\ Sound(Signed(s, force, both))
         /\ Signed(s, force, both).cmds = s.cmds
         /\ Signed(s, force, both).hasSignature = s.hasSignature
         /\ Signed(s, force, both).capacity = s.capacity
         /\ force => Covers(Signed(s, force, both))
<1> DEFINE d1 == Directory(s, "sha1", force, s.primary)
           d2 == Directory(s, "sha256", force, s.alternate)
           t == Signed(s, force, both)
<1>1. /\ s \in SliceState /\ s.alternate.hash # "sha1" /\ Used(s) <= Room /\ Once(s.cmds)
      /\ s.primary \in CodeDirectory /\ s.alternate \in CodeDirectory
  BY SliceFields DEF Sound
<1>2. /\ d1 \in CodeDirectory /\ d1.hash = "sha1"
      /\ force => d1.page = FirstPage(s)
  BY <1>1, DigestType DEF Directory, Digest
<1>3. /\ d2 \in CodeDirectory /\ d2.hash = "sha256"
      /\ force => d2.page = FirstPage(s)
  BY <1>1, DigestType DEF Directory, Digest
<1>4. t = IF both THEN [s EXCEPT !.primary = d1, !.alternate = d2]
                  ELSE [s EXCEPT !.primary = d2, !.alternate = NoDirectory]
  BY DEF Signed
<1> HIDE DEF d1, d2, t
<1>5. /\ t \in SliceState /\ t.cmds = s.cmds /\ t.hasSignature = s.hasSignature
      /\ t.capacity = s.capacity
      /\ \/ t.primary = d1 /\ t.alternate = d2
         \/ t.primary = d2 /\ t.alternate = NoDirectory
  <2>1. CASE both
    BY <1>1, <1>2, <1>3, <1>4, <2>1 DEF SliceState
  <2>2. CASE ~both
    BY <1>1, <1>3, <1>4, <2>2, NoDirectoryType DEF SliceState
  <2> QED
    BY <2>1, <2>2
<1>6. Used(t) = Used(s) /\ FirstPage(t) = FirstPage(s)
  BY <1>5 DEF Used, FirstPage
<1>7. Sound(t)
  BY <1>1, <1>2, <1>3, <1>5, <1>6, NoDirectoryType DEF Sound
<1>8. force => Covers(t)
  BY <1>2, <1>3, <1>5, <1>6, NoDirectoryType DEF Covers
<1> QED
  BY <1>5, <1>7, <1>8 DEF t

LEMMA ReallocatedSound ==
  ASSUME NEW s, Sound(s), CanReallocate(s)
  PROVE  Sound(Reallocated(s)) /\ Reallocated(s).cmds = s.cmds
<1> DEFINE t == Reallocated(s)
<1>1. /\ s \in SliceState /\ s.alternate.hash # "sha1" /\ Used(s) <= Room /\ Once(s.cmds)
      /\ s.hasSignature \in BOOLEAN /\ CommandBytes(s.cmds) \in Nat /\ Used(s) \in Nat
  BY SliceFields DEF Sound
<1>2. t = [s EXCEPT !.hasSignature = TRUE, !.capacity = Grown]
  BY DEF Reallocated
<1> HIDE DEF t
<1>3. t \in SliceState /\ t.cmds = s.cmds /\ t.hasSignature /\ t.alternate = s.alternate
  BY <1>1, <1>2 DEF SliceState
<1>4. Used(t) <= Room
  BY <1>1, <1>3, SizeAssumption DEF Used, CanReallocate, FreeSpace, SignatureCommandSize
<1> QED
  BY <1>1, <1>3, <1>4 DEF Sound, t

------------------------------------------------------------------------------

LEMMA SoundIsTyped ==
  ASSUME SliceInv
  PROVE  /\ slices \in [Slice -> SliceState]
         /\ LoadCommandsFit /\ NoDuplicateLoads /\ ForcedSignatureCovers
<1>1. slices \in [Slice -> SliceState] /\ ForcedSignatureCovers
  BY DEF SliceInv, SliceTypeOK
<1>2. LoadCommandsFit
  BY DEF SliceInv, Sound, LoadCommandsFit
<1>3. NoDuplicateLoads
  BY SliceFields DEF SliceInv, Sound, NoDuplicateLoads, Once
<1> QED
  BY <1>1, <1>2, <1>3

LEMMA InitSound ==
  ASSUME NEW s \in InitialSlice, Used(s) <= Room
  PROVE  Sound(s)
<1> DEFINE linked == [i \in 1 .. Len(Linked) |-> [name |-> Linked[i], weak |-> FALSE]]
           bare(c) == [cmds |-> linked, hasSignature |-> c > 0, capacity |-> c,
                       primary |-> NoDirectory, alternate |-> NoDirectory]
<1>0. PICK c \in Capacities : \E ds \in Directories(bare(c)) :
        s = [bare(c) EXCEPT !.primary = ds[1], !.alternate = ds[2]]
  BY DEF InitialSlice
<1>1. PICK ds \in Directories(bare(c)) :
        s = [bare(c) EXCEPT !.primary = ds[1], !.alternate = ds[2]]
  BY <1>0
<1>2. Len(Linked) \in Nat /\ \A i \in 1 .. Len(Linked) : Linked[i] \in Dylib
  BY SizeAssumption, LenProperties, ElementOfSeq
<1>3. linked \in Seq(Command) /\ Len(linked) = Len(Linked)
  BY <1>2 DEF Command
<1>4. Once(linked)
  BY <1>2, <1>3, LinkerAssumption DEF Once
<1> HIDE DEF linked
<1>5. bare(c) \in SliceState
  BY <1>3, NoDirectoryType, SizeAssumption DEF SliceState
<1>6. ds[1] \in CodeDirectory /\ ds[2] \in CodeDirectory /\ ds[2].hash # "sha1"
  <2> DEFINE b == bare(c)
  <2>1. /\ Digest(b, "sha1") \in CodeDirectory /\ Digest(b, "sha256") \in CodeDirectory
        /\ Digest(b, "sha256").hash = "sha256"
    BY <1>5, DigestType
  <2>2. \/ ds = <<NoDirectory, NoDirectory>>
        \/ ds = <<Digest(b, "sha256"), NoDirectory>>
        \/ ds = <<Digest(b, "sha1"), NoDirectory>>
        \/ ds = <<Digest(b, "sha1"), Digest(b, "sha256")>>
    <3> HIDE DEF b
    <3> QED
      BY DEF Directories, b
  <2> HIDE DEF b
  <2> QED
    BY <2>1, <2>2, NoDirectoryType
<1>7. s \in SliceState /\ s.cmds = linked /\ s.alternate = ds[2]
  BY <1>1, <1>5, <1>6 DEF SliceState
<1> QED
  BY <1>4, <1>6, <1>7 DEF Sound

LEMMA SliceInit == Init => SliceInv
<1> SUFFICES ASSUME Init PROVE SliceInv
  OBVIOUS
<1>1. /\ slices \in [Slice -> {s \in InitialSlice : Used(s) <= Room}]
      /\ last = "none" /\ need = 0
  BY DEF Init
<1>2. \A i \in Slice : slices[i] \in InitialSlice /\ Used(slices[i]) <= Room
  BY <1>1
<1>3. \A i \in Slice : Sound(slices[i])
  BY <1>2, InitSound
<1>4. slices \in [Slice -> SliceState]
  BY <1>1, <1>3 DEF Sound
<1> QED
  BY <1>1, <1>3, <1>4 DEF SliceInv, SliceTypeOK, Sound, ForcedSignatureCovers

(* A step leaves every slice sound, and until something is removed every   *)
(* command where it was.                                                   *)
Kept(i) == \A j \in DOMAIN slices[i].cmds :
             /\ j \in DOMAIN slices'[i].cmds
             /\ slices'[i].cmds[j].name = slices[i].cmds[j].name

LEMMA InjectStep ==
  ASSUME SliceInv, NEW d \in Dylib, NEW w \in BOOLEAN, InjectDylib(d, w)
  PROVE  SliceInv' /\ \A i \in Slice : Kept(i)
<1>1. \A i \in Slice : Sound(slices[i])
  BY DEF SliceInv
<1>2. CASE /\ \A i \in Slice : Holds(slices[i], d) \/ Fits(slices[i], d)
           /\ slices' = [i \in Slice |-> Injected(slices[i], d, w)]
           /\ last' = "injected"
  <2>1. \A i \in Slice : Sound(slices'[i]) /\ Kept(i)
    BY <1>1, <1>2, InjectedSound DEF Kept
  <2> QED
    BY <1>2, <2>1 DEF InjectDylib, SliceInv, SliceTypeOK, Sound, ForcedSignatureCovers
<1>3. CASE last' = "injectionFailed" /\ UNCHANGED slices
  BY <1>3 DEF InjectDylib, SliceInv, SliceTypeOK, Sound, ForcedSignatureCovers, Kept
<1> QED
  BY <1>2, <1>3 DEF InjectDylib

LEMMA RemoveStep ==
  ASSUME SliceInv, NEW ds, RemoveDylibs(ds)
  PROVE  SliceInv' /\ last' = "removed"
<1>1. /\ slices' = [i \in Slice |-> Removed(slices[i], ds)]
      /\ last' = "removed" /\ UNCHANGED need
  BY DEF RemoveDylibs
<1>2. \A i \in Slice : Sound(slices'[i])
  BY <1>1, RemovedSound DEF SliceInv
<1> QED
  BY <1>1, <1>2 DEF SliceInv, SliceTypeOK, Sound, ForcedSignatureCovers

LEMMA SignStep ==
  ASSUME SliceInv, NEW force \in BOOLEAN, NEW both \in BOOLEAN, NEW n \in Needs,
         Sign(force, both, n)
  PROVE  SliceInv' /\ \A i \in Slice : Kept(i)
<1> DEFINE lacking == {i \in Slice : ~HasSpace(slices[i], n)}
           before(i) == \A j \in lacking : i < j
           partly == [i \in Slice |-> IF before(i) THEN Signed(slices[i], force, both)
                                                   ELSE slices[i]]
           signs == last' = IF force THEN "forced" ELSE "unforced"
<1>1. \A i \in Slice : Sound(slices[i])
  BY DEF SliceInv
<1>2. /\ need' = n
      /\ \/ slices' = [i \in Slice |-> Signed(slices[i], force, both)] /\ signs
         \/ /\ \A i \in Slice : CanReallocate(slices[i])
            /\ slices' = [i \in Slice |-> Signed(Reallocated(partly[i]), force, both)]
            /\ signs
         \/ last' = "signFailed" /\ UNCHANGED slices
  BY DEF Sign, SignFails
<1>3. ASSUME NEW i \in Slice, CanReallocate(slices[i])
      PROVE  Sound(partly[i]) /\ CanReallocate(partly[i]) /\ partly[i].cmds = slices[i].cmds
  <2>1. CASE before(i)
    <3>1. partly[i] = Signed(slices[i], force, both)
      BY <2>1
    <3> HIDE DEF partly
    <3>2. /\ Sound(partly[i]) /\ partly[i].cmds = slices[i].cmds
          /\ partly[i].hasSignature = slices[i].hasSignature
          /\ partly[i].capacity = slices[i].capacity
      BY <1>1, <3>1, SignedSound
    <3> QED
      BY <1>3, <3>2 DEF CanReallocate, FreeSpace, Used
  <2>2. CASE ~before(i)
    BY <1>1, <1>3, <2>2
  <2> QED
    BY <2>1, <2>2
<1> HIDE DEF partly
<1>4. CASE slices' = [i \in Slice |-> Signed(slices[i], force, both)] /\ signs
  <2>1. \A i \in Slice : Sound(slices'[i]) /\ Kept(i) /\ (force => Covers(slices'[i]))
    BY <1>1, <1>4, SignedSound DEF Kept
  <2> QED
    BY <1>2, <1>4, <2>1 DEF SliceInv, SliceTypeOK, Sound, ForcedSignatureCovers
<1>5. CASE /\ \A i \in Slice : CanReallocate(slices[i])
           /\ slices' = [i \in Slice |-> Signed(Reallocated(partly[i]), force, both)]
           /\ signs
  <2>1. ASSUME NEW i \in Slice
        PROVE  Sound(slices'[i]) /\ Kept(i) /\ (force => Covers(slices'[i]))
    <3>1. Sound(Reallocated(partly[i])) /\ Reallocated(partly[i]).cmds = slices[i].cmds
      BY <1>3, <1>5, ReallocatedSound
    <3>2. slices'[i] = Signed(Reallocated(partly[i]), force, both)
      BY <1>5
    <3> QED
      BY <3>1, <3>2, SignedSound DEF Kept
  <2> QED
    BY <1>2, <1>5, <2>1 DEF SliceInv, SliceTypeOK, Sound, ForcedSignatureCovers
<1>6. CASE last' = "signFailed" /\ UNCHANGED slices
  BY <1>2, <1>6 DEF SliceInv, SliceTypeOK, Sound, ForcedSignatureCovers, Kept
<1> QED
  BY <1>2, <1>4, <1>5, <1>6

LEMMA SliceNext ==
  ASSUME SliceInv, [Next]_vars
  PROVE  SliceInv' /\ (last' # "removed" => \A i \in Slice : Kept(i) \/ UNCHANGED vars)
<1>1. ASSUME NEW d \in Dylib, NEW w \in BOOLEAN, InjectDylib(d, w)
      PROVE  SliceInv' /\ \A i \in Slice : Kept(i)
  BY <1>1, InjectStep
<1>2. ASSUME NEW ds \in (SUBSET Dylib) \ {{}}, RemoveDylibs(ds)
      PROVE  SliceInv' /\ last' = "removed"
  BY <1>2, RemoveStep
<1>3. ASSUME NEW force \in BOOLEAN, NEW both \in BOOLEAN, NEW n \in Needs, Sign(force, both, n)
      PROVE  SliceInv' /\ \A i \in Slice : Kept(i)
  BY <1>3, SignStep
<1>4. CASE UNCHANGED vars
  BY <1>4 DEF vars, SliceInv, SliceTypeOK, Sound, ForcedSignatureCovers
<1> QED
  BY <1>1, <1>2, <1>3, <1>4 DEF Next

(* Every reachable state has only sound slices.                            *)
LEMMA SliceInvariant == Spec => []SliceInv
<1>1. Init => SliceInv
  BY SliceInit
<1>2. SliceInv /\ [Next]_vars => SliceInv'
  BY SliceNext
<1> QED
  BY <1>1, <1>2, PTL DEF Spec

(* Injections, removals and signatures keep every slice well typed.        *)
THEOREM SlicesTyped == Spec => []SliceTypeOK
<1>1. SliceInv => SliceTypeOK
  BY DEF SliceInv
<1> QED
  BY <1>1, SliceInvariant, PTL

(* InjectDylib and ReallocCodeSignSpace add commands only where they fit:  *)
(* however many there were before, the first file data is not reached.     *)
THEOREM CommandsFit == Spec => []LoadCommandsFit
<1>1. SliceInv => LoadCommandsFit
  BY SoundIsTyped
<1> QED
  BY <1>1, SliceInvariant, PTL

(* No order of injections and removals makes a slice load a dylib twice.   *)
THEOREM LoadedOnce == Spec => []NoDuplicateLoads
<1>1. SliceInv => NoDuplicateLoads
  BY SoundIsTyped
<1> QED
  BY <1>1, SliceInvariant, PTL

(* A forced signature hashes the first page as it is written, also after   *)
(* SignInPlace has reallocated the space of all slices and begun again.    *)
THEOREM ForcedCovers == Spec => []ForcedSignatureCovers
<1>1. SliceInv => ForcedSignatureCovers
  BY DEF SliceInv
<1> QED
  BY <1>1, SliceInvariant, PTL

(* No injection and no signature moves a command: the ordinals that the    *)
(* linker has bound symbols to stay valid until a dylib is removed.        *)
THEOREM OrdinalsStay == Spec => OrdinalsKept
<1>1. SliceInv /\ [Next]_vars =>
        [last' # "removed" =>
           \A i \in Slice : \A j \in DOMAIN slices[i].cmds :
             /\ j \in DOMAIN slices'[i].cmds
             /\ slices'[i].cmds[j].name = slices[i].cmds[j].name]_vars
  BY SliceNext DEF Kept
<1> QED
  BY <1>1, SliceInvariant, PTL DEF Spec, OrdinalsKept
==============================================================================
