-------------------------- MODULE TweakfsIO_proofs ---------------------------
(***************************************************************************)
(* Proofs about TweakfsIO, for any size of a remote call, any range of     *)
(* offsets, any file, and any number of changes by other clients.          *)
(***************************************************************************)
EXTENDS TweakfsIO, SequenceTheorems, TLAPS

-----------------------------------------------------------------------------
(***************************************************************************)
(* The inductive invariant.  Types first: what "ret" may hold, and what is *)
(* asked of the server, which is more than a remote call carries only      *)
(* after one that was not answered.                                        *)
(***************************************************************************)
Data == Bytes \cup {Junk}

FileT == file \in Seq(Data) /\ Len(file) <= MaxLen
CallT ==
  call # None =>
    /\ call.op \in {"read", "write"} /\ call.size \in Nat \ {0} /\ call.offset \in Nat
    /\ arg.size \in 0 .. Wrap - 1 /\ arg.offset \in 0 .. Wrap - 1
    /\ call.op = "read" => arg.size <= MaxSize
    /\ call.op = "write" =>
         /\ call.size <= MaxSize /\ call.data \in [1 .. call.size -> Bytes]
         /\ link = "up" => arg.size <= call.size
CountT ==
  /\ total \in Nat /\ shorts \in 0 .. MaxShorts /\ link \in {"up", "missed", "down"}
  /\ result \in Int \cup {None}
  /\ seen \in Seq(Seq(Data)) /\ Len(seen) <= MaxChanges + 1 /\ (call # None => Len(seen) >= 1)
RetT ==
  call # None /\ ret # None =>
    ret.ret \in {-1, 0} /\ ret.len \in 0 .. Wrap - 1 /\ ret.bytes \in Seq(Data)
Fresh ==
  call = None => /\ ret = None /\ total = 0 /\ buf = <<>> /\ result = None
                 /\ shorts = 0 /\ link = "up"
ReadT ==
  call # None /\ call.op = "read" =>
    /\ buf \in Seq(Data) /\ Len(buf) = total
    /\ result = None => total < call.size /\ arg.size \in 1 .. call.size - total

Types == FileT /\ CallT /\ CountT /\ RetT /\ Fresh /\ ReadT

(***************************************************************************)
(* A read: each byte that is in the buffer was at its position at some     *)
(* moment, and the moments go forward.  moment[k] is the one of byte k,    *)
(* and position 0 of the read is at "at" in the file.                      *)
(***************************************************************************)
Forward(moment, contents, bytes, at) ==
  /\ \A k \in 1 .. Len(bytes) - 1 : moment[k] <= moment[k + 1]
  /\ \A k \in 1 .. Len(bytes) : /\ at + k \in DOMAIN contents[moment[k]]
                                /\ contents[moment[k]][at + k] = bytes[k]

EndedBefore(contents, k) == \E m \in DOMAIN contents : Len(contents[m]) < k

ReadInv ==
  call # None /\ call.op = "read" /\ link = "up" /\ ~Crosses =>
    /\ file = Last(seen)
    /\ \E moment \in [1 .. total -> DOMAIN seen] :
         Forward(moment, seen, buf, call.offset % Wrap)
    /\ result = None => arg.offset = Position(total)
    /\ result # None =>
         \/ result = -1
         \/ result = total /\ total = call.size
         \/ result = total /\ total < call.size /\ EndedBefore(seen, Position(total + 1))

(***************************************************************************)
(* A write with at most one short call: what was sent so far is in the     *)
(* file, unless others changed it since, and what is left is known.        *)
(***************************************************************************)
Landed(content, before, at, size, data, alone) ==
  \E d \in [1 .. size -> Bytes] :
    /\ content = Pwrite(before, at, d)
    /\ alone => d = data

WriteInv ==
  call # None /\ call.op = "write" /\ link = "up" /\ shorts <= 1 /\ ~Crosses =>
    /\ file \in Seq(Bytes) /\ Last(seen) \in Seq(Bytes)
    /\ result = None =>
         /\ total < call.size /\ total + arg.size = call.size /\ arg.offset = Position(total)
         /\ shorts = 0 => total = 0
         /\ \/ file = Last(seen) /\ (total = 0 \/ Len(seen) > 1)
            \/ /\ total > 0
               /\ file = Pwrite(Last(seen), Position(0), [k \in 1 .. total |-> call.data[k]])
    /\ result = call.size =>
         Landed(file, Last(seen), Position(0), call.size, call.data, Len(seen) = 1)

IInv == Types /\ ReadInv /\ WriteInv

-----------------------------------------------------------------------------
(* Numbers: what is left of an offset in 32 bits. *)

LEMMA Multiples ==
  ASSUME NEW q \in Int, NEW p \in Int, q < p
  PROVE  Wrap * q + Wrap <= Wrap * p
<1>1. Wrap * (p - q) >= Wrap
  BY SizesAssumption, Z3
<1>2. Wrap * (p - q) = Wrap * p - Wrap * q
  BY SizesAssumption
<1>3. Wrap * q \in Int /\ Wrap * p \in Int
  BY SizesAssumption
<1>4. QED
  BY <1>1, <1>2, <1>3, SizesAssumption

LEMMA Fits32 ==
  MaxSize \in Nat /\ MaxSize > 0 /\ Wrap \in Nat /\ Wrap > 0 /\ MaxSize < Wrap
<1>1. MaxSize \in Nat \ {0} /\ Wrap \in Nat \ {0}
  BY SizesAssumption
<1>2. 2 * MaxSize <= Wrap
  BY WrapAssumption
<1>3. QED
  BY <1>1, <1>2

LEMMA Remainder ==
  ASSUME NEW a \in Int
  PROVE  a % Wrap \in 0 .. Wrap - 1
BY SizesAssumption

LEMMA RemainderOfSmall ==
  ASSUME NEW a \in 0 .. Wrap - 1
  PROVE  a % Wrap = a
BY SizesAssumption

LEMMA Division ==
  ASSUME NEW a \in Nat
  PROVE  /\ a \div Wrap \in Nat /\ a % Wrap \in 0 .. Wrap - 1
         /\ a = Wrap * (a \div Wrap) + (a % Wrap)
BY SizesAssumption

\* An offset that moves on moves on in 32 bits too, or goes back to the start.
LEMMA MovesOn ==
  ASSUME NEW a \in Nat, NEW k \in Nat
  PROVE  /\ (a + k) % Wrap <= (a % Wrap) + k
         /\ (a % Wrap) + k < Wrap => (a + k) % Wrap = (a % Wrap) + k
<1> DEFINE q == a \div Wrap
           p == (a + k) \div Wrap
           r == a % Wrap
           s == (a + k) % Wrap
<1>1. q \in Nat /\ r \in 0 .. Wrap - 1 /\ a = Wrap * q + r
  BY Division
<1>2. p \in Nat /\ s \in 0 .. Wrap - 1 /\ a + k = Wrap * p + s
  BY Division
<1> HIDE DEF q, p, r, s
<1>3. Wrap * q \in Int /\ Wrap * p \in Int
  BY <1>1, <1>2, SizesAssumption
<1>4. s <= r + k
  <2>1. CASE p < q
    BY <1>1, <1>2, <1>3, <2>1, Multiples, SizesAssumption
  <2>2. CASE q <= p
    <3>1. Wrap * q <= Wrap * p
      BY <1>1, <1>2, <1>3, <2>2, Multiples, SizesAssumption
    <3>2. QED
      BY <1>1, <1>2, <1>3, <3>1, SizesAssumption
  <2>3. QED
    BY <1>1, <1>2, <2>1, <2>2
<1>5. ASSUME r + k < Wrap PROVE s = r + k
  <2>1. CASE p < q
    <3>1. Wrap * p + Wrap <= Wrap * q
      BY <1>1, <1>2, <2>1, Multiples
    <3>2. QED
      BY <1>1, <1>2, <1>3, <3>1, SizesAssumption
  <2>2. CASE q < p
    <3>1. Wrap * q + Wrap <= Wrap * p
      BY <1>1, <1>2, <2>2, Multiples
    <3>2. QED
      BY <1>1, <1>2, <1>3, <1>5, <3>1, SizesAssumption
  <2>3. CASE q = p
    BY <1>1, <1>2, <1>3, <2>3, SizesAssumption
  <2>4. QED
    BY <1>1, <1>2, <2>1, <2>2, <2>3
<1>6. QED
  BY <1>4, <1>5 DEF r, s

LEMMA MinOf ==
  ASSUME NEW a \in Int, NEW b \in Int
  PROVE  Min({a, b}) = IF a <= b THEN a ELSE b
BY DEF Min

LEMMA MaxOf ==
  ASSUME NEW a \in Int, NEW b \in Int
  PROVE  Max({a, b}) = IF a <= b THEN b ELSE a
BY DEF Max

-----------------------------------------------------------------------------
(* The server: what pread returns and what pwrite leaves. *)

LEMMA PreadIs ==
  ASSUME FileT, NEW size \in Nat, NEW offset \in Nat
  PROVE  LET b == Pread(size, offset) IN
         /\ b \in Seq(Data) /\ Len(b) <= size
         /\ \A j \in 1 .. Len(b) : offset + j \in DOMAIN file /\ b[j] = file[offset + j]
         /\ Len(b) = 0 /\ size > 0 => Len(file) <= offset
<1> DEFINE n == Min({offset + size, Len(file)})
           b == Pread(size, offset)
           l == Len(file)
<1>1. l \in Nat /\ DOMAIN file = 1 .. l /\ \A k \in 1 .. l : file[k] \in Data
  BY DEF FileT
<1> HIDE DEF l
<1>2. l \in Nat
  BY <1>1
<1>3. n = IF offset + size <= l THEN offset + size ELSE l
  BY <1>2, MinOf DEF l
<1>4. b = SubSeq(file, offset + 1, n)
  BY DEF Pread
<1> HIDE DEF n, b
<1>5. n \in Nat /\ n <= offset + size /\ n <= l /\ (n = offset + size \/ n = l)
  BY <1>2, <1>3
<1>6. \A k \in offset + 1 .. n : k \in 1 .. l
  BY <1>2, <1>5
<1>7. /\ b \in Seq(Data) /\ Len(b) = IF offset + 1 <= n THEN n - (offset + 1) + 1 ELSE 0
      /\ \A j \in 1 .. n - (offset + 1) + 1 : b[j] = file[(offset + 1) + j - 1]
  <2>1. offset + 1 \in Int /\ n \in Int /\ \A k \in offset + 1 .. n : file[k] \in Data
    BY <1>1, <1>5, <1>6
  <2>2. QED
    BY <1>4, <2>1, SubSeqProperties
<1>8. /\ n - (offset + 1) + 1 = n - offset
      /\ \A j \in Int : (offset + 1) + j - 1 = offset + j
  BY <1>5
<1>9. /\ Len(b) = IF offset + 1 <= n THEN n - offset ELSE 0
      /\ \A j \in 1 .. n - offset : b[j] = file[offset + j]
  <2>1. Len(b) = IF offset + 1 <= n THEN n - offset ELSE 0
    BY <1>7, <1>8, Zenon
  <2>2. ASSUME NEW j \in 1 .. n - offset
        PROVE  b[j] = file[offset + j]
    <3>1. j \in Int /\ j \in 1 .. n - (offset + 1) + 1
      BY <1>5, <2>2
    <3>2. b[j] = file[(offset + 1) + j - 1]
      BY <1>7, <3>1, Zenon
    <3>3. (offset + 1) + j - 1 = offset + j
      BY <1>8, <3>1, Zenon
    <3>4. QED
      BY <3>2, <3>3, Zenon
  <2>3. QED
    BY <2>1, <2>2, Zenon
<1>10. ASSUME NEW j \in 1 .. Len(b)
       PROVE  offset + j \in DOMAIN file /\ b[j] = file[offset + j]
  <2>1. j \in 1 .. n - offset
    BY <1>5, <1>9
  <2>2. offset + j \in 1 .. l
    BY <1>2, <1>5, <2>1
  <2>3. QED
    BY <1>1, <1>9, <2>1, <2>2
<1>11. Len(b) <= size /\ (Len(b) = 0 /\ size > 0 => l <= offset)
  BY <1>2, <1>5, <1>9
<1>12. QED
  BY <1>7, <1>10, <1>11 DEF b, l

LEMMA PwriteIs ==
  ASSUME NEW S, Zero \in S, NEW content \in Seq(S), NEW p \in Nat, NEW d \in Seq(S)
  PROVE  /\ Pwrite(content, p, d) \in Seq(S)
         /\ Len(Pwrite(content, p, d)) =
              IF Len(content) <= p + Len(d) THEN p + Len(d) ELSE Len(content)
         /\ Pwrite(content, p, d) =
              [k \in 1 .. IF Len(content) <= p + Len(d) THEN p + Len(d) ELSE Len(content) |->
                 IF k \in p + 1 .. p + Len(d) THEN d[k - p]
                 ELSE IF k <= Len(content) THEN content[k] ELSE Zero]
<1> DEFINE n == IF Len(content) <= p + Len(d) THEN p + Len(d) ELSE Len(content)
           c == [k \in 1 .. n |-> IF k \in p + 1 .. p + Len(d) THEN d[k - p]
                                  ELSE IF k <= Len(content) THEN content[k] ELSE Zero]
<1>1. Len(content) \in Nat /\ Len(d) \in Nat /\ n \in Nat
  OBVIOUS
<1>2. Max({Len(content), p + Len(d)}) = n
  BY <1>1, MaxOf
<1>3. Pwrite(content, p, d) = c
  BY <1>2 DEF Pwrite
<1>4. \A k \in p + 1 .. p + Len(d) : d[k - p] \in S
  <2>1. TAKE k \in p + 1 .. p + Len(d)
  <2>2. k - p \in 1 .. Len(d)
    BY <1>1
  <2>3. QED
    BY <2>2
<1>5. \A k \in 1 .. n : k <= Len(content) => content[k] \in S
  BY <1>1
<1> HIDE DEF n
<1>6. c \in [1 .. n -> S]
  BY <1>4, <1>5
<1>7. c \in Seq(S) /\ Len(c) = n
  BY <1>1, <1>6
<1>8. QED
  BY <1>3, <1>7 DEF n

\* How long that is.
LEMMA PwriteLen ==
  ASSUME NEW S, Zero \in S, NEW content \in Seq(S), NEW p \in Nat, NEW d \in Seq(S)
  PROVE  /\ Pwrite(content, p, d) \in Seq(S)
         /\ Len(Pwrite(content, p, d)) =
              IF Len(content) <= p + Len(d) THEN p + Len(d) ELSE Len(content)
BY PwriteIs

LEMMA ResizedIs ==
  ASSUME NEW S, Zero \in S, NEW content \in Seq(S), NEW n \in Nat
  PROVE  Resized(content, n) \in Seq(S) /\ Len(Resized(content, n)) = n
<1>1. \A k \in 1 .. n : k <= Len(content) => content[k] \in S
  OBVIOUS
<1>2. Resized(content, n) \in [1 .. n -> S]
  BY <1>1 DEF Resized
<1>3. QED
  BY <1>2

LEMMA SeqUpToIs ==
  ASSUME NEW n \in Nat, NEW s \in SeqUpTo(n)
  PROVE  s \in Seq(Bytes) /\ s \in Seq(Data) /\ Len(s) \in 0 .. n /\ s \in [1 .. Len(s) -> Bytes]
<1>1. PICK k \in 0 .. n : s \in [1 .. k -> Bytes]
  BY DEF SeqUpTo
<1>2. k \in Nat /\ s \in [1 .. k -> Data]
  BY <1>1 DEF Data
<1>3. Len(s) = k /\ s \in Seq(Bytes) /\ s \in Seq(Data)
  BY <1>1, <1>2
<1>4. QED
  BY <1>1, <1>3

-----------------------------------------------------------------------------
(* A call starts, ends, and meets another client. *)

\* What a call that starts finds.
LEMMA CallsInv ==
  ASSUME IInv, NEW size, NEW offset \in Nat, Calls(size, offset), call'.offset = offset
  PROVE  /\ FileT' /\ CountT' /\ RetT' /\ Fresh'
         /\ total' = 0 /\ buf' = <<>> /\ result' = None /\ shorts' = 0
         /\ arg'.size = size /\ arg'.offset = offset % Wrap
         /\ file' \in Seq(Bytes) /\ seen' = <<file'>> /\ Last(seen') = file' /\ Len(seen') = 1
<1>1. /\ call = None /\ file \in SeqUpTo(MaxLen)
      /\ arg' = [size |-> size, offset |-> offset % Wrap]
      /\ seen' = <<file>>
      /\ UNCHANGED <<file, ret, total, buf, result, turn, shorts, link>>
  BY DEF Calls
<1>2. /\ ret' = None /\ total' = 0 /\ buf' = <<>> /\ result' = None
      /\ shorts' = 0 /\ link' = "up"
  BY <1>1 DEF IInv, Types, Fresh
<1>3. file' \in Seq(Bytes) /\ file' \in Seq(Data)
  BY <1>1, SeqUpToIs, BoundsAssumption
<1>4. seen' = <<file'>> /\ seen' \in Seq(Seq(Data)) /\ Len(seen') = 1
  BY <1>1, <1>3
<1>5. Last(seen') = file'
  BY <1>4 DEF Last
<1>6. FileT' /\ CountT' /\ RetT' /\ Fresh'
  BY <1>1, <1>2, <1>3, <1>4, BoundsAssumption DEF IInv, Types, FileT, CountT, RetT, Fresh
<1>7. QED
  BY <1>1, <1>2, <1>3, <1>4, <1>5, <1>6

LEMMA StartReadInv ==
  ASSUME IInv, NEW size \in Sizes, NEW offset \in Offsets, bb_read(size, offset)
  PROVE  IInv'
<1>1. /\ Calls(Min({size, MaxSize}), offset)
      /\ call' = [op |-> "read", size |-> size, offset |-> offset]
  BY DEF bb_read
<1>2. size \in Nat \ {0} /\ offset \in Nat /\ MaxSize \in Nat \ {0}
  BY SizesAssumption
<1>3. call'.op = "read" /\ call'.size = size /\ call'.offset = offset
  BY <1>1
<1>4. /\ FileT' /\ CountT' /\ RetT' /\ Fresh'
      /\ total' = 0 /\ buf' = <<>> /\ result' = None
      /\ arg'.size = Min({size, MaxSize}) /\ arg'.offset = offset % Wrap
      /\ Last(seen') = file' /\ Len(seen') = 1
  BY <1>1, <1>2, <1>3, CallsInv
<1>5. /\ arg'.size \in 1 .. size /\ arg'.size \in 0 .. MaxSize /\ arg'.size \in 0 .. Wrap - 1
      /\ arg'.offset \in 0 .. Wrap - 1
  <2>1. arg'.size = IF size <= MaxSize THEN size ELSE MaxSize
    BY <1>2, <1>4, MinOf
  <2>2. arg'.size \in 1 .. size /\ arg'.size \in 0 .. MaxSize
    BY <1>2, <2>1
  <2>3. arg'.offset \in 0 .. Wrap - 1
    BY <1>2, <1>4, Division
  <2>4. QED
    BY <2>2, <2>3, Fits32
<1>6. CallT' /\ ReadT'
  BY <1>2, <1>3, <1>4, <1>5 DEF CallT, ReadT
<1>7. ReadInv'
  <2>1. 1 \in DOMAIN seen'
    BY <1>4 DEF CountT
  <2> DEFINE m == [k \in 1 .. total' |-> 1]
  <2>2. m \in [1 .. total' -> DOMAIN seen']
    BY <2>1
  <2>3. Forward(m, seen', buf', call'.offset % Wrap)
    BY <1>4 DEF Forward
  <2>4. arg'.offset = (call'.offset % Wrap) + total'
    BY <1>3, <1>4, <1>5
  <2> HIDE DEF m
  <2>5. QED
    BY <1>4, <2>2, <2>3, <2>4 DEF ReadInv, Position
<1>8. WriteInv'
  BY <1>3 DEF WriteInv
<1>9. QED
  BY <1>4, <1>6, <1>7, <1>8 DEF IInv, Types

LEMMA StartWriteInv ==
  ASSUME IInv, NEW data \in Writings, NEW offset \in Offsets,
         Fits(Len(data), offset), bb_write(data, offset)
  PROVE  IInv'
<1>1. /\ Calls(Len(data), offset)
      /\ call' = [op |-> "write", size |-> Len(data), offset |-> offset, data |-> data]
  BY DEF bb_write
<1>2. Len(data) \in 1 .. MaxSize /\ data \in [1 .. Len(data) -> Bytes] /\ offset \in Nat
  <2>1. MaxSize \in Nat /\ offset \in Nat /\ data \in SeqUpTo(MaxSize) \ {<<>>}
    BY SizesAssumption, WritingsAssumption
  <2>2. data \in Seq(Bytes) /\ Len(data) \in 0 .. MaxSize /\ data \in [1 .. Len(data) -> Bytes]
    BY <2>1, SeqUpToIs
  <2>3. Len(data) # 0
    BY <2>1, <2>2, EmptySeq
  <2>4. QED
    BY <2>1, <2>2, <2>3
<1>3. call'.op = "write" /\ call'.size = Len(data) /\ call'.offset = offset /\ call'.data = data
  BY <1>1
<1>4. /\ FileT' /\ CountT' /\ RetT' /\ Fresh'
      /\ total' = 0 /\ buf' = <<>> /\ result' = None /\ shorts' = 0
      /\ arg'.size = Len(data) /\ arg'.offset = offset % Wrap
      /\ file' \in Seq(Bytes) /\ Last(seen') = file' /\ Len(seen') = 1
  BY <1>1, <1>2, <1>3, CallsInv
<1>5. arg'.offset \in 0 .. Wrap - 1 /\ MaxSize \in Nat /\ arg'.size \in 0 .. Wrap - 1
  BY <1>2, <1>4, Division, Fits32
<1>6. CallT'
  BY <1>2, <1>3, <1>4, <1>5 DEF CallT
<1>7. ReadT' /\ ReadInv'
  BY <1>3 DEF ReadT, ReadInv
<1>8. WriteInv'
  <2>1. result' # call'.size
    BY <1>2, <1>3, <1>4, NoneAssumption
  <2>2. total' < call'.size /\ total' + arg'.size = call'.size
    BY <1>2, <1>3, <1>4
  <2>3. arg'.offset = (call'.offset % Wrap) + total'
    BY <1>3, <1>4, <1>5
  <2>4. QED
    BY <1>4, <2>1, <2>2, <2>3 DEF WriteInv, Position
<1>9. QED
  BY <1>4, <1>6, <1>7, <1>8 DEF IInv, Types

LEMMA ReturnInv ==
  ASSUME IInv, Return
  PROVE  IInv'
<1>1. /\ call' = None /\ arg' = None /\ ret' = None /\ total' = 0 /\ buf' = <<>>
      /\ result' = None /\ turn' = 0 /\ seen' = <<>> /\ shorts' = 0 /\ link' = "up"
      /\ UNCHANGED file
  BY DEF Return
<1>2. Len(seen') = 0 /\ seen' \in Seq(Seq(Data))
  BY <1>1
<1>3. Types'
  BY <1>1, <1>2, BoundsAssumption DEF IInv, Types, FileT, CallT, CountT, RetT, Fresh, ReadT
<1>4. QED
  BY <1>1, <1>3 DEF IInv, ReadInv, WriteInv

\* Another client changes the file within its bound, byte by byte or in length.
LEMMA OtherClientFile ==
  ASSUME FileT, OtherClient
  PROVE  /\ file' \in Seq(Data) /\ Len(file') \in 0 .. MaxLen
         /\ file \in Seq(Bytes) => file' \in Seq(Bytes)
<1>1. file \in Seq(Data) /\ Len(file) \in Nat /\ Len(file) <= MaxLen /\ MaxLen \in Nat
  BY BoundsAssumption DEF FileT
<1>2. Zero \in Bytes /\ Zero \in Data /\ Bytes \subseteq Data
  BY BytesAssumption DEF Data
<1>3. CASE \E p \in 0 .. MaxLen - 1, b \in Bytes : file' = Pwrite(file, p, <<b>>)
  <2>1. PICK p \in 0 .. MaxLen - 1, b \in Bytes : file' = Pwrite(file, p, <<b>>)
    BY <1>3
  <2> DEFINE d == <<b>>
  <2>2. p \in Nat /\ p + 1 <= MaxLen /\ Len(d) = 1 /\ d \in Seq(Bytes) /\ d \in Seq(Data)
    BY <1>1, <1>2, <2>1
  <2>3. file' = Pwrite(file, p, d)
    BY <2>1
  <2> HIDE DEF d
  <2>4. /\ file' \in Seq(Data)
        /\ Len(file') = IF Len(file) <= p + Len(d) THEN p + Len(d) ELSE Len(file)
    <3>1. Zero \in Data /\ file \in Seq(Data) /\ p \in Nat /\ d \in Seq(Data)
      BY <1>1, <1>2, <2>2
    <3>2. /\ Pwrite(file, p, d) \in Seq(Data)
          /\ Len(Pwrite(file, p, d)) =
               IF Len(file) <= p + Len(d) THEN p + Len(d) ELSE Len(file)
      BY <3>1, PwriteLen
    <3>3. QED
      BY <2>3, <3>2
  <2>5. file \in Seq(Bytes) => file' \in Seq(Bytes)
    BY <1>2, <2>2, <2>3, PwriteLen
  <2>6. Len(file') \in 0 .. MaxLen
    BY <1>1, <2>2, <2>4
  <2>7. QED
    BY <2>4, <2>5, <2>6
<1>4. CASE \E n \in 0 .. MaxLen : file' = Resized(file, n)
  <2>1. PICK n \in 0 .. MaxLen : file' = Resized(file, n)
    BY <1>4
  <2>2. n \in Nat
    BY <1>1
  <2>3. file' \in Seq(Data) /\ Len(file') = n
    BY <1>1, <1>2, <2>1, <2>2, ResizedIs
  <2>4. file \in Seq(Bytes) => file' \in Seq(Bytes)
    BY <1>2, <2>1, <2>2, ResizedIs
  <2>5. QED
    BY <2>3, <2>4
<1>5. QED
  BY <1>3, <1>4 DEF OtherClient

LEMMA OtherClientInv ==
  ASSUME IInv, OtherClient
  PROVE  IInv'
<1>1. /\ call # None /\ result = None /\ Len(seen) <= MaxChanges
      /\ seen' = Append(seen, file')
      /\ UNCHANGED <<call, arg, ret, total, buf, result, turn, shorts, link>>
  BY DEF OtherClient
<1>2. /\ file' \in Seq(Data) /\ Len(file') \in 0 .. MaxLen
      /\ file \in Seq(Bytes) => file' \in Seq(Bytes)
  BY OtherClientFile DEF IInv, Types
<1>3. seen \in Seq(Seq(Data)) /\ Len(seen) \in Nat /\ Len(seen) >= 1 /\ MaxChanges \in Nat
  BY <1>1, BoundsAssumption DEF IInv, Types, CountT
<1>4. /\ seen' \in Seq(Seq(Data)) /\ Len(seen') = Len(seen) + 1 /\ Last(seen') = file'
      /\ \A k \in DOMAIN seen : k \in DOMAIN seen' /\ seen'[k] = seen[k]
  <2>1. /\ seen' \in Seq(Seq(Data)) /\ Len(seen') = Len(seen) + 1
        /\ \A k \in 1 .. Len(seen) : seen'[k] = seen[k]
        /\ seen'[Len(seen) + 1] = file'
    BY <1>1, <1>2, <1>3, AppendProperties
  <2>2. DOMAIN seen = 1 .. Len(seen) /\ DOMAIN seen' = 1 .. Len(seen) + 1
    BY <1>3, <2>1
  <2>3. \A k \in 1 .. Len(seen) : k \in 1 .. Len(seen) + 1
    BY <1>3
  <2>4. QED
    BY <2>1, <2>2, <2>3 DEF Last
<1>5. Types'
  <2>1. FileT'
    BY <1>2, BoundsAssumption DEF FileT
  <2>2. CountT'
    BY <1>1, <1>3, <1>4 DEF IInv, Types, CountT
  <2>3. CallT' /\ RetT' /\ Fresh' /\ ReadT'
    BY <1>1 DEF IInv, Types, CallT, RetT, Fresh, ReadT, Position
  <2>4. QED
    BY <2>1, <2>2, <2>3 DEF Types
<1>6. ReadInv'
  <2> SUFFICES ASSUME call.op = "read", link = "up", ~Crosses
               PROVE  /\ \E moment \in [1 .. total -> DOMAIN seen'] :
                           Forward(moment, seen', buf, call.offset % Wrap)
                      /\ arg.offset = Position(total)
    BY <1>1, <1>4 DEF ReadInv, Crosses, Position
  <2>1. PICK moment \in [1 .. total -> DOMAIN seen] :
          Forward(moment, seen, buf, call.offset % Wrap)
    BY <1>1 DEF IInv, ReadInv
  <2>2. moment \in [1 .. total -> DOMAIN seen']
    BY <1>4, <2>1
  <2>3. Len(buf) = total
    BY <1>1 DEF IInv, Types, ReadT
  <2>4. Forward(moment, seen', buf, call.offset % Wrap)
    BY <1>4, <2>1, <2>3 DEF Forward
  <2>5. QED
    BY <1>1, <2>2, <2>4 DEF IInv, ReadInv
<1>7. WriteInv'
  <2> SUFFICES ASSUME call.op = "write", link = "up", shorts <= 1, ~Crosses
               PROVE  /\ file' \in Seq(Bytes) /\ result # call.size
                      /\ total < call.size /\ total + arg.size = call.size
                      /\ arg.offset = Position(total) /\ (shorts = 0 => total = 0)
                      /\ Len(seen') > 1
    BY <1>1, <1>4 DEF WriteInv, Crosses, Position
  <2>1. Len(seen') > 1
    BY <1>3, <1>4
  <2>2. result # call.size
    BY <1>1, NoneAssumption DEF IInv, Types, CallT
  <2>3. QED
    BY <1>1, <1>2, <2>1, <2>2 DEF IInv, WriteInv
<1>8. QED
  BY <1>5, <1>6, <1>7 DEF IInv

-----------------------------------------------------------------------------
(* What "ret" holds after a remote call. *)

LEMMA RefusalIs ==
  Refusal.ret = -1 /\ Refusal.len \in 0 .. Wrap - 1 /\ Refusal.bytes \in Seq(Data)
<1>1. Refusal.ret = -1 /\ Refusal.len = 0 /\ Refusal.bytes = <<>>
  BY DEF Refusal
<1>2. QED
  BY <1>1, Fits32

\* Garbage, or what was there before.
LEMMA NoAnswerIs ==
  ASSUME IInv, call # None, NoAnswer
  PROVE  /\ link' \in {"missed", "down"}
         /\ ret'.ret \in {-1, 0} /\ ret'.len \in 0 .. Wrap - 1 /\ ret'.bytes \in Seq(Data)
<1>1. link' \in {"missed", "down"}
  BY DEF NoAnswer
<1>2. CASE ret # None
  BY <1>1, <1>2 DEF NoAnswer, IInv, Types, RetT
<1>3. CASE ret = None
  <2> DEFINE junk == [j \in 1 .. MaxSize |-> Junk]
  <2>1. ret' = Refusal \/ \E k \in 0 .. Wrap - 1 : ret' = Success(k, junk)
    BY <1>3 DEF NoAnswer, Uninitialised
  <2>2. junk \in Seq(Data)
    <3>1. junk \in [1 .. MaxSize -> Data]
      BY DEF Data
    <3>2. QED
      BY <3>1, Fits32
  <2> HIDE DEF junk
  <2>3. ASSUME NEW k \in 0 .. Wrap - 1, ret' = Success(k, junk)
        PROVE  ret'.ret = 0 /\ ret'.len = k /\ ret'.bytes = junk
    BY <2>3 DEF Success
  <2>4. QED
    BY <1>1, <2>1, <2>2, <2>3, RefusalIs
<1>4. QED
  BY <1>2, <1>3

-----------------------------------------------------------------------------
(* A round of a read. *)

\* What "ret" holds after the remote call; when none went unanswered it is what
\* the server read, or an error.
LEMMA ReadAnswer ==
  ASSUME IInv, ReadRound
  PROVE  /\ call # None /\ call.op = "read" /\ result = None
         /\ ret'.ret \in {-1, 0} /\ ret'.len \in 0 .. Wrap - 1 /\ ret'.bytes \in Seq(Data)
         /\ link' \in {"up", "missed", "down"}
         /\ link' = "up" => /\ link = "up"
                            /\ \/ ret'.ret < 0
                               \/ ret' = Piece(Pread(arg.size, arg.offset))
<1>1. /\ call # None /\ call.op = "read" /\ result = None
      /\ \/ ret' \in {Piece(Pread(arg.size, arg.offset)), Refusal} /\ Answers
         \/ NoAnswer
  BY DEF ReadRound, Running
<1>2. arg.size \in 0 .. MaxSize /\ arg.offset \in Nat /\ arg.size \in Nat
  BY <1>1, Fits32 DEF IInv, Types, CallT
<1>3. link \in {"up", "missed", "down"}
  BY DEF IInv, Types, CountT
<1>4. CASE ret' = Piece(Pread(arg.size, arg.offset)) /\ Answers
  <2>1. /\ Pread(arg.size, arg.offset) \in Seq(Data)
        /\ Len(Pread(arg.size, arg.offset)) <= arg.size
    BY <1>2, PreadIs DEF IInv, Types
  <2>2. Len(Pread(arg.size, arg.offset)) \in 0 .. Wrap - 1
    BY <1>2, <2>1, Fits32
  <2>3. /\ ret'.ret = 0 /\ ret'.len = Len(Pread(arg.size, arg.offset))
        /\ ret'.bytes = Pread(arg.size, arg.offset)
    BY <1>4 DEF Piece, Success
  <2>4. QED
    BY <1>1, <1>3, <1>4, <2>1, <2>2, <2>3 DEF Answers
<1>5. CASE ret' = Refusal /\ Answers
  BY <1>1, <1>3, <1>5, RefusalIs DEF Answers
<1>6. CASE NoAnswer
  BY <1>1, <1>6, NoAnswerIs
<1>7. QED
  BY <1>1, <1>4, <1>5, <1>6

\* What a round comes to: an error, the end of the file, or a piece.
Failed == ret'.ret < 0 /\ result' = -1 /\ UNCHANGED <<arg, total, buf>>
AtEnd == ret'.len = 0 /\ ret'.ret >= 0 /\ result' = total /\ UNCHANGED <<arg, total, buf>>
Got ==
  /\ ret'.len > 0 /\ ret'.ret >= 0 /\ total' = total + ret'.len
  /\ buf' \in Seq(Data) /\ Len(buf') = total'
  /\ \A k \in 1 .. total : buf'[k] = buf[k]
  /\ \A j \in 1 .. ret'.len : j <= Len(ret'.bytes) => buf'[total + j] = ret'.bytes[j]
  /\ \/ /\ total' < call.size /\ result' = None
        /\ arg'.size \in 1 .. call.size - total' /\ arg'.size \in 0 .. MaxSize
        /\ arg'.offset = (arg.offset + ret'.len) % Wrap
     \/ total' >= call.size /\ result' = total' /\ UNCHANGED arg

LEMMA ReadRoundSteps ==
  ASSUME IInv, ReadRound
  PROVE  UNCHANGED <<file, call, seen, shorts>> /\ (Failed \/ AtEnd \/ Got)
<1>1. /\ call # None /\ call.op = "read" /\ result = None
      /\ ret'.len \in Nat /\ ret'.bytes \in Seq(Data)
  BY ReadAnswer, Fits32
<1>2. total \in Nat /\ buf \in Seq(Data) /\ Len(buf) = total /\ call.size \in Nat
  BY <1>1 DEF IInv, Types, CountT, CallT, ReadT
<1>3. UNCHANGED <<file, call, seen, shorts>> /\ TakesPiece
  BY DEF ReadRound
<1>4. ASSUME ret'.len > 0, buf' = buf \o Taken, total' = total + ret'.len
      PROVE  /\ buf' \in Seq(Data) /\ Len(buf') = total'
             /\ \A k \in 1 .. total : buf'[k] = buf[k]
             /\ \A j \in 1 .. ret'.len : j <= Len(ret'.bytes) => buf'[total + j] = ret'.bytes[j]
  <2> DEFINE b == ret'.bytes
             n == ret'.len
             c == [k \in 1 .. n |-> IF k <= Len(b) THEN b[k] ELSE Junk]
  <2>1. b \in Seq(Data) /\ n \in Nat /\ n > 0 /\ buf' = buf \o c
    BY <1>1, <1>4 DEF Taken
  <2> HIDE DEF b, n
  <2>2. c \in [1 .. n -> Data]
    <3>1. ASSUME NEW k \in 1 .. n PROVE (IF k <= Len(b) THEN b[k] ELSE Junk) \in Data
      BY <2>1 DEF Data
    <3>2. QED
      BY <3>1
  <2>3. \A j \in 1 .. n : j <= Len(b) => c[j] = b[j]
    OBVIOUS
  <2> HIDE DEF c
  <2>4. c \in Seq(Data) /\ Len(c) = n
    BY <2>1, <2>2
  <2>5. /\ buf' \in Seq(Data) /\ Len(buf') = total + n
        /\ \A i \in 1 .. total + n : buf'[i] = IF i <= total THEN buf[i] ELSE c[i - total]
    BY <1>2, <2>1, <2>4, ConcatProperties, ZenonT(40)
  <2>6. \A k \in 1 .. total : k \in 1 .. total + n /\ k <= total
    BY <1>2, <2>1
  <2>7. \A j \in 1 .. n : total + j \in 1 .. total + n /\ ~(total + j <= total) /\ (total + j) - total = j
    BY <1>2, <2>1
  <2>8. /\ \A k \in 1 .. total : buf'[k] = buf[k]
        /\ \A j \in 1 .. n : j <= Len(b) => buf'[total + j] = b[j]
    BY <2>3, <2>5, <2>6, <2>7
  <2>9. QED
    BY <1>4, <2>5, <2>8 DEF n, b
<1>5. ASSUME NextPiece(call.size - total'), total' < call.size, total' \in Int
      PROVE  /\ arg'.size \in 1 .. call.size - total' /\ arg'.size \in 0 .. MaxSize
             /\ arg'.offset = (arg.offset + ret'.len) % Wrap /\ result' = None
  <2>1. /\ arg'.size = Min({call.size - total', MaxSize}) /\ result' = None
        /\ arg'.offset = (arg.offset + ret'.len) % Wrap
    BY <1>1, <1>5 DEF NextPiece
  <2> DEFINE left == call.size - total'
  <2>2. left \in Nat /\ left > 0 /\ MaxSize \in Nat /\ MaxSize > 0
    BY <1>2, <1>5, SizesAssumption
  <2> HIDE DEF left
  <2>3. arg'.size = IF left <= MaxSize THEN left ELSE MaxSize
    BY <2>1, <2>2, MinOf DEF left
  <2>4. arg'.size \in 1 .. left /\ arg'.size \in 0 .. MaxSize
    BY <2>2, <2>3
  <2>5. QED
    BY <2>1, <2>4 DEF left
<1>6. ASSUME /\ ret'.len > 0 /\ ret'.ret >= 0 /\ buf' = buf \o Taken
             /\ total' = total + ret'.len
             /\ IF total' < call.size THEN NextPiece(call.size - total') ELSE Returns(total')
      PROVE  Got
  <2>1. total' \in Int /\ (total' < call.size \/ total' >= call.size)
    BY <1>1, <1>2, <1>6
  <2>2. CASE total' < call.size
    <3>1. /\ arg'.size \in 1 .. call.size - total' /\ arg'.size \in 0 .. MaxSize
          /\ arg'.offset = (arg.offset + ret'.len) % Wrap /\ result' = None
      BY <1>5, <1>6, <2>1, <2>2
    <3>2. QED
      BY <1>4, <1>6, <2>2, <3>1 DEF Got
  <2>3. CASE ~(total' < call.size)
    BY <1>4, <1>6, <2>1, <2>3 DEF Got, Returns
  <2>4. QED
    BY <2>2, <2>3
<1>7. Failed \/ AtEnd \/ Got
  BY <1>3, <1>6 DEF TakesPiece, Fails, Returns, Failed, AtEnd
<1>8. QED
  BY <1>3, <1>7

LEMMA ReadRoundTypes ==
  ASSUME IInv, ReadRound
  PROVE  Types'
<1>1. /\ call # None /\ call.op = "read" /\ result = None
      /\ ret'.ret \in {-1, 0} /\ ret'.len \in 0 .. Wrap - 1 /\ ret'.bytes \in Seq(Data)
      /\ link' \in {"up", "missed", "down"}
  BY ReadAnswer
<1>2. UNCHANGED <<file, call, seen, shorts>>
  BY ReadRoundSteps
<1>3. /\ total \in Nat /\ buf \in Seq(Data) /\ Len(buf) = total
      /\ call.size \in Nat \ {0} /\ call.offset \in Nat
      /\ arg.size \in 0 .. MaxSize /\ arg.offset \in 0 .. Wrap - 1
      /\ total < call.size
  BY <1>1, Fits32 DEF IInv, Types, CountT, CallT, ReadT
<1>4. /\ total' \in Nat /\ result' \in Int \cup {None} /\ buf' \in Seq(Data) /\ Len(buf') = total'
      /\ arg'.size \in 0 .. MaxSize /\ arg'.offset \in 0 .. Wrap - 1
      /\ result' = None => total' < call.size /\ arg'.size \in 1 .. call.size - total'
  <2>1. CASE Failed \/ AtEnd
    BY <1>3, <2>1, NoneAssumption DEF Failed, AtEnd
  <2>2. CASE Got
    <3>1. total' \in Nat /\ arg.offset + ret'.len \in Nat
      BY <1>1, <1>3, <2>2, Fits32 DEF Got
    <3>2. (arg.offset + ret'.len) % Wrap \in 0 .. Wrap - 1
      BY <3>1, Division
    <3>3. QED
      BY <1>3, <2>2, <3>1, <3>2, NoneAssumption DEF Got
  <2>3. QED
    BY <2>1, <2>2, ReadRoundSteps
<1>5. FileT' /\ CountT'
  BY <1>1, <1>2, <1>4 DEF IInv, Types, FileT, CountT
<1>6. CallT' /\ RetT' /\ Fresh' /\ ReadT'
  BY <1>1, <1>2, <1>3, <1>4, Fits32 DEF CallT, RetT, Fresh, ReadT
<1>7. QED
  BY <1>5, <1>6 DEF Types

\* The moments of the bytes that were there, and now for the ones that came.
LEMMA ForwardGrows ==
  ASSUME NEW t \in Nat, NEW n \in Nat, NEW contents \in Seq(Seq(Data)), Len(contents) >= 1,
         NEW bytes \in Seq(Data), Len(bytes) = t, NEW more \in Seq(Data), Len(more) = t + n,
         NEW at \in Nat, NEW moment \in [1 .. t -> DOMAIN contents],
         Forward(moment, contents, bytes, at),
         \A k \in 1 .. t : more[k] = bytes[k],
         \A j \in 1 .. n : /\ at + (t + j) \in DOMAIN contents[Len(contents)]
                           /\ more[t + j] = contents[Len(contents)][at + (t + j)]
  PROVE  \E m \in [1 .. t + n -> DOMAIN contents] : Forward(m, contents, more, at)
<1> DEFINE l == Len(contents)
           m == [k \in 1 .. t + n |-> IF k <= t THEN moment[k] ELSE l]
<1>1. l \in Nat /\ l \in 1 .. l /\ DOMAIN contents = 1 .. l
  OBVIOUS
<1> HIDE DEF l
<1>2. \A k \in 1 .. t : moment[k] \in 1 .. l
  BY <1>1
<1>3. \A k \in 1 .. t + n : \/ k \in 1 .. t /\ m[k] = moment[k]
                            \/ \E j \in 1 .. n : k = t + j /\ m[k] = l
  <2>1. TAKE k \in 1 .. t + n
  <2>2. CASE k <= t
    BY <2>2
  <2>3. CASE ~(k <= t)
    <3>1. k - t \in 1 .. n /\ k = t + (k - t)
      BY <2>3
    <3>2. QED
      BY <2>3, <3>1
  <2>4. QED
    BY <2>2, <2>3
<1>4. m \in [1 .. t + n -> 1 .. l]
  BY <1>1, <1>2
<1>5. \A k \in 1 .. t : m[k] = moment[k]
  OBVIOUS
<1>6. \A k \in 1 .. t + n : ~(k <= t) => m[k] = l
  OBVIOUS
<1> HIDE DEF m
<1>7. ASSUME NEW k \in 1 .. (t + n) - 1 PROVE m[k] <= m[k + 1]
  <2>1. k \in 1 .. t + n /\ k + 1 \in 1 .. t + n /\ m[k] \in 1 .. l /\ m[k + 1] \in 1 .. l
    BY <1>4
  <2>2. CASE k + 1 <= t
    <3>1. k \in 1 .. t - 1 /\ k \in 1 .. t /\ k + 1 \in 1 .. t
      BY <2>2
    <3>2. moment[k] <= moment[k + 1]
      BY <3>1 DEF Forward
    <3>3. QED
      BY <1>5, <3>1, <3>2
  <2>3. CASE ~(k + 1 <= t)
    BY <1>1, <1>6, <2>1, <2>3
  <2>4. QED
    BY <2>2, <2>3
<1>8. ASSUME NEW k \in 1 .. t + n
      PROVE  at + k \in DOMAIN contents[m[k]] /\ contents[m[k]][at + k] = more[k]
  <2>1. CASE k \in 1 .. t /\ m[k] = moment[k]
    BY <2>1 DEF Forward
  <2>2. CASE \E j \in 1 .. n : k = t + j /\ m[k] = l
    BY <2>2 DEF l
  <2>3. QED
    BY <1>3, <2>1, <2>2
<1>9. Forward(m, contents, more, at)
  BY <1>7, <1>8 DEF Forward
<1>10. QED
  BY <1>1, <1>4, <1>9

LEMMA ReadRoundInv ==
  ASSUME IInv, ReadRound
  PROVE  ReadInv'
<1> SUFFICES ASSUME link' = "up", ~Crosses
             PROVE  /\ file' = Last(seen')
                    /\ \E moment \in [1 .. total' -> DOMAIN seen'] :
                         Forward(moment, seen', buf', call'.offset % Wrap)
                    /\ result' = None => arg'.offset = (call'.offset % Wrap) + total'
                    /\ result' # None =>
                         \/ result' = -1
                         \/ result' = total' /\ total' = call'.size
                         \/ /\ result' = total' /\ total' < call'.size
                            /\ EndedBefore(seen', (call'.offset % Wrap) + (total' + 1))
  <2>1. UNCHANGED call
    BY ReadRoundSteps
  <2>2. Crosses' <=> Crosses
    BY <2>1 DEF Crosses, Position
  <2>3. QED
    BY <2>2 DEF ReadInv, Position
<1> DEFINE at == call.offset % Wrap
           b == Pread(arg.size, arg.offset)
<1>1. /\ call # None /\ call.op = "read" /\ result = None /\ link = "up"
      /\ ret'.len \in Nat /\ ret'.ret \in {-1, 0} /\ (ret'.ret < 0 \/ ret' = Piece(b))
  BY ReadAnswer, Fits32
<1>2. UNCHANGED <<file, call, seen, shorts>>
  BY ReadRoundSteps
<1>3. /\ total \in Nat /\ buf \in Seq(Data) /\ Len(buf) = total
      /\ call.size \in Nat \ {0} /\ call.offset \in Nat
      /\ arg.size \in 1 .. call.size - total /\ arg.offset \in 0 .. Wrap - 1
      /\ total < call.size
      /\ seen \in Seq(Seq(Data)) /\ Len(seen) \in Nat /\ Len(seen) >= 1
  BY <1>1 DEF IInv, Types, CountT, CallT, ReadT
<1>4. /\ file = Last(seen) /\ arg.offset = at + total
      /\ \E moment \in [1 .. total -> DOMAIN seen] : Forward(moment, seen, buf, at)
  BY <1>1 DEF IInv, ReadInv, Position
<1>5. at \in 0 .. Wrap - 1 /\ Wrap \in Nat /\ at + call.size <= Wrap
  <2>1. at \in 0 .. Wrap - 1 /\ Wrap \in Nat
    BY <1>3, Division, SizesAssumption
  <2>2. ~(at + call.size > Wrap)
    BY DEF Crosses, Position
  <2> HIDE DEF at
  <2>3. QED
    BY <1>3, <2>1, <2>2
<1>6. file = seen[Len(seen)] /\ Len(seen) \in DOMAIN seen
  BY <1>3, <1>4 DEF Last
<1>7. /\ b \in Seq(Data) /\ Len(b) <= arg.size
      /\ \A j \in 1 .. Len(b) : arg.offset + j \in DOMAIN file /\ b[j] = file[arg.offset + j]
      /\ Len(b) = 0 /\ arg.size > 0 => Len(file) <= arg.offset
  <2>1. arg.size \in Nat /\ arg.offset \in Nat /\ FileT
    BY <1>3, <1>5 DEF IInv, Types
  <2>2. QED
    BY <2>1, PreadIs
<1>8. ret' = Piece(b) => ret'.len = Len(b) /\ ret'.bytes = b
  BY DEF Piece, Success
<1> HIDE DEF at, b
<1>9. call'.offset % Wrap = at
  BY <1>2 DEF at
<1>10. CASE Failed
  BY <1>2, <1>4, <1>9, <1>10, NoneAssumption DEF Failed
<1>11. CASE AtEnd
  <2>1. Len(file) <= at + total
    BY <1>1, <1>3, <1>4, <1>7, <1>8, <1>11 DEF AtEnd
  <2>2. Len(file) < at + (total + 1)
    <3>1. Len(file) \in Nat
      BY DEF IInv, Types, FileT
    <3>2. QED
      BY <1>3, <1>5, <2>1, <3>1
  <2>3. EndedBefore(seen, at + (total + 1))
    BY <1>6, <2>2 DEF EndedBefore
  <2>4. total # None
    BY <1>3, NoneAssumption
  <2>5. QED
    BY <1>2, <1>3, <1>4, <1>9, <1>11, <2>3, <2>4 DEF AtEnd
<1>12. CASE Got
  <2> DEFINE n == Len(b)
  <2>1. n \in Nat /\ n > 0 /\ ret'.len = n /\ ret'.bytes = b /\ n <= arg.size
    BY <1>1, <1>7, <1>8, <1>12 DEF Got
  <2> HIDE DEF n
  <2>2. total' = total + n /\ Len(buf') = total + n /\ total' <= call.size
    BY <1>3, <1>12, <2>1 DEF Got
  <2>3. \A j \in 1 .. n : /\ at + (total + j) \in DOMAIN seen[Len(seen)]
                          /\ buf'[total + j] = seen[Len(seen)][at + (total + j)]
    <3>1. \A j \in 1 .. n : (at + total) + j = at + (total + j)
      BY <1>3, <1>5, <2>1
    <3>2. QED
      BY <1>4, <1>6, <1>7, <1>12, <2>1, <3>1 DEF n, Got
  <2>4. \E m \in [1 .. total + n -> DOMAIN seen] : Forward(m, seen, buf', at)
    <3>1. at \in Nat
      BY <1>5
    <3>2. QED
      BY <1>3, <1>4, <1>12, <2>1, <2>2, <2>3, <3>1, ForwardGrows DEF Got
  <2>5. result' = None => arg'.offset = at + total'
    <3>1. CASE total' < call.size /\ arg'.offset = (arg.offset + ret'.len) % Wrap
      <4>1. arg.offset + ret'.len = at + total' /\ at + total' \in 0 .. Wrap - 1
        BY <1>3, <1>4, <1>5, <2>1, <2>2, <3>1
      <4>2. (at + total') % Wrap = at + total'
        BY <4>1, SizesAssumption
      <4>3. QED
        BY <3>1, <4>1, <4>2
    <3>2. CASE result' = total'
      BY <1>3, <2>1, <2>2, <3>2, NoneAssumption
    <3>3. QED
      BY <1>12, <3>1, <3>2 DEF Got
  <2>6. result' # None => result' = total' /\ total' = call.size
    <3>1. result' # None => result' = total' /\ total' >= call.size
      BY <1>12 DEF Got
    <3>2. total \in Nat /\ call.size \in Nat
      BY <1>3
    <3>3. total' \in Nat /\ (total' >= call.size => total' = call.size)
      BY <2>1, <2>2, <3>2
    <3>4. QED
      BY <3>1, <3>3
  <2>7. QED
    BY <1>2, <1>4, <1>9, <2>2, <2>4, <2>5, <2>6
<1>13. QED
  BY <1>10, <1>11, <1>12, ReadRoundSteps

-----------------------------------------------------------------------------
(* What several pwrites leave. *)

Prefix(data, n) == [k \in 1 .. n |-> data[k]]

LEMMA PrefixIs ==
  ASSUME NEW n \in Nat, NEW data, \A k \in 1 .. n : data[k] \in Bytes
  PROVE  /\ Prefix(data, n) \in [1 .. n -> Bytes] /\ Prefix(data, n) \in Seq(Bytes)
         /\ Len(Prefix(data, n)) = n
         /\ \A k \in 1 .. n : Prefix(data, n)[k] = data[k]
<1>1. Prefix(data, n) \in [1 .. n -> Bytes]
  BY DEF Prefix
<1>2. QED
  BY <1>1 DEF Prefix

\* c, of l bytes, with m bytes of d at position p.
Reach(l, p, m) == IF l <= p + m THEN p + m ELSE l
Overlaid(c, l, p, d, m) ==
  [k \in 1 .. Reach(l, p, m) |-> IF p < k /\ k <= p + m THEN d[k - p]
                                 ELSE IF k <= l THEN c[k] ELSE Zero]

\* n bytes to be written; a name for it keeps sequences out of the steps below.
Sends(d, n) == d \in Seq(Bytes) /\ Len(d) = n

\* What e holds behind its first t bytes, and what its first t bytes are.
Continues(e, t, d, n) == \A j \in 1 .. n : e[t + j] = d[j]
Shows(e, t, c, l, at) == \A k \in 1 .. t : e[k] = IF at + k <= l THEN c[at + k] ELSE Zero

LEMMA PwriteOverlays ==
  ASSUME NEW c \in Seq(Bytes), NEW p \in Nat, NEW d \in Seq(Bytes)
  PROVE  /\ Pwrite(c, p, d) = Overlaid(c, Len(c), p, d, Len(d))
         /\ Pwrite(c, p, d) \in Seq(Bytes) /\ Len(Pwrite(c, p, d)) = Reach(Len(c), p, Len(d))
         /\ Len(c) \in Nat /\ Len(d) \in Nat
<1> DEFINE w == Pwrite(c, p, d)
           n == Reach(Len(c), p, Len(d))
           l == Len(c)
           m == Len(d)
<1>1. /\ w \in Seq(Bytes) /\ Len(w) = n /\ n = IF l <= p + m THEN p + m ELSE l
      /\ w = [k \in 1 .. n |-> IF k \in p + 1 .. p + m THEN d[k - p]
                               ELSE IF k <= l THEN c[k] ELSE Zero]
  BY PwriteIs, BytesAssumption DEF Reach
<1>2. l \in Nat /\ m \in Nat
  OBVIOUS
<1> HIDE DEF w, n, l, m
<1>3. n \in Nat /\ \A k \in 1 .. n : k \in p + 1 .. p + m <=> p < k /\ k <= p + m
  BY <1>1, <1>2
<1>4. [k \in 1 .. n |-> IF k \in p + 1 .. p + m THEN d[k - p]
                        ELSE IF k <= l THEN c[k] ELSE Zero] =
      [k \in 1 .. n |-> IF p < k /\ k <= p + m THEN d[k - p]
                        ELSE IF k <= l THEN c[k] ELSE Zero]
  BY <1>3
<1>5. w = Overlaid(c, l, p, d, m)
  BY <1>1, <1>4 DEF Overlaid, n, l, m
<1>6. QED
  BY <1>1, <1>2, <1>5 DEF n, w, l, m

LEMMA OverlaidPrefix ==
  ASSUME NEW c, NEW l \in Nat, NEW at \in Nat, NEW e, NEW t \in Nat,
         NEW p, \A k \in 1 .. t : p[k] = e[k]
  PROVE  Overlaid(c, l, at, p, t) = Overlaid(c, l, at, e, t)
<1> DEFINE top == Reach(l, at, t)
<1>1. top \in Nat
  BY DEF Reach
<1> HIDE DEF top
<1>2. ASSUME NEW k \in 1 .. top, at < k /\ k <= at + t PROVE p[k - at] = e[k - at]
  <2>1. k - at \in 1 .. t
    BY <1>1, <1>2
  <2>2. QED
    BY <2>1
<1>3. [k \in 1 .. top |-> IF at < k /\ k <= at + t THEN p[k - at]
                          ELSE IF k <= l THEN c[k] ELSE Zero] =
      [k \in 1 .. top |-> IF at < k /\ k <= at + t THEN e[k - at]
                          ELSE IF k <= l THEN c[k] ELSE Zero]
  BY <1>2
<1>4. QED
  BY <1>3 DEF Overlaid, top

\* Two pieces of e, one behind the other, are written as one.
LEMMA OverlaidTwice ==
  ASSUME NEW c, NEW l \in Nat, NEW at \in Nat, NEW t \in Nat, NEW n \in Nat, NEW d, NEW e,
         Continues(e, t, d, n), NEW u \in Nat, u = t + n, NEW s \in Nat, s = at + t,
         NEW r, r = Reach(l, at, t)
  PROVE  Overlaid(Overlaid(c, l, at, e, t), r, s, d, n) = Overlaid(c, l, at, e, u)
<1> DEFINE b == Reach(l, at, t)
           top == Reach(l, at, t + n)
           w == Overlaid(c, l, at, e, t)
           f == Overlaid(w, b, at + t, d, n)
           g == Overlaid(c, l, at, e, t + n)
<1>1. b \in Nat /\ l <= b /\ at + t <= b /\ (b = l \/ b = at + t)
  BY DEF Reach
<1>2. top \in Nat /\ Reach(b, at + t, n) = top
  BY DEF Reach
<1>3. \A k \in 1 .. b : w[k] = IF at < k /\ k <= at + t THEN e[k - at]
                               ELSE IF k <= l THEN c[k] ELSE Zero
  BY DEF Overlaid
<1> HIDE DEF w, b
<1>4. f = [k \in 1 .. top |-> IF at + t < k /\ k <= at + t + n THEN d[k - (at + t)]
                              ELSE IF k <= b THEN w[k] ELSE Zero]
  BY <1>2 DEF Overlaid
<1>5. g = [k \in 1 .. top |-> IF at < k /\ k <= at + (t + n) THEN e[k - at]
                              ELSE IF k <= l THEN c[k] ELSE Zero]
  BY DEF Overlaid
<1> HIDE DEF f, g, top
<1>6. ASSUME NEW k \in 1 .. top PROVE f[k] = g[k]
  <2>1. CASE at + t < k /\ k <= at + t + n
    <3>1. k - (at + t) \in 1 .. n /\ t + (k - (at + t)) = k - at
      BY <1>2, <2>1
    <3>2. d[k - (at + t)] = e[k - at]
      BY <3>1 DEF Continues
    <3>3. f[k] = d[k - (at + t)]
      BY <1>4, <2>1
    <3>4. at < k /\ k <= at + (t + n)
      BY <1>2, <2>1
    <3>5. g[k] = e[k - at]
      BY <1>5, <3>4
    <3>6. QED
      BY <3>2, <3>3, <3>5
  <2>2. CASE ~(at + t < k /\ k <= at + t + n) /\ k <= b
    <3>1. k \in 1 .. b
      BY <1>1, <1>2, <2>2
    <3>2. f[k] = IF at < k /\ k <= at + t THEN e[k - at] ELSE IF k <= l THEN c[k] ELSE Zero
      BY <1>3, <1>4, <2>2, <3>1
    <3>3. QED
      BY <1>2, <1>5, <2>2, <3>2
  <2>3. CASE ~(at + t < k /\ k <= at + t + n) /\ ~(k <= b)
    <3>1. ~(k <= l) /\ ~(at < k /\ k <= at + (t + n))
      BY <1>1, <1>2, <2>3
    <3>2. QED
      BY <1>4, <1>5, <2>3, <3>1
  <2>4. QED
    BY <2>1, <2>2, <2>3
<1>7. f = [k \in 1 .. top |-> f[k]] /\ g = [k \in 1 .. top |-> g[k]]
  BY <1>4, <1>5
<1>8. [k \in 1 .. top |-> f[k]] = [k \in 1 .. top |-> g[k]]
  BY <1>6
<1>9. f = g
  BY <1>7, <1>8, Zenon
<1>10. QED
  BY <1>9, Zenon DEF f, g, w, b

\* A piece written behind what a file holds is as good as both written.
LEMMA OverlaidBehind ==
  ASSUME NEW c, NEW l \in Nat, NEW at \in Nat, NEW t \in Nat, NEW n \in Nat, NEW d, NEW e,
         Continues(e, t, d, n), Shows(e, t, c, l, at),
         NEW u \in Nat, u = t + n, NEW s \in Nat, s = at + t
  PROVE  Overlaid(c, l, s, d, n) = Overlaid(c, l, at, e, u)
<1> DEFINE top == Reach(l, at, t + n)
           f == Overlaid(c, l, at + t, d, n)
           g == Overlaid(c, l, at, e, t + n)
<1>1. top \in Nat /\ Reach(l, at + t, n) = top
  BY DEF Reach
<1>2. f = [k \in 1 .. top |-> IF at + t < k /\ k <= at + t + n THEN d[k - (at + t)]
                              ELSE IF k <= l THEN c[k] ELSE Zero]
  BY <1>1 DEF Overlaid
<1>3. g = [k \in 1 .. top |-> IF at < k /\ k <= at + (t + n) THEN e[k - at]
                              ELSE IF k <= l THEN c[k] ELSE Zero]
  BY DEF Overlaid
<1> HIDE DEF f, g, top
<1>4. ASSUME NEW k \in 1 .. top PROVE f[k] = g[k]
  <2>1. CASE at + t < k /\ k <= at + t + n
    <3>1. k - (at + t) \in 1 .. n /\ t + (k - (at + t)) = k - at
      BY <1>1, <2>1
    <3>2. d[k - (at + t)] = e[k - at]
      BY <3>1 DEF Continues
    <3>3. f[k] = d[k - (at + t)]
      BY <1>2, <2>1
    <3>4. at < k /\ k <= at + (t + n)
      BY <1>1, <2>1
    <3>5. g[k] = e[k - at]
      BY <1>3, <3>4
    <3>6. QED
      BY <3>2, <3>3, <3>5
  <2>2. CASE at < k /\ k <= at + t
    <3>1. k - at \in 1 .. t /\ at + (k - at) = k
      BY <1>1, <2>2
    <3>2. e[k - at] = IF k <= l THEN c[k] ELSE Zero
      BY <3>1 DEF Shows
    <3>3. QED
      BY <1>1, <1>2, <1>3, <2>2, <3>2
  <2>3. CASE ~(at < k /\ k <= at + (t + n))
    BY <1>1, <1>2, <1>3, <2>3
  <2>4. QED
    BY <1>1, <2>1, <2>2, <2>3
<1>5. f = [k \in 1 .. top |-> f[k]] /\ g = [k \in 1 .. top |-> g[k]]
  BY <1>2, <1>3
<1>6. [k \in 1 .. top |-> f[k]] = [k \in 1 .. top |-> g[k]]
  BY <1>4
<1>7. f = g
  BY <1>5, <1>6, Zenon
<1>8. QED
  BY <1>7, Zenon DEF f, g

LEMMA PwriteTwice ==
  ASSUME NEW c, NEW l \in Nat, Sends(c, l), NEW at \in Nat, NEW t \in Nat, NEW n \in Nat,
         NEW d, Sends(d, n), NEW e, Sends(e, t + n), Continues(e, t, d, n)
  PROVE  Pwrite(Pwrite(c, at, Prefix(e, t)), at + t, d) = Pwrite(c, at, e)
<1> DEFINE p == Prefix(e, t)
           w == Pwrite(c, at, p)
           r == Reach(l, at, t)
           s == at + t
           u == t + n
<1>1. s \in Nat /\ u \in Nat /\ r \in Nat /\ s = at + t /\ u = t + n /\ r = Reach(l, at, t)
  BY DEF Reach
<1>2. Sends(p, t) /\ \A k \in 1 .. t : p[k] = e[k]
  <2>1. \A k \in 1 .. t : k \in 1 .. Len(e)
    BY DEF Sends
  <2>2. \A k \in 1 .. t : e[k] \in Bytes
    BY <2>1 DEF Sends
  <2>3. QED
    BY <2>2, PrefixIs DEF Sends
<1>3. Sends(e, u) /\ Pwrite(Pwrite(c, at, Prefix(e, t)), at + t, d) = Pwrite(w, s, d)
  BY Zenon
<1> HIDE DEF p, r, s, u
<1>4. w = Overlaid(c, l, at, p, t) /\ Sends(w, r)
  BY <1>1, <1>2, PwriteOverlays, SMTT(30) DEF Sends
<1> HIDE DEF w
<1>5. Pwrite(w, s, d) = Overlaid(w, r, s, d, n)
  BY <1>1, <1>4, PwriteOverlays DEF Sends
<1>6. Pwrite(c, at, e) = Overlaid(c, l, at, e, u)
  BY <1>3, PwriteOverlays DEF Sends
<1>7. w = Overlaid(c, l, at, e, t)
  BY <1>2, <1>4, OverlaidPrefix
<1>8. Overlaid(Overlaid(c, l, at, e, t), r, s, d, n) = Overlaid(c, l, at, e, u)
  BY <1>1, OverlaidTwice
<1>9. QED
  BY <1>3, <1>5, <1>6, <1>7, <1>8

\* The bytes of c in front of a piece, and the piece.
LEMMA PwriteBehind ==
  ASSUME NEW c, NEW l \in Nat, Sends(c, l), NEW at \in Nat, NEW t \in Nat, NEW n \in Nat,
         NEW d, Sends(d, n)
  PROVE  \E e \in [1 .. t + n -> Bytes] : Pwrite(c, at + t, d) = Pwrite(c, at, e)
<1> DEFINE s == at + t
           u == t + n
           e == [k \in 1 .. u |-> IF k <= t THEN IF at + k <= l THEN c[at + k] ELSE Zero
                                  ELSE d[k - t]]
<1>1. (\A k \in 1 .. l : c[k] \in Bytes) /\ (\A k \in 1 .. n : d[k] \in Bytes)
  BY DEF Sends
<1>2. s \in Nat /\ u \in Nat /\ s = at + t /\ u = t + n
  OBVIOUS
<1> HIDE DEF s, u
<1>3. ASSUME NEW k \in 1 .. u
      PROVE  (IF k <= t THEN IF at + k <= l THEN c[at + k] ELSE Zero ELSE d[k - t]) \in Bytes
  <2>1. at + k <= l => at + k \in 1 .. l
    BY <1>2
  <2>2. ~(k <= t) => k - t \in 1 .. n
    BY <1>2
  <2>3. QED
    BY <1>1, <2>1, <2>2, BytesAssumption
<1>4. e \in [1 .. u -> Bytes]
  BY <1>3
<1>5. Continues(e, t, d, n)
  <2> SUFFICES \A j \in 1 .. n : e[t + j] = d[j]
    BY DEF Continues
  <2>1. TAKE j \in 1 .. n
  <2>2. t + j \in 1 .. u /\ ~(t + j <= t) /\ (t + j) - t = j
    BY <1>2
  <2>3. QED
    BY <2>2
<1>6. Shows(e, t, c, l, at)
  <2>1. \A k \in 1 .. t : k \in 1 .. u /\ k <= t
    BY <1>2
  <2>2. QED
    BY <2>1 DEF Shows
<1> HIDE DEF e
<1>7. Sends(e, u)
  BY <1>2, <1>4 DEF Sends
<1>8. Pwrite(c, s, d) = Overlaid(c, l, s, d, n)
  BY <1>2, PwriteOverlays DEF Sends
<1>9. Pwrite(c, at, e) = Overlaid(c, l, at, e, u)
  BY <1>7, PwriteOverlays DEF Sends
<1>10. Overlaid(c, l, s, d, n) = Overlaid(c, l, at, e, u)
  BY <1>2, <1>5, <1>6, OverlaidBehind
<1>11. QED
  BY <1>4, <1>8, <1>9, <1>10 DEF s, u

-----------------------------------------------------------------------------
(* A round of a write. *)

\* The bytes a remote call sends: those of the application, unless it runs past
\* the end of its buffer.
LEMMA SentIs ==
  ASSUME arg.size \in Nat, total \in Nat, call.size \in Nat,
         call.data \in [1 .. call.size -> Bytes], NEW n \in 0 .. arg.size
  PROVE  /\ SubSeq(Sent, 1, n) \in Seq(Data) /\ Len(SubSeq(Sent, 1, n)) = n
         /\ total + n <= call.size /\ n <= MaxSize =>
              /\ Sends(SubSeq(Sent, 1, n), n)
              /\ Continues(call.data, total, SubSeq(Sent, 1, n), n)
<1> DEFINE s == SubSeq(Sent, 1, n)
<1>1. \A k \in 1 .. arg.size : total + k <= call.size => total + k \in 1 .. call.size
  OBVIOUS
<1>2. \A k \in 1 .. arg.size :
        (IF k <= MaxSize /\ total + k <= call.size THEN call.data[total + k] ELSE Junk) \in Data
  BY <1>1 DEF Data
<1>3. Sent \in [1 .. arg.size -> Data]
  BY <1>2 DEF Sent
<1>4. n \in Int /\ \A k \in 1 .. n : k \in 1 .. arg.size
  OBVIOUS
<1>5. \A k \in 1 .. n : Sent[k] \in Data
  BY <1>3, <1>4
<1>6. /\ s \in Seq(Data) /\ Len(s) = IF 1 <= n THEN n - 1 + 1 ELSE 0
      /\ \A i \in 1 .. n - 1 + 1 : s[i] = Sent[1 + i - 1]
  BY <1>4, <1>5, SubSeqProperties
<1> HIDE DEF s
<1>7. n - 1 + 1 = n /\ (1 <= n \/ n = 0) /\ \A i \in Int : 1 + i - 1 = i
  BY <1>4
<1>8. s \in Seq(Data) /\ Len(s) = n /\ \A i \in 1 .. n : s[i] = Sent[i]
  BY <1>6, <1>7
<1>9. ASSUME total + n <= call.size, n <= MaxSize
      PROVE  Sends(s, n) /\ Continues(call.data, total, s, n)
  <2>1. \A j \in 1 .. n : /\ j \in 1 .. arg.size /\ j <= MaxSize
                          /\ total + j \in 1 .. call.size /\ total + j <= call.size
    BY <1>4, <1>9, Fits32
  <2>2. \A j \in 1 .. n : Sent[j] = call.data[total + j]
    BY <2>1 DEF Sent
  <2>3. \A j \in 1 .. n : s[j] = call.data[total + j]
    BY <1>8, <2>2
  <2>4. \A j \in 1 .. n : s[j] \in Bytes
    BY <2>1, <2>3
  <2>5. DOMAIN s = 1 .. n /\ s = [k \in 1 .. n |-> s[k]]
    BY <1>8
  <2>6. s \in [1 .. n -> Bytes]
    BY <2>4, <2>5
  <2>7. n \in Nat
    OBVIOUS
  <2>8. s \in Seq(Bytes) /\ Len(s) = n
    BY <2>6, <2>7
  <2>9. QED
    BY <2>3, <2>8 DEF Sends, Continues
<1>10. QED
  BY <1>8, <1>9 DEF s

\* How a remote call of a write can end: everything, a part, an error, or no answer.
Wrote(n) == Writes(n) /\ ret'.ret = 0 /\ ret'.len = n
Full == link = "up" /\ Wrote(arg.size) /\ UNCHANGED shorts
Short == /\ link = "up" /\ shorts < MaxShorts /\ shorts' = shorts + 1
         /\ \E n \in 1 .. arg.size - 1 : Wrote(n)
Refused == link = "up" /\ ret'.ret < 0 /\ UNCHANGED <<file, shorts>>

\* What a write asks for, while every remote call was answered.
LEMMA WriteAsks ==
  ASSUME IInv, call # None, call.op = "write"
  PROVE  /\ call.size \in Nat \ {0} /\ call.offset \in Nat /\ call.size <= MaxSize
         /\ call.data \in [1 .. call.size -> Bytes]
         /\ arg.size \in Nat /\ arg.size \in 0 .. Wrap - 1 /\ arg.offset \in 0 .. Wrap - 1
         /\ link = "up" => arg.size <= call.size /\ arg.size <= MaxSize
         /\ total \in Nat /\ shorts \in 0 .. MaxShorts /\ MaxShorts \in Nat
         /\ link \in {"up", "missed", "down"}
BY Fits32, BoundsAssumption DEF IInv, Types, CallT, CountT

LEMMA WriteAnswer ==
  ASSUME IInv, WriteRound
  PROVE  /\ call # None /\ call.op = "write" /\ result = None
         /\ ret'.ret \in {-1, 0} /\ ret'.len \in 0 .. Wrap - 1 /\ ret'.bytes \in Seq(Data)
         /\ link' \in {"up", "missed", "down"} /\ shorts' \in 0 .. MaxShorts
         /\ \/ UNCHANGED file
            \/ \E n \in 0 .. arg.size : arg.offset + n <= MaxLen /\ Writes(n)
         /\ link' = "up" => Full \/ Short \/ Refused
<1>1. /\ call # None /\ call.op = "write" /\ result = None
      /\ \/ \E n \in 0 .. arg.size :
              /\ arg.offset + n <= MaxLen
              /\ WritesSome(n)
              /\ \/ ret' = Success(n, <<>>) /\ Answers
                 \/ NoAnswer /\ link # "down"
         \/ ret' = Refusal /\ Answers /\ UNCHANGED <<file, shorts>>
         \/ NoAnswer /\ UNCHANGED <<file, shorts>>
  BY DEF WriteRound, Running
<1>2. /\ arg.size \in Nat /\ arg.size \in 0 .. Wrap - 1
      /\ link = "up" => arg.size <= MaxSize
      /\ shorts \in 0 .. MaxShorts /\ MaxShorts \in Nat /\ link \in {"up", "missed", "down"}
  BY <1>1, WriteAsks
<1>3. Answers => link' = link /\ (link' = "up" => link = "up")
  BY DEF Answers
<1>4. ASSUME NEW n \in 0 .. arg.size, arg.offset + n <= MaxLen, WritesSome(n),
             (ret' = Success(n, <<>>) /\ Answers) \/ (NoAnswer /\ link # "down")
      PROVE  /\ ret'.ret \in {-1, 0} /\ ret'.len \in 0 .. Wrap - 1 /\ ret'.bytes \in Seq(Data)
             /\ link' \in {"up", "missed", "down"} /\ shorts' \in 0 .. MaxShorts
             /\ \E k \in 0 .. arg.size : arg.offset + k <= MaxLen /\ Writes(k)
             /\ link' = "up" => Full \/ Short
  <2>1. /\ Writes(n)
        /\ n = arg.size \/ arg.size > MaxSize \/ (n \in 1 .. arg.size - 1 /\ shorts < MaxShorts)
        /\ shorts' = IF n = arg.size \/ arg.size > MaxSize THEN shorts ELSE shorts + 1
    BY <1>4 DEF WritesSome
  <2>2. shorts' \in 0 .. MaxShorts
    BY <1>2, <2>1
  <2>3. n \in 0 .. Wrap - 1
    BY <1>2, Fits32
  <2>4. CASE ret' = Success(n, <<>>) /\ Answers
    <3>1. ret'.ret = 0 /\ ret'.len = n /\ ret'.bytes = <<>>
      BY <2>4 DEF Success
    <3>2. ASSUME link' = "up" PROVE Full \/ Short
      <4>1. link = "up" /\ ~(arg.size > MaxSize)
        BY <1>2, <1>3, <2>4, <3>2, Fits32
      <4>2. Wrote(n)
        BY <2>1, <3>1 DEF Wrote
      <4>3. CASE n = arg.size
        BY <2>1, <4>1, <4>2, <4>3 DEF Full
      <4>4. CASE n # arg.size
        <5>1. n \in 1 .. arg.size - 1 /\ shorts < MaxShorts /\ shorts' = shorts + 1
          BY <2>1, <4>1, <4>4
        <5>2. QED
          BY <4>1, <4>2, <5>1 DEF Short
      <4>5. QED
        BY <4>3, <4>4
    <3>3. ret'.ret \in {-1, 0} /\ ret'.len \in 0 .. Wrap - 1
      BY <2>3, <3>1
    <3>4. ret'.bytes \in Seq(Data)
      BY <3>1
    <3>5. link' \in {"up", "missed", "down"}
      BY <1>2, <1>3, <2>4
    <3>6. \E k \in 0 .. arg.size : arg.offset + k <= MaxLen /\ Writes(k)
      BY <1>4, <2>1
    <3>7. QED
      BY <2>2, <3>2, <3>3, <3>4, <3>5, <3>6
  <2>5. CASE NoAnswer
    BY <1>1, <1>4, <2>1, <2>2, <2>5, NoAnswerIs
  <2>6. QED
    BY <1>4, <2>4, <2>5
<1>5. CASE \E n \in 0 .. arg.size :
             /\ arg.offset + n <= MaxLen
             /\ WritesSome(n)
             /\ \/ ret' = Success(n, <<>>) /\ Answers
                \/ NoAnswer /\ link # "down"
  BY <1>1, <1>4, <1>5
<1>6. CASE ret' = Refusal /\ Answers /\ UNCHANGED <<file, shorts>>
  <2>1. ret'.ret = -1 /\ ret'.len \in 0 .. Wrap - 1 /\ ret'.bytes \in Seq(Data)
    BY <1>6, RefusalIs
  <2>2. link' = "up" => Refused
    BY <1>3, <1>6, <2>1 DEF Refused
  <2>3. QED
    BY <1>1, <1>2, <1>3, <1>6, <2>1, <2>2
<1>7. CASE NoAnswer /\ UNCHANGED <<file, shorts>>
  BY <1>1, <1>2, <1>7, NoAnswerIs
<1>8. QED
  BY <1>1, <1>5, <1>6, <1>7

\* What a round comes to: an error, the size reached, another remote call, or a
\* buffer left behind.
WFailed == ret'.ret < 0 /\ result' = -1 /\ UNCHANGED <<arg, total>>
Counted == ret'.ret >= 0 /\ total' = (total + ret'.len) % Wrap
WEnd == Counted /\ total' = call.size /\ result' = call.size /\ UNCHANGED arg
WOn == /\ Counted /\ total' # call.size
       /\ arg'.size = (call.size - ret'.len) % Wrap
       /\ arg'.offset = (call.offset + ret'.len) % Wrap
       /\ result' = None
WOut == Counted /\ total' > call.size /\ result' = -1 /\ UNCHANGED arg

LEMMA WriteRoundSteps ==
  ASSUME IInv, WriteRound
  PROVE  UNCHANGED <<call, buf, seen>> /\ (WFailed \/ WEnd \/ WOn \/ WOut)
<1>1. result = None /\ UNCHANGED <<call, buf, seen>> /\ GoesOn
  BY WriteAnswer DEF WriteRound
<1>2. CASE Fails
  BY <1>1, <1>2 DEF Fails, Returns, WFailed
<1>3. CASE /\ ret'.ret >= 0
           /\ total' = (total + ret'.len) % Wrap
           /\ \/ total' = call.size /\ Returns(total')
              \/ total' # call.size /\ Rest
              \/ total' > call.size /\ Returns(-1)
  <2>1. Counted
    BY <1>3 DEF Counted
  <2>2. CASE total' = call.size /\ Returns(total')
    BY <1>1, <2>1, <2>2 DEF Returns, WEnd
  <2>3. CASE total' # call.size /\ Rest
    BY <1>1, <2>1, <2>3 DEF Rest, WOn
  <2>4. CASE total' > call.size /\ Returns(-1)
    BY <1>1, <2>1, <2>4 DEF Returns, WOut
  <2>5. QED
    BY <1>3, <2>2, <2>3, <2>4
<1>4. QED
  BY <1>1, <1>2, <1>3 DEF GoesOn

LEMMA WriteRoundTypes ==
  ASSUME IInv, WriteRound
  PROVE  Types'
<1>1. /\ call # None /\ call.op = "write"
      /\ ret'.ret \in {-1, 0} /\ ret'.len \in 0 .. Wrap - 1 /\ ret'.bytes \in Seq(Data)
      /\ link' \in {"up", "missed", "down"} /\ shorts' \in 0 .. MaxShorts
      /\ \/ UNCHANGED file
         \/ \E n \in 0 .. arg.size : arg.offset + n <= MaxLen /\ Writes(n)
      /\ link' = "up" => Full \/ Short \/ Refused
  BY WriteAnswer
<1>2. UNCHANGED <<call, buf, seen>> /\ (WFailed \/ WEnd \/ WOn \/ WOut)
  BY WriteRoundSteps
<1>3. /\ call.size \in Nat \ {0} /\ call.offset \in Nat /\ call.size <= MaxSize
      /\ call.data \in [1 .. call.size -> Bytes]
      /\ arg.size \in Nat /\ arg.size \in 0 .. Wrap - 1 /\ arg.offset \in 0 .. Wrap - 1
      /\ link = "up" => arg.size <= call.size
      /\ total \in Nat
  BY <1>1, WriteAsks
<1>4. Wrap \in Nat /\ MaxSize \in Nat /\ MaxLen \in Nat
  BY Fits32, BoundsAssumption
<1>5. arg'.size \in 0 .. Wrap - 1 /\ arg'.offset \in 0 .. Wrap - 1
  <2>1. CASE UNCHANGED arg
    BY <1>3, <2>1
  <2>2. CASE WOn
    <3>1. call.size - ret'.len \in Int /\ call.offset + ret'.len \in Int
      BY <1>1, <1>3, <1>4
    <3>2. QED
      BY <2>2, <3>1, Remainder DEF WOn
  <2>3. QED
    BY <1>2, <2>1, <2>2 DEF WFailed, WEnd, WOut
<1>6. total' \in Nat /\ result' \in Int \cup {None}
  <2>1. total + ret'.len \in Int
    BY <1>1, <1>3, <1>4
  <2>2. (total + ret'.len) % Wrap \in Nat
    BY <2>1, Remainder, Fits32
  <2>3. QED
    BY <1>2, <1>3, <2>2 DEF WFailed, WEnd, WOn, WOut, Counted
<1>7. ASSUME link' = "up" PROVE arg'.size <= call.size
  <2>1. link = "up" /\ (Full \/ Short \/ Refused)
    BY <1>1, <1>7 DEF Full, Short, Refused
  <2>2. CASE UNCHANGED arg
    BY <1>3, <2>1, <2>2
  <2>3. CASE WOn
    <3>1. ret'.ret >= 0 /\ arg'.size = (call.size - ret'.len) % Wrap
      BY <2>3 DEF WOn, Counted
    <3>2. ret'.len <= arg.size
      BY <1>1, <1>3, <2>1, <3>1 DEF Full, Short, Refused, Wrote
    <3>3. call.size - ret'.len \in 0 .. Wrap - 1 /\ call.size - ret'.len <= call.size
      BY <1>1, <1>3, <2>1, <3>2, Fits32
    <3>4. arg'.size = call.size - ret'.len
      BY <3>1, <3>3, RemainderOfSmall
    <3>5. QED
      BY <3>3, <3>4
  <2>4. QED
    BY <1>2, <2>2, <2>3 DEF WFailed, WEnd, WOut
<1>8. file' \in Seq(Data) /\ Len(file') <= MaxLen
  <2>1. CASE UNCHANGED file
    BY <2>1 DEF IInv, Types, FileT
  <2>2. ASSUME NEW n \in 0 .. arg.size, arg.offset + n <= MaxLen, Writes(n)
        PROVE  file' \in Seq(Data) /\ Len(file') <= MaxLen
    <3> DEFINE s == SubSeq(Sent, 1, n)
    <3>1. s \in Seq(Data) /\ Len(s) = n
      BY <1>3, <1>4, SentIs
    <3>2. file' = Pwrite(file, arg.offset, s)
      BY <2>2 DEF Writes
    <3> HIDE DEF s
    <3>3. Zero \in Data /\ file \in Seq(Data) /\ arg.offset \in Nat
      BY <1>3, <1>4, BytesAssumption DEF Data, IInv, Types, FileT
    <3>4. /\ file' \in Seq(Data)
          /\ Len(file') = IF Len(file) <= arg.offset + Len(s) THEN arg.offset + Len(s)
                          ELSE Len(file)
      BY <3>1, <3>2, <3>3, PwriteIs
    <3>5. Len(file) \in Nat /\ Len(file) <= MaxLen
      BY DEF IInv, Types, FileT
    <3>6. QED
      BY <1>4, <2>2, <3>1, <3>4, <3>5
  <2>3. QED
    BY <1>1, <2>1, <2>2
<1>9. FileT' /\ CountT'
  BY <1>1, <1>2, <1>6, <1>8 DEF IInv, Types, FileT, CountT
<1>10. CallT'
  BY <1>1, <1>2, <1>3, <1>5, <1>7 DEF CallT
<1>11. RetT' /\ Fresh' /\ ReadT'
  BY <1>1, <1>2 DEF RetT, Fresh, ReadT
<1>12. QED
  BY <1>9, <1>10, <1>11 DEF Types

LEMMA SameBytes ==
  ASSUME NEW n \in Nat, NEW s, Sends(s, n), NEW e, Continues(e, 0, s, n)
  PROVE  s = Prefix(e, n)
<1>1. s = [k \in 1 .. n |-> s[k]]
  BY DEF Sends
<1>2. \A k \in 1 .. n : s[k] = e[k]
  BY DEF Continues
<1>3. [k \in 1 .. n |-> s[k]] = [k \in 1 .. n |-> e[k]]
  BY <1>2
<1>4. QED
  BY <1>1, <1>3 DEF Prefix

LEMMA AllBytes ==
  ASSUME NEW n \in Nat, NEW e \in [1 .. n -> Bytes]
  PROVE  Prefix(e, n) = e /\ Sends(e, n)
BY DEF Prefix, Sends

\* What a round that sends n bytes leaves: the piece lies right behind what was
\* sent before, and does not run past the buffer.
LEMMA RoundWrites ==
  ASSUME IInv, call # None, call.op = "write", result = None, link = "up", shorts <= 1, ~Crosses,
         NEW n \in 0 .. arg.size, Writes(n)
  PROVE  \E s : /\ Sends(s, n) /\ Continues(call.data, total, s, n)
                /\ file' = Pwrite(file, Position(0) + total, s)
                /\ file' \in Seq(Bytes)
<1> DEFINE s == SubSeq(Sent, 1, n)
<1>1. /\ total \in Nat /\ call.size \in Nat /\ arg.size \in Nat
      /\ arg.offset \in Nat /\ call.offset \in Nat /\ n <= MaxSize
      /\ call.data \in [1 .. call.size -> Bytes]
  BY WriteAsks, Fits32
<1>2. /\ file \in Seq(Bytes) /\ total + arg.size = call.size /\ arg.offset = Position(total)
  BY DEF IInv, WriteInv
<1>3. Sends(s, n) /\ Continues(call.data, total, s, n)
  <2>1. total + n <= call.size
    BY <1>1, <1>2
  <2>2. QED
    BY <1>1, <2>1, SentIs
<1>4. file' = Pwrite(file, arg.offset, s)
  BY DEF Writes
<1> HIDE DEF s
<1>5. arg.offset = Position(0) + total
  <2>1. call.offset % Wrap \in Nat
    BY <1>1, Remainder, Fits32
  <2>2. QED
    BY <1>1, <1>2, <2>1 DEF Position
<1>6. file' \in Seq(Bytes)
  <2>1. s \in Seq(Bytes)
    BY <1>3 DEF Sends
  <2>2. QED
    BY <1>1, <1>2, <1>4, <2>1, PwriteIs, BytesAssumption
<1>7. QED
  BY <1>3, <1>4, <1>5, <1>6

LEMMA WriteRoundInv ==
  ASSUME IInv, WriteRound
  PROVE  WriteInv'
<1>1. /\ call # None /\ call.op = "write" /\ result = None
      /\ ret'.ret \in {-1, 0} /\ ret'.len \in 0 .. Wrap - 1
      /\ link' = "up" => Full \/ Short \/ Refused
  BY WriteAnswer
<1>2. UNCHANGED <<call, buf, seen>> /\ (WFailed \/ WEnd \/ WOn \/ WOut)
  BY WriteRoundSteps
<1> DEFINE at == call.offset % Wrap
           before == Last(seen)
           size == call.size
           data == call.data
<1> SUFFICES ASSUME link' = "up", shorts' <= 1, ~Crosses
             PROVE  /\ file' \in Seq(Bytes) /\ before \in Seq(Bytes)
                    /\ result' = None =>
                         /\ total' < size /\ total' + arg'.size = size
                         /\ arg'.offset = at + total'
                         /\ shorts' = 0 => total' = 0
                         /\ \/ file' = before /\ (total' = 0 \/ Len(seen) > 1)
                            \/ /\ total' > 0
                               /\ file' = Pwrite(before, at + 0, Prefix(data, total'))
                    /\ result' = size =>
                         Landed(file', before, at + 0, size, data, Len(seen) = 1)
  <2>1. Crosses' <=> Crosses
    BY <1>2 DEF Crosses, Position
  <2>2. Last(seen') = before /\ Len(seen') = Len(seen)
    BY <1>2
  <2>3. QED
    BY <1>2, <2>1, <2>2 DEF WriteInv, Position, Prefix
<1>3. /\ size \in Nat /\ size # 0 /\ call.offset \in Nat /\ data \in [1 .. size -> Bytes]
      /\ total \in Nat /\ shorts \in Nat /\ arg.size \in Nat /\ size \in 0 .. Wrap - 1
  BY <1>1, WriteAsks, Fits32
<1>4. at \in 0 .. Wrap - 1 /\ Wrap \in Nat /\ at + 0 = at /\ at \in Nat /\ at + size <= Wrap
  <2>1. at \in 0 .. Wrap - 1 /\ Wrap \in Nat
    BY <1>3, Division, SizesAssumption
  <2>2. ~(at + size > Wrap)
    BY DEF Crosses, Position
  <2> HIDE DEF at, size
  <2>3. QED
    BY <1>3, <2>1, <2>2
<1>5. link = "up" /\ shorts <= 1
  BY <1>1, <1>3 DEF Full, Short, Refused
<1>6. /\ file \in Seq(Bytes) /\ before \in Seq(Bytes)
      /\ total < size /\ total + arg.size = size
      /\ shorts = 0 => total = 0
      /\ \/ file = before /\ (total = 0 \/ Len(seen) > 1)
         \/ total > 0 /\ file = Pwrite(before, at, Prefix(data, total))
  BY <1>1, <1>4, <1>5 DEF IInv, WriteInv, Position, Prefix
<1>7. ASSUME NEW n \in 0 .. arg.size, Writes(n)
      PROVE  \E s : /\ Sends(s, n) /\ Continues(data, total, s, n)
                    /\ file' = Pwrite(file, at + total, s) /\ file' \in Seq(Bytes)
  BY <1>1, <1>4, <1>5, <1>7, RoundWrites DEF Position
<1>8. Len(before) \in Nat /\ Sends(before, Len(before)) /\ Sends(data, size) /\ size # None
  BY <1>3, <1>6, AllBytes, NoneAssumption DEF Sends
<1>9. Prefix(data, size) = data
  BY <1>3, AllBytes
<1> HIDE DEF at, before, size, data
<1>10. CASE Full
  <2> DEFINE n == arg.size
  <2>1. n \in 0 .. arg.size /\ n \in Nat /\ total + n = size /\ Writes(n) /\ ret'.len = n
    BY <1>3, <1>6, <1>10 DEF Full, Wrote
  <2> HIDE DEF n
  <2>2. PICK s : /\ Sends(s, n) /\ Continues(data, total, s, n)
                 /\ file' = Pwrite(file, at + total, s) /\ file' \in Seq(Bytes)
    BY <1>7, <2>1
  <2>3. result' = size
    <3>1. (total + ret'.len) % Wrap = size /\ ret'.ret = 0
      BY <1>3, <1>10, <2>1, RemainderOfSmall DEF Full, Wrote
    <3>2. QED
      BY <1>2, <1>3, <3>1 DEF WFailed, WEnd, WOn, WOut, Counted, size
  <2>4. Landed(file', before, at, size, data, Len(seen) = 1)
    <3>1. CASE total = 0 /\ file = before
      <4>1. n = size /\ at + total = at
        BY <1>3, <1>4, <2>1, <3>1
      <4>2. s = data
        BY <1>3, <1>9, <2>2, <3>1, <4>1, SameBytes
      <4>3. file' = Pwrite(before, at, data)
        BY <2>2, <3>1, <4>1, <4>2
      <4>4. QED
        BY <1>3, <4>3 DEF Landed
    <3>2. CASE Len(seen) > 1 /\ file = before
      <4>1. \E e \in [1 .. total + n -> Bytes] : Pwrite(before, at + total, s) = Pwrite(before, at, e)
        BY <1>3, <1>4, <1>8, <2>1, <2>2, PwriteBehind, SMTT(30)
      <4>2. Len(seen) # 1
        <5>1. seen \in Seq(Seq(Data))
          BY DEF IInv, Types, CountT
        <5>2. Len(seen) \in Nat
          BY <5>1
        <5>3. \A l \in Nat : l > 1 => l # 1
          OBVIOUS
        <5>4. QED
          BY <3>2, <5>2, <5>3, Zenon
      <4>3. QED
        BY <2>1, <2>2, <3>2, <4>1, <4>2 DEF Landed
    <3>3. CASE total > 0 /\ file = Pwrite(before, at, Prefix(data, total))
      <4>1. Sends(data, total + n)
        BY <1>8, <2>1
      <4>2. Pwrite(Pwrite(before, at, Prefix(data, total)), at + total, s) = Pwrite(before, at, data)
        BY <1>3, <1>4, <1>8, <2>1, <2>2, <4>1, PwriteTwice
      <4>3. QED
        BY <1>3, <2>2, <3>3, <4>2 DEF Landed
    <3>4. QED
      BY <1>6, <3>1, <3>2, <3>3
  <2>5. QED
    BY <1>4, <1>6, <1>8, <2>2, <2>3, <2>4
<1>11. CASE Short
  <2>1. PICK n \in 1 .. arg.size - 1 : Writes(n) /\ ret'.ret = 0 /\ ret'.len = n
    BY <1>11 DEF Short, Wrote
  <2>2. shorts = 0 /\ shorts' = 1 /\ total = 0 /\ arg.size = size /\ file = before
    BY <1>3, <1>6, <1>11 DEF Short
  <2>3. /\ n \in 0 .. arg.size /\ n \in Nat /\ n > 0 /\ n < size /\ 0 + n = n
        /\ n \in 0 .. Wrap - 1 /\ size - n \in 0 .. Wrap - 1
    BY <1>3, <2>1, <2>2, Fits32
  <2>4. PICK s : /\ Sends(s, n) /\ Continues(data, total, s, n)
                 /\ file' = Pwrite(file, at + total, s) /\ file' \in Seq(Bytes)
    BY <1>7, <2>1, <2>3
  <2>5. at + total = at /\ s = Prefix(data, n)
    BY <1>4, <2>2, <2>3, <2>4, SameBytes
  <2>6. /\ total' = n /\ arg'.size = size - n /\ arg'.offset = (call.offset + n) % Wrap
        /\ result' = None
    <3>1. (total + ret'.len) % Wrap = n /\ (size - ret'.len) % Wrap = size - n
      BY <2>1, <2>2, <2>3, RemainderOfSmall
    <3>2. WOn
      BY <1>2, <1>3, <2>1, <2>3, <3>1 DEF WFailed, WEnd, WOut, Counted, size
    <3>3. QED
      BY <2>1, <3>1, <3>2 DEF WOn, Counted, size
  <2>7. at + n < Wrap
    BY <1>3, <1>4, <2>3
  <2>8. (call.offset + n) % Wrap = at + n
    BY <1>3, <2>3, <2>7, MovesOn DEF at
  <2>9. total' < size /\ total' + arg'.size = size /\ arg'.offset = at + total' /\ total' > 0
    BY <1>3, <2>3, <2>6, <2>8
  <2>10. file' = Pwrite(before, at, Prefix(data, total'))
    BY <2>2, <2>4, <2>5, <2>6
  <2>11. QED
    BY <1>4, <1>6, <1>8, <2>2, <2>4, <2>6, <2>9, <2>10
<1>12. CASE Refused
  <2>1. result' = -1 /\ UNCHANGED file
    BY <1>1, <1>2, <1>12 DEF Refused, WFailed, WEnd, WOn, WOut, Counted
  <2>2. -1 # None /\ -1 # size
    BY <1>3, NoneAssumption
  <2>3. QED
    BY <1>6, <2>1, <2>2
<1>13. QED
  BY <1>1, <1>10, <1>11, <1>12

-----------------------------------------------------------------------------
(* The invariant and the theorems. *)

LEMMA InitInv ==
  Init => IInv
<1> SUFFICES ASSUME Init PROVE IInv
  OBVIOUS
<1>1. /\ file \in SeqUpTo(MaxLen) /\ call = None /\ ret = None /\ total = 0 /\ buf = <<>>
      /\ result = None /\ seen = <<>> /\ shorts = 0 /\ link = "up"
  BY DEF Init, Idle
<1>2. FileT
  BY <1>1, SeqUpToIs, BoundsAssumption DEF FileT
<1>3. Len(seen) = 0 /\ seen \in Seq(Seq(Data))
  BY <1>1
<1>4. Types
  BY <1>1, <1>2, <1>3, BoundsAssumption DEF Types, CallT, CountT, RetT, Fresh, ReadT
<1>5. QED
  BY <1>1, <1>4 DEF IInv, ReadInv, WriteInv

LEMMA NextInv ==
  IInv /\ [Next]_vars => IInv'
<1> SUFFICES ASSUME IInv, [Next]_vars PROVE IInv'
  OBVIOUS
<1>1. CASE \E size \in Sizes, offset \in Offsets : bb_read(size, offset)
  BY <1>1, StartReadInv
<1>2. CASE \E data \in Writings, offset \in Offsets :
             Fits(Len(data), offset) /\ bb_write(data, offset)
  BY <1>2, StartWriteInv
<1>3. CASE ReadRound
  <2>1. Types' /\ ReadInv'
    BY <1>3, ReadRoundTypes, ReadRoundInv
  <2>2. WriteInv'
    <3>1. call.op = "read" /\ UNCHANGED call
      BY <1>3, ReadAnswer, ReadRoundSteps
    <3>2. QED
      BY <3>1 DEF WriteInv
  <2>3. QED
    BY <2>1, <2>2 DEF IInv
<1>4. CASE WriteRound
  <2>1. Types' /\ WriteInv'
    BY <1>4, WriteRoundTypes, WriteRoundInv
  <2>2. ReadInv'
    <3>1. call.op = "write" /\ UNCHANGED call
      BY <1>4, WriteAnswer, WriteRoundSteps
    <3>2. QED
      BY <3>1 DEF ReadInv
  <2>3. QED
    BY <2>1, <2>2 DEF IInv
<1>5. CASE Return
  BY <1>5, ReturnInv
<1>6. CASE OtherClient
  BY <1>6, OtherClientInv
<1>7. CASE UNCHANGED vars
  <2>1. UNCHANGED <<file, call, arg, ret, total, buf, result, seen, shorts, link>>
    BY <1>7 DEF vars, happened
  <2>2. Types'
    BY <2>1 DEF IInv, Types, FileT, CallT, CountT, RetT, Fresh, ReadT, Position
  <2>3. ReadInv' /\ WriteInv'
    BY <2>1 DEF IInv, ReadInv, WriteInv, Crosses, Position
  <2>4. QED
    BY <2>2, <2>3 DEF IInv
<1>8. QED
  BY <1>1, <1>2, <1>3, <1>4, <1>5, <1>6, <1>7 DEF Next

LEMMA Invariant ==
  Spec => []IInv
BY InitInv, NextInv, PTL DEF Spec

\* The loops of bb_read and bb_write, whatever length an unanswered remote call
\* leaves in "ret": a read that goes on has copied exactly the bytes it counts, and
\* fewer than were asked for; and a remote call asks for more than MAX_SIZE bytes
\* only if it is one of a write, after one that was not answered.
THEOREM TypeCorrect ==
  Spec => []TypeOK
<1>1. ASSUME IInv PROVE TypeOK
  <2>1. Len(file) <= MaxLen /\ \A k \in DOMAIN file : file[k] \in Bytes \cup {Junk}
    BY <1>1 DEF IInv, Types, FileT, Data
  <2>2. ASSUME call # None PROVE arg.size \in 0 .. Wrap - 1 /\ arg.offset \in 0 .. Wrap - 1
    BY <1>1, <2>2 DEF IInv, Types, CallT
  <2>3. ASSUME call # None, arg.size > MaxSize PROVE call.op = "write" /\ link # "up"
    <3>1. call.op \in {"read", "write"} /\ arg.size \in Int /\ call.size \in Int
      BY <1>1, <2>3 DEF IInv, Types, CallT
    <3>2. call.op = "write"
      BY <1>1, <2>3, <3>1, Fits32 DEF IInv, Types, CallT
    <3>3. QED
      BY <1>1, <2>3, <3>1, <3>2, Fits32 DEF IInv, Types, CallT
  <2>4. Running("read") => Len(buf) = total /\ total < call.size
    BY <1>1 DEF IInv, Types, ReadT, Running
  <2>5. total \in Nat /\ Len(seen) <= MaxChanges + 1 /\ shorts \in 0 .. MaxShorts
    BY <1>1 DEF IInv, Types, CountT
  <2>6. QED
    BY <2>1, <2>2, <2>3, <2>4, <2>5, Zenon DEF TypeOK
<1>2. IInv => TypeOK
  BY <1>1
<1>3. QED
  BY Invariant, <1>2, PTL

\* bb_read in several remote calls while others write: each byte it returns was
\* at its position at some moment, and later bytes are no older.
THEOREM ReadsGoForward ==
  Spec => []ReadGoesForward
<1>1. ASSUME IInv, Ended("read"), result > 0, link = "up", ~Crosses
      PROVE  \E moment \in [1 .. result -> DOMAIN seen] :
               /\ \A k \in 1 .. result - 1 : moment[k] <= moment[k + 1]
               /\ \A k \in 1 .. result : /\ Position(k) \in DOMAIN seen[moment[k]]
                                         /\ seen[moment[k]][Position(k)] = buf[k]
  <2>1. call # None /\ call.op = "read" /\ result # None
    BY <1>1 DEF Ended
  <2>2. result = total /\ Len(buf) = total
    BY <1>1, <2>1 DEF IInv, ReadInv, Types, ReadT
  <2>3. PICK moment \in [1 .. total -> DOMAIN seen] :
          Forward(moment, seen, buf, call.offset % Wrap)
    BY <1>1, <2>1 DEF IInv, ReadInv
  <2>4. QED
    BY <2>2, <2>3 DEF Forward, Position
<1>2. IInv => ReadGoesForward
  BY <1>1 DEF ReadGoesForward
<1>3. QED
  BY Invariant, <1>2, PTL

\* bb_read returns fewer bytes than were asked for only when the file did end
\* there at some moment of the call.
THEOREM ShortReadsAtEnd ==
  Spec => []ShortOnlyAtEnd
<1>1. ASSUME IInv, Ended("read"), link = "up", ~Crosses
      PROVE  /\ result <= call.size
             /\ result \in 0 .. call.size - 1 =>
                  \E m \in DOMAIN seen : Len(seen[m]) < Position(result + 1)
  <2>1. /\ call # None /\ call.op = "read" /\ result # None /\ call.size \in Nat
        /\ total \in Nat
    BY <1>1 DEF Ended, IInv, Types, CallT, CountT
  <2>2. \/ result = -1
        \/ result = total /\ total = call.size
        \/ result = total /\ total < call.size /\ EndedBefore(seen, Position(total + 1))
    BY <1>1, <2>1 DEF IInv, ReadInv
  <2>3. QED
    BY <2>1, <2>2 DEF EndedBefore
<1>2. IInv => ShortOnlyAtEnd
  BY <1>1 DEF ShortOnlyAtEnd
<1>3. QED
  BY Invariant, <1>2, PTL

\* bb_write that returns its size after at most one remote call cut short wrote
\* every byte where it belongs, and nothing outside its range.
THEOREM WritesLandWhole ==
  Spec => []WriteLandsWhole
<1>1. ASSUME IInv, Ended("write"), result = call.size, link = "up", shorts <= 1, ~Crosses
      PROVE  \E data \in [1 .. call.size -> Bytes] :
               /\ file = Pwrite(Last(seen), Position(0), data)
               /\ Len(seen) = 1 => data = call.data
  <2>1. call # None /\ call.op = "write"
    BY <1>1 DEF Ended
  <2>2. Landed(file, Last(seen), Position(0), call.size, call.data, Len(seen) = 1)
    BY <1>1, <2>1 DEF IInv, WriteInv
  <2>3. QED
    BY <2>2 DEF Landed
<1>2. IInv => WriteLandsWhole
  BY <1>1 DEF WriteLandsWhole
<1>3. QED
  BY Invariant, <1>2, PTL
=============================================================================
