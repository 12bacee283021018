------------------------------ MODULE TweakfsIO ------------------------------
(***************************************************************************)
(* bb_read and bb_write of the client: the loops that cut one read or      *)
(* write of an application into remote calls of at most MAX_SIZE bytes,    *)
(* against one open file of a server that other clients use meanwhile.     *)
(*                                                                         *)
(* A round of a loop is one step: the remote call, executed by the server  *)
(* in one piece, and what the loop makes of its answer.  Other clients     *)
(* change the file between two rounds.  A remote call may fail: the stub   *)
(* then leaves "ret" as it was, which in the first round is uninitialised  *)
(* memory, and the loop goes on with it.                                   *)
(*                                                                         *)
(* An int of the client, and a size or offset in a remote call, has 32     *)
(* bits.  It stands here as its remainder modulo Wrap, so that a negative  *)
(* length is one of the upper half.                                        *)
(*                                                                         *)
(* The file is open without O_APPEND; a position counts bytes from 0.      *)
(***************************************************************************)
EXTENDS Integers, SequencesExt

CONSTANTS MaxSize,     \* MAX_SIZE: the bytes one remote call carries
          Wrap,        \* what 32 bits wrap around at: 2^32
          Bytes,       \* the values a byte may have
          Zero,        \* the one that fills a hole
          Junk,        \* what uninitialised memory holds
          None,        \* "no value"
          MaxLen,      \* bound: the longest file
          Sizes,       \* bound: how much an application reads at once
          Writings,    \* bound: what it writes at once
          Offsets,     \* bound: where it reads and writes
          MaxChanges,  \* bound: changes by other clients during one call
          MaxShorts    \* bound: writes cut short during one call

ASSUME SizesAssumption == /\ MaxSize \in Nat \ {0} /\ Wrap \in Nat \ {0}
                          /\ Sizes \subseteq Nat \ {0} /\ Offsets \subseteq Nat
ASSUME WrapAssumption == \A size \in Sizes \cup {MaxSize} : 2 * size <= Wrap
ASSUME BytesAssumption == Zero \in Bytes /\ Junk \notin Bytes

SeqUpTo(n) == UNION {[1 .. k -> Bytes] : k \in 0 .. n}

\* libfuse cuts writes into pieces that fit one remote call.
ASSUME WritingsAssumption == Writings \subseteq SeqUpTo(MaxSize) \ {<<>>}
ASSUME NoneAssumption == None \notin Int
ASSUME BoundsAssumption == MaxLen \in Nat /\ MaxChanges \in Nat /\ MaxShorts \in Nat

VARIABLES file,    \* the contents of the file, at the server
          call,    \* what the application asked for, or None
          arg,     \* size and offset in the next remote call
          ret,     \* the variable "ret", with the buffer as "bytes"; None when no
                   \* remote call has ended yet
          total,   \* total_len
          buf,     \* what a read has put in the application's buffer
          result,  \* what the function returns, or None while it runs
          turn     \* changes with every remote call, so that a round that leaves
                   \* everything as it was is a step all the same

\* What happened during the call; no action depends on it but for the bounds.
VARIABLES seen,    \* the contents at its start, and after each change by others
          shorts,  \* how many writes were cut short
          link     \* "up": every remote call was answered; "missed": one was not;
                   \* "down": the server process died, no other will be

happened == <<seen, shorts, link>>
vars == <<file, call, arg, ret, total, buf, result, turn, happened>>

Idle == /\ call = None /\ arg = None /\ ret = None /\ total = 0 /\ buf = <<>>
        /\ result = None /\ turn = 0 /\ seen = <<>> /\ shorts = 0 /\ link = "up"

Init == file \in SeqUpTo(MaxLen) /\ Idle

-----------------------------------------------------------------------------
(* The server: pread and pwrite of an open file. *)

Pread(size, offset) == SubSeq(file, offset + 1, Min({offset + size, Len(file)}))

Pwrite(content, offset, data) ==
  [k \in 1 .. Max({Len(content), offset + Len(data)}) |->
     IF k \in offset + 1 .. offset + Len(data) THEN data[k - offset]
     ELSE IF k <= Len(content) THEN content[k] ELSE Zero]

Resized(content, n) == [k \in 1 .. n |-> IF k <= Len(content) THEN content[k] ELSE Zero]

Refusal == [ret |-> -1, len |-> 0, bytes |-> <<>>]
Success(len, bytes) == [ret |-> 0, len |-> len, bytes |-> bytes]

\* What "ret" may hold before the first answer: an error, or success with any
\* length there is.
Uninitialised ==
  {Refusal} \cup {Success(len, [k \in 1 .. MaxSize |-> Junk]) : len \in 0 .. Wrap - 1}

Answers == link # "down" /\ UNCHANGED link

\* No answer in time, or no connection any more.
NoAnswer == /\ ret' \in IF ret = None THEN Uninitialised ELSE {ret}
            /\ link' \in IF link = "down" THEN {"down"} ELSE {"missed", "down"}

-----------------------------------------------------------------------------
(* The functions. *)

Running(op) == call # None /\ call.op = op /\ result = None

\* Bound: a call starts on a file that the bounds allow.
Calls(size, offset) ==
  /\ call = None /\ file \in SeqUpTo(MaxLen)
  /\ arg' = [size |-> size, offset |-> offset % Wrap]
  /\ seen' = <<file>>
  /\ UNCHANGED <<file, ret, total, buf, result, turn, shorts, link>>

bb_read(size, offset) ==
  /\ Calls(Min({size, MaxSize}), offset)
  /\ call' = [op |-> "read", size |-> size, offset |-> offset]

bb_write(data, offset) ==
  /\ Calls(Len(data), offset)
  /\ call' = [op |-> "write", size |-> Len(data), offset |-> offset, data |-> data]

Returns(n) == result' = n /\ UNCHANGED arg

\* Slip: the next remote call starts where the last one did.
NextPieceHere(left) ==
  arg' = [size |-> Min({left, MaxSize}), offset |-> arg.offset] /\ UNCHANGED result

NextPiece(left) ==
  /\ arg' = [size |-> Min({left, MaxSize}), offset |-> (arg.offset + ret'.len) % Wrap]
  /\ UNCHANGED result

\* The bytes that are copied to the buffer and counted; a length of garbage may
\* count bytes that nothing was copied to.
Taken == [k \in 1 .. ret'.len |-> IF k <= Len(ret'.bytes) THEN ret'.bytes[k] ELSE Junk]

Fails == ret'.ret < 0 /\ Returns(-1) /\ UNCHANGED total

\* Slip: no loop, or one that does not notice the end of the file.
TakesOnePiece ==
  \/ Fails /\ UNCHANGED buf
  \/ /\ ret'.ret >= 0
     /\ buf' = Taken
     /\ total' = ret'.len
     /\ Returns(total')

TakesPieceForEver ==
  \/ Fails /\ UNCHANGED buf
  \/ /\ ret'.ret >= 0
     /\ buf' = buf \o Taken
     /\ total' = total + ret'.len
     /\ IF total' < call.size THEN NextPiece(call.size - total') ELSE Returns(total')

\* The body of the loop after the remote call: an error, the end of the file,
\* or a piece for the buffer.
TakesPiece ==
  \/ Fails /\ UNCHANGED buf
  \/ ret'.ret >= 0 /\ ret'.len = 0 /\ Returns(total) /\ UNCHANGED <<total, buf>>
  \/ /\ ret'.ret >= 0 /\ ret'.len > 0
     /\ buf' = buf \o Taken
     /\ total' = total + ret'.len
     /\ IF total' < call.size THEN NextPiece(call.size - total') ELSE Returns(total')

Piece(bytes) == Success(Len(bytes), bytes)

ReadRound ==
  /\ Running("read")
  /\ \/ ret' \in {Piece(Pread(arg.size, arg.offset)), Refusal} /\ Answers
     \/ NoAnswer
  /\ TakesPiece
  /\ turn' = 1 - turn
  /\ UNCHANGED <<file, call, seen, shorts>>

\* The piece sent starts at buf + total_len, whatever arg.size says; there is no
\* more of it than MaxSize, and what was to be written may end before.
Sent == [k \in 1 .. arg.size |->
           IF k <= MaxSize /\ total + k <= call.size THEN call.data[total + k] ELSE Junk]

\* Slip: the remote call after a short one starts at the old offset.
GoesOnHere ==
  \/ Fails
  \/ /\ ret'.ret >= 0
     /\ total' = (total + ret'.len) % Wrap
     /\ IF total' = call.size
        THEN Returns(total')
        ELSE arg' = [arg EXCEPT !.size = (call.size - ret'.len) % Wrap] /\ UNCHANGED result

\* Slip: the difference is taken the wrong way round.
RestNegative == /\ arg' = [size |-> (ret'.len - call.size) % Wrap,
                           offset |-> (call.offset + ret'.len) % Wrap]
                /\ UNCHANGED result

\* What is left is computed from the last length, not from total_len.
Rest == /\ arg' = [size |-> (call.size - ret'.len) % Wrap,
                   offset |-> (call.offset + ret'.len) % Wrap]
        /\ UNCHANGED result

\* Slip: an error is taken for a write of nothing, and tried again.
GoesOnAfterError ==
  \/ ret'.ret < 0 /\ UNCHANGED <<arg, result, total>>
  \/ /\ ret'.ret >= 0
     /\ total' = (total + ret'.len) % Wrap
     /\ IF total' = call.size THEN Returns(total') ELSE Rest

\* A total_len beyond the size leads the copying of the next piece out of the
\* buffer: the client process may die of it, which its application takes for an
\* error.
GoesOn ==
  \/ Fails
  \/ /\ ret'.ret >= 0
     /\ total' = (total + ret'.len) % Wrap
     /\ \/ total' = call.size /\ Returns(total')
        \/ total' # call.size /\ Rest
        \/ total' > call.size /\ Returns(-1)

Writes(n) == file' = Pwrite(file, arg.offset, SubSeq(Sent, 1, n))

\* All that is asked for is written, or less.  A size beyond MaxSize, which only
\* garbage in "ret" leads to, makes the server write from outside its buffer,
\* as far as it gets.
WritesSome(n) ==
  /\ Writes(n)
  /\ \/ n = arg.size \/ arg.size > MaxSize
     \/ n \in 1 .. arg.size - 1 /\ shorts < MaxShorts
  /\ shorts' = IF n = arg.size \/ arg.size > MaxSize THEN shorts ELSE shorts + 1

\* Bound: no write reaches beyond MaxLen.  A call without an answer may have been
\* executed all the same.
WriteRound ==
  /\ Running("write")
  /\ \/ \E n \in 0 .. arg.size :
          /\ arg.offset + n <= MaxLen
          /\ WritesSome(n)
          /\ \/ ret' = Success(n, <<>>) /\ Answers
             \/ NoAnswer /\ link # "down"
     \/ ret' = Refusal /\ Answers /\ UNCHANGED <<file, shorts>>
     \/ NoAnswer /\ UNCHANGED <<file, shorts>>
  /\ GoesOn
  /\ turn' = 1 - turn
  /\ UNCHANGED <<call, buf, seen>>

\* The application has its answer.
Return ==
  /\ result # None
  /\ call' = None /\ arg' = None /\ ret' = None /\ total' = 0 /\ buf' = <<>>
  /\ result' = None /\ turn' = 0 /\ seen' = <<>> /\ shorts' = 0 /\ link' = "up"
  /\ UNCHANGED file

\* Another client writes a byte or truncates the file between two rounds.
OtherClient ==
  /\ call # None /\ result = None
  /\ Len(seen) <= MaxChanges
  /\ \/ \E p \in 0 .. MaxLen - 1, b \in Bytes : file' = Pwrite(file, p, <<b>>)
     \/ \E n \in 0 .. MaxLen : file' = Resized(file, n)
  /\ seen' = Append(seen, file')
  /\ UNCHANGED <<call, arg, ret, total, buf, result, turn, shorts, link>>

Fits(size, offset) == (offset % Wrap) + size <= MaxLen

Next == \/ \E size \in Sizes, offset \in Offsets : bb_read(size, offset)
        \/ \E data \in Writings, offset \in Offsets :
             Fits(Len(data), offset) /\ bb_write(data, offset)
        \/ ReadRound \/ WriteRound \/ Return \/ OtherClient

Spec == Init /\ [][Next]_vars

\* The loops do not rest: a remote call ends with an answer or with an error.
FairSpec == Spec /\ WF_vars(ReadRound) /\ WF_vars(WriteRound)

-----------------------------------------------------------------------------
Ended(op) == call # None /\ call.op = op /\ result # None
Position(k) == (call.offset % Wrap) + k

\* The kernel asks for aligned pages, none of which crosses a multiple of 2^32.
Crosses == Position(call.size) > Wrap

\* The variables stay in their types; the pieces of a read add up to total_len,
\* and no remote call asks for more than it can carry, but for those of a write
\* that went on after a call without an answer.
TypeOK ==
  /\ Len(file) <= MaxLen /\ \A k \in DOMAIN file : file[k] \in Bytes \cup {Junk}
  /\ total \in Nat /\ Len(seen) <= MaxChanges + 1 /\ shorts \in 0 .. MaxShorts
  /\ call # None => arg.size \in 0 .. Wrap - 1 /\ arg.offset \in 0 .. Wrap - 1
  /\ call # None /\ arg.size > MaxSize => call.op = "write" /\ link # "up"
  /\ Running("read") => Len(buf) = total /\ total < call.size

\* A read that takes several remote calls, all answered, while others write:
\* every byte it returns was in the file at the position that is left in 32 bits
\* of the one the application asked about, and later bytes come from no earlier
\* moment than the bytes before them.
ReadGoesForward ==
  Ended("read") /\ result > 0 /\ link = "up" /\ ~Crosses =>
    \E moment \in [1 .. result -> DOMAIN seen] :
      /\ \A k \in 1 .. result - 1 : moment[k] <= moment[k + 1]
      /\ \A k \in 1 .. result : /\ Position(k) \in DOMAIN seen[moment[k]]
                                /\ seen[moment[k]][Position(k)] = buf[k]

\* "Read should return exactly the number of bytes requested except on EOF or
\* error": when every remote call is answered, a short result means that the
\* file did end there at some moment.
ShortOnlyAtEnd ==
  Ended("read") /\ link = "up" /\ ~Crosses =>
    /\ result <= call.size
    /\ result \in 0 .. call.size - 1 => \E m \in DOMAIN seen : Len(seen[m]) < Position(result + 1)

\* A write that returns its size, with every remote call answered and at most
\* one of them cut short, changed nothing outside its range, whatever others
\* did between its remote calls, and unless they did anything it put every byte
\* where it belongs.
WriteLandsWhole ==
  Ended("write") /\ result = call.size /\ link = "up" /\ shorts <= 1 /\ ~Crosses =>
    \E data \in [1 .. call.size -> Bytes] :
      /\ file = Pwrite(Last(seen), Position(0), data)
      /\ Len(seen) = 1 => data = call.data

\* A read ends whatever fails and whatever others do to the file meanwhile.
ReadEnds == Running("read") ~> Ended("read")

\* A write ends when every remote call is answered and at most one cut short.
WriteEnds == Running("write") ~> Ended("write") \/ link # "up" \/ shorts > 1
-----------------------------------------------------------------------------
(* What the documentation says and the client does not do. *)

\* "Write should return exactly the number of bytes requested except on error":
\* a write returns.
WriteReturns == Running("write") ~> Ended("write")
=============================================================================
