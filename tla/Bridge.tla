------------------------------- MODULE Bridge -------------------------------
(***************************************************************************)
(* The output of a terminal on its way from the PTY to the socket:         *)
(* pipePTYToSocket in ws.go, which cuts what it reads at the ends of UTF-8 *)
(* characters. A byte is what UTF-8 makes of it: 0 continues a character,  *)
(* 1 to 4 starts one of that many bytes, Bad is in none. Sessions show     *)
(* what programs print, so that any byte may follow any other.             *)
(***************************************************************************)
EXTENDS Integers, Sequences

CONSTANTS
    Bytes,         \* the kinds of bytes that programs print
    ptyReadSize,
    MaxOutput      \* bounds what is printed

Bad == 5

\* A buffer of two reads holds a character begun in the one before.
ASSUME BridgeAssumption ==
    Bytes \subseteq 0..Bad /\ ptyReadSize \in Nat /\ ptyReadSize >= 3 /\ MaxOutput \in Nat

VARIABLES
    piping,     \* the goroutine runs
    pending,
    written,    \* the data of the frames that were written, in order
    printed     \* ghost: what was read from the PTY

bridgeVars == <<piping, pending, written, printed>>

BridgeInit == piping = TRUE /\ pending = <<>> /\ written = <<>> /\ printed = <<>>

-----------------------------------------------------------------------------
\* utf8.Valid: every start has its continuations, and every continuation its
\* start.
Valid(b) ==
    \A i \in 1..Len(b) :
       /\ b[i] \in 0..4
       /\ b[i] > 1 => i + b[i] - 1 <= Len(b) /\ \A k \in (i + 1)..(i + b[i] - 1) : b[k] = 0
       /\ b[i] = 0 => \E k \in 1..3 : i - k >= 1 /\ b[i - k] > k

\* Variant: two bytes are held back at most.
validUTF8PrefixTwo(b) ==
    LET ends == {i \in 0..Len(b) : i >= Len(b) - 2 /\ Valid(SubSeq(b, 1, i))}
    IN  IF ends = {} THEN 0 ELSE CHOOSE i \in ends : \A j \in ends : j <= i

\* The length of the longest prefix that is valid, if that is all but three
\* bytes; 0 otherwise.
validUTF8Prefix(b) ==
    LET ends == {i \in 0..Len(b) : i >= Len(b) - 3 /\ Valid(SubSeq(b, 1, i))}
    IN  IF ends = {} THEN 0 ELSE CHOOSE i \in ends : \A j \in ends : j <= i

\* What does not fit is dropped except for its last three bytes.
Kept(b) == IF Len(b) > 2 * ptyReadSize THEN SubSeq(b, Len(b) - 2, Len(b)) ELSE b

\* Read returns a chunk, alone or with an error, and what is valid of the
\* bytes at hand is written. The goroutine ends with either error.
PipeReads(chunk) ==
    /\ piping
    /\ printed' = printed \o chunk
    /\ LET all == Kept(pending \o chunk)
           valid == validUTF8Prefix(all)
       IN  \/ /\ written' = written \o SubSeq(all, 1, valid)
              /\ pending' = SubSeq(all, valid + 1, Len(all))
              /\ piping' \in BOOLEAN
           \/ /\ valid > 0
              /\ pending' = all
              /\ piping' = FALSE
              /\ UNCHANGED written

\* Read returns nothing but an error, or the PTY is closed by OnClose.
PipeReadFails ==
    /\ piping
    /\ piping' = FALSE
    /\ UNCHANGED <<pending, written, printed>>

BridgeNext ==
    \/ \E n \in 1..ptyReadSize : \E chunk \in [1..n -> Bytes] :
          Len(printed) + n <= MaxOutput /\ PipeReads(chunk)
    \/ PipeReadFails

BridgeSpec == BridgeInit /\ [][BridgeNext]_bridgeVars

-----------------------------------------------------------------------------
(* Properties *)

\* b is valid but for a last character that is still to be completed.
ValidSoFar(b) ==
    \E i \in 0..Len(b) :
       /\ Valid(SubSeq(b, 1, i))
       /\ \/ i = Len(b)
          \/ b[i + 1] > Len(b) - i /\ b[i + 1] < Bad /\ \A k \in (i + 2)..Len(b) : b[k] = 0

\* Whatever is printed, a frame never cuts a character, which JSON would turn
\* into another one, and the buffer stays within two reads. Of output that is
\* valid UTF-8 so far no byte is lost, doubled or overtaken, however the reads
\* cut it, and the page lacks no complete character: what is held back is the
\* beginning of one (pipePTYToSocket, validUTF8Prefix).
OutputFaithful ==
    /\ Valid(written)
    /\ Len(pending) <= 2 * ptyReadSize
    /\ piping /\ ValidSoFar(printed) =>
          /\ printed = written \o pending
          /\ pending # <<>> => pending[1] > Len(pending)
=============================================================================
