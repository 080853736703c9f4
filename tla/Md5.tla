-------------------------------- MODULE Md5 --------------------------------
(***************************************************************************)
(* MD5 (src/md5.cpp): a message is cut into blocks that are transformed    *)
(* one after the other; getDigest adds the padding and the length to a     *)
(* copy of the state and the count, but to the buffer itself.              *)
(*                                                                         *)
(* The rounds of the transformation are left out: the state is the         *)
(* sequence of the blocks that went into it, and the digest is the state   *)
(* at the end.  The sizes are smaller: a word has two bytes instead of     *)
(* four, so the length takes four bytes of a block.  The bytes of the      *)
(* message are -1, -2, ...                                                 *)
(***************************************************************************)
EXTENDS Integers, Sequences

CONSTANTS
  BlockLen,   \* bytes of a block: 64
  ByteSize,   \* the values of a byte of the length: 256
  MaxLength   \* bound: messages are not longer

VARIABLES
  message,  \* what the object was made for
  md,       \* the object: count, state, buffer and finished
  digest,   \* what getDigest has answered last, <<>> before
  repeated  \* getDigest was called before that

digestVars == <<message, md, digest, repeated>>

Modulus == ByteSize * ByteSize
LengthLen == 4

(* The padding and the length fit into a block, and the words of the count *)
(* overflow where a block ends.                                            *)
ASSUME DigestAssumption ==
  /\ BlockLen \in Nat /\ BlockLen > LengthLen
  /\ ByteSize \in Nat \ {0} /\ Modulus % (8 * BlockLen) = 0
  /\ MaxLength \in Nat

NoMessage ==
  [count |-> <<0, 0>>, state |-> <<>>, buffer |-> [i \in 1..BlockLen |-> 0],
   finished |-> FALSE]

(* The object of the empty message, until another is made. *)
DigestInit ==
  /\ message = <<>> /\ md = NoMessage
  /\ digest = <<>> /\ repeated = FALSE

-----------------------------------------------------------------------------
Index(m) == (m.count[1] \div 8) % BlockLen

(* The bits are counted in two words. *)
AddBits(count, len) ==
  LET bits == (8 * len) % Modulus
      low == (count[1] + bits) % Modulus
  IN  <<low, (count[2] + (IF low < bits THEN 1 ELSE 0) + (8 * len) \div Modulus)
               % Modulus>>

Blocks(stream) ==
  [k \in 1..(Len(stream) \div BlockLen) |->
     SubSeq(stream, (k - 1) * BlockLen + 1, k * BlockLen)]

(* What is in the buffer comes first, and each block is transformed; what  *)
(* is left stays in the buffer, in front of what it held.                  *)
init(m, input) ==
  LET stream == SubSeq(m.buffer, 1, Index(m)) \o input
      blocks == Blocks(stream)
      rest == SubSeq(stream, Len(blocks) * BlockLen + 1, Len(stream))
      below == IF blocks = <<>> THEN m.buffer ELSE blocks[1]
  IN  [count |-> AddBits(m.count, Len(input)),
       state |-> m.state \o blocks,
       buffer |-> rest \o SubSeq(below, Len(rest) + 1, BlockLen),
       finished |-> FALSE]

MD5(len) ==
  /\ md = NoMessage /\ digest = <<>>
  /\ message' = [i \in 1..len |-> -i]
  /\ md' = init(NoMessage, message')
  /\ UNCHANGED <<digest, repeated>>

-----------------------------------------------------------------------------
PADDING(n) == [i \in 1..n |-> IF i = 1 THEN 128 ELSE 0]

(* The lower byte of each word first. *)
encode(input) ==
  <<input[1] % ByteSize, input[1] \div ByteSize,
    input[2] % ByteSize, input[2] \div ByteSize>>

(* Mistake: at the limit there is no padding. *)
padLen_AtLimit(m) ==
  (IF Index(m) <= BlockLen - LengthLen THEN 0 ELSE BlockLen)
    + BlockLen - LengthLen - Index(m)

(* Pad out to what leaves room for the length. *)
padLen(m) ==
  (IF Index(m) < BlockLen - LengthLen THEN 0 ELSE BlockLen)
    + BlockLen - LengthLen - Index(m)

(* finished is set, but init resets it. *)
Padded(m) ==
  init(init([m EXCEPT !.finished = TRUE], PADDING(padLen(m))),
       encode(m.count))

(* State and count are restored, the buffer is not. *)
getDigest ==
  LET padded == Padded(md) IN
  /\ md' = IF md.finished THEN md
             ELSE [padded EXCEPT !.state = md.state, !.count = md.count]
  /\ digest' = IF md.finished THEN digest ELSE padded.state
  /\ repeated' = (digest # <<>>)
  /\ UNCHANGED message

DigestNext == getDigest \/ \E len \in 1..MaxLength : MD5(len)

DigestSpec == DigestInit /\ [][DigestNext]_digestVars

-----------------------------------------------------------------------------
(***************************************************************************)
(* What must hold.                                                         *)
(***************************************************************************)
(* The type invariant: the buffer is never written behind its end. *)
DigestTypeOK ==
  /\ md.count \in [1..2 -> 0..(Modulus - 1)]
  /\ Len(md.buffer) = BlockLen
  /\ \A k \in DOMAIN md.state : Len(md.state[k]) = BlockLen
  /\ md.finished \in BOOLEAN /\ repeated \in BOOLEAN

(* The digest is that of the message, then 128, then the fewest zeros that *)
(* make whole blocks with the length in bits behind them, lowest byte      *)
(* first, for messages of every length around the ends of the blocks.      *)
(* Only the digest that is asked for again may be another: when the        *)
(* padding did not fit into the last block, it has overwritten the end of  *)
(* the message in the buffer (line 126), which line 78 does not restore.   *)
DigestOfMessage ==
  digest # <<>> =>
    LET n == Len(message)
        zeros == CHOOSE z \in 0..(BlockLen - 1) :
                   (n + 1 + z + LengthLen) % BlockLen = 0
        higher(x) == x \div ByteSize
        bytes == <<8 * n, higher(8 * n), higher(higher(8 * n)),
                   higher(higher(higher(8 * n)))>>
        whole == message \o PADDING(1 + zeros)
                   \o [i \in 1..LengthLen |-> bytes[i] % ByteSize]
    IN  \/ digest = Blocks(whole)
        \/ repeated /\ n % BlockLen >= BlockLen - LengthLen
=============================================================================
