----------------------------- MODULE RouteBlocks -----------------------------
(***************************************************************************)
(* prototypes/python-profile-specialization: what a dacapo-lusearch route  *)
(* does, interpreted (handler.interpreted_lusearch, unbounded integers,    *)
(* masked here and there) and as generated code (profile_codegen.          *)
(* render_lusearch_route, masked elsewhere).  The width of a word and the  *)
(* code's shifts, masks and factors are parameters.  The other benchmarks  *)
(* mask in the same places in both renderings.                             *)
(***************************************************************************)
EXTENDS Integers, Sequences

CONSTANTS W,                        \* bits of MASK
          MixShift, MixFirst, MixSecond, \* the shift and the factors of mix64
          TokenDown, TokenUp,       \* the shifts of "tokenize"
          WindowBits, WindowFactor, \* the mask and the factor of "window"
          ExpandKey,                \* the constant of "expand"
          BoostBits, BoostFactor,   \* the mask and the factor of "boost"
          Salts, Rounds,            \* of the routes
          MaxIndex                  \* bound: largest request index

ASSUME WordAssumption ==
    /\ {W, MixShift, MixFirst, MixSecond, TokenDown, TokenUp, WindowBits, WindowFactor,
        ExpandKey, BoostBits, BoostFactor, Rounds, MaxIndex} \subseteq Nat
    /\ Salts \subseteq Nat

\* 1 << k
Power[k \in Nat] == IF k = 0 THEN 1 ELSE 2 * Power[k - 1]

\* Python's ^ and | digit by digit: the sums of two digits that give a one.
Digit(ones, x, y) == IF (x % 2) + (y % 2) \in ones THEN 1 ELSE 0
Combine(ones, a, b) ==
    LET of[x \in Nat] ==
          [y \in Nat |->
             IF x = 0 THEN y ELSE Digit(ones, x, y) + 2 * of[x \div 2][y \div 2]]
    IN  of[a][b]
Xor(a, b) == Combine({1}, a, b)
Or(a, b) == Combine({1, 2}, a, b)

Word == 0..(Power[W] - 1)
Masked(v) == v % Power[W]
Low(v, bits) == v % Power[bits]
Right(v, shift) == v \div Power[shift]
Left(v, shift) == v * Power[shift]

\* mix64 masks its argument and its result.
XorShift(v) == Xor(v, Right(v, MixShift))
Mix64(value) ==
    LET a == Masked(XorShift(Masked(value)) * MixFirst)
        b == Masked(XorShift(a) * MixSecond)
    IN  Masked(XorShift(b))

Operations ==
    [term     |-> <<"tokenize", "score", "rank">>,
     phrase   |-> <<"tokenize", "window", "score">>,
     wildcard |-> <<"expand", "tokenize", "rank">>,
     rank     |-> <<"score", "boost", "rank">>]

VARIABLES steps,        \* operations left, the first one is running
          round,        \* round_index
          blockIndex, blockState, salt,
          iacc, gacc    \* acc of the interpreter and of the generated code

blockVars == <<steps, round, blockIndex, blockState, salt, iacc, gacc>>

BlockOperations == {"tokenize", "score", "rank", "window", "expand", "boost"}

BlockTypeOK ==
    /\ steps \in Seq(BlockOperations)
    /\ round \in 0..Rounds
    /\ blockIndex \in 0..MaxIndex /\ blockState \in Word /\ salt \in Nat
    /\ iacc \in Nat /\ gacc \in Nat

StartBlock ==
    /\ \E route \in DOMAIN Operations : steps = Operations[route]
    /\ round = 0
    /\ blockIndex \in 0..MaxIndex /\ blockState \in Word /\ salt \in Salts
    /\ iacc = Xor(blockState, (blockIndex + 1) * salt)
    /\ gacc = Xor(blockState, Masked((blockIndex + 1) * salt))

Probe(acc) == Mix64(acc + salt + round + Left(blockIndex, 1))

\* One round of interpreted_lusearch.
InterpretedStep(op, acc, probe) ==
    CASE op = "tokenize" -> Xor(acc, Or(Right(probe, TokenDown), Left(probe, TokenUp)))
      [] op = "window"   -> Masked(acc + Low(probe, WindowBits) * WindowFactor)
      [] op = "expand"   -> Xor(acc, Mix64(Xor(probe, ExpandKey)))
      [] op = "boost"    -> Masked(acc * BoostFactor + Low(probe, BoostBits))
      [] OTHER           -> Masked(acc + Mix64(Xor(probe, acc)))

\* Mutant of RenderedStep: the low mask is applied after the product.
RenderedStepPrecedence(op, acc, probe) ==
    CASE op = "tokenize" -> Xor(acc, Or(Right(probe, TokenDown), Masked(Left(probe, TokenUp))))
      [] op = "window"   -> Masked(acc + Low(probe * WindowFactor, WindowBits))
      [] op = "expand"   -> Xor(acc, Mix64(Xor(probe, ExpandKey)))
      [] op = "boost"    -> Masked(acc * BoostFactor + Low(probe, BoostBits))
      [] OTHER           -> Masked(acc + Mix64(Xor(probe, acc)))

\* One round of the generated code.
RenderedStep(op, acc, probe) ==
    CASE op = "tokenize" -> Xor(acc, Or(Right(probe, TokenDown), Masked(Left(probe, TokenUp))))
      [] op = "window"   -> Masked(acc + Low(probe, WindowBits) * WindowFactor)
      [] op = "expand"   -> Xor(acc, Mix64(Xor(probe, ExpandKey)))
      [] op = "boost"    -> Masked(acc * BoostFactor + Low(probe, BoostBits))
      [] OTHER           -> Masked(acc + Mix64(Xor(probe, acc)))

Round ==
    /\ steps # <<>> /\ round < Rounds
    /\ round' = round + 1
    /\ iacc' = InterpretedStep(Head(steps), iacc, Probe(iacc))
    /\ gacc' = RenderedStep(Head(steps), gacc, Probe(gacc))
    /\ UNCHANGED <<steps, blockIndex, blockState, salt>>

NextOperation ==
    /\ steps # <<>> /\ round = Rounds
    /\ steps' = Tail(steps)
    /\ round' = 0
    /\ UNCHANGED <<blockIndex, blockState, salt, iacc, gacc>>

BlockNext == Round \/ NextOperation

BlockSpec == StartBlock /\ [][BlockNext]_blockVars

------------------------------------------------------------------------------
(* Properties. *)

\* A route leaves the same state behind however it was rendered, and the
\* generated code computes in words: no operation lets a bit above MASK, which
\* only the interpreter keeps, reach a bit below (interpreted_lusearch against
\* render_lusearch_route).
BlocksAgree ==
    /\ gacc \in Word
    /\ steps = <<>> => Xor(blockState, Masked(iacc)) = Masked(Xor(blockState, Masked(gacc)))
==============================================================================
