------------------------------ MODULE TwoParty ------------------------------
(***************************************************************************)
(* The two protocols built on RsOprf: the intersection of two files        *)
(* (volePSI/fileBased.cpp with RsPsi.cpp, one thread each) and the         *)
(* programmable function of volePSI/RsOpprf.cpp.                           *)
(*                                                                         *)
(* In the first, the sides check and exchange the sizes of their sets, run *)
(* the OPRF, and the sender sends F of its values, in which the receiver   *)
(* looks up its own.                                                       *)
(*                                                                         *)
(* In the second the sender also sends an OKVS which decodes, for each of  *)
(* its values, to what F has to be corrected by for the receiver to get    *)
(* the m bytes the sender programmed.  Here bytes matter: the receiver     *)
(* keeps F of its values in the memory of its own output, at the end of it *)
(* if m is more than a block, and expands one after the other in place.    *)
(***************************************************************************)
EXTENDS RsOprf

CONSTANTS
  SenderSets,   \* the sets of the sender considered
  Callers,      \* a subset of {"psi", "opprf"}
  Widths,       \* the values of m considered, in bytes
  BlockSize,    \* bytes of a block, 16 in the code
  MayDie        \* whether a process may end at any point

ASSUME SetAssumption == SenderSets \subseteq SUBSET Items
ASSUME CallerAssumption == Callers \subseteq {"psi", "opprf"}
ASSUME WidthAssumption == Widths \subseteq Nat \ {0} /\ BlockSize \in Nat \ {0}

VARIABLES
  caller,
  theirs,        \* the sender's values
  sizesAgree,    \* per side: its own sizes, and the peer's, are what they have to be
  m,             \* the bytes of an output of the second protocol
  mIntersection,
  oprfOutput,    \* what the OPRF returned, by position
  okvs,          \* the sender's OKVS as the receiver got it, by what it decodes to
  mem,           \* the bytes of the receiver's output
  expanded       \* outputs expanded so far

callerVars == <<caller, theirs, sizesAgree, m, mIntersection, oprfOutput, okvs,
                mem, expanded>>
vars == <<params, inbox, open, pc, vole, senderVars, recverVars, callerVars>>

\* The receiver's values in the order of its input.
n == Cardinality(values)
Value(k) == CHOOSE v \in values : Cardinality({w \in values : w < v}) = k
Bytes == 0 .. n * m - 1

Init ==
  /\ OprfInit
  /\ caller \in Callers
  /\ theirs \in SenderSets
  /\ sizesAgree \in
       [Sides -> [own : BOOLEAN, peer : IF caller = "psi" THEN BOOLEAN ELSE {TRUE}]]
  /\ caller = "opprf" /\ theirs = {} => ~ sizesAgree["S"].own
  /\ m \in IF caller = "psi" THEN {BlockSize} ELSE Widths
  /\ caller = "opprf" => mOKVSType = "GCT" /\ ~ mMalicious   \* RsOpprf's own OPRF
  /\ pc = IF caller = "psi" THEN [X \in Sides |-> "size"]
          ELSE [X \in Sides |-> IF X = "S" THEN "sendPSeed" ELSE "recvPSeed"]
  /\ mIntersection = {}
  /\ oprfOutput = << >>
  /\ okvs = << >>
  /\ mem = << >>
  /\ expanded = 0

-----------------------------------------------------------------------------
(* The sizes: each side checks its own arguments before it does anything   *)
(* else, and in doFilePSI the sides check what the peer says of its own.   *)

Checked == {"size", "sendPSeed", "recvPSeed"}

OwnSizeWrong(X) ==
  /\ pc[X] \in Checked /\ ~ sizesAgree[X].own
  /\ Fail(X)
  /\ UNCHANGED <<params, vole, senderVars, recverVars, callerVars>>

SizeOf(X) == Cardinality(IF X = "S" THEN theirs ELSE values)

SendSize(X) ==
  /\ pc[X] = "size" /\ sizesAgree[X].own
  /\ inbox' = Sent(X, "size", {<<"size", SizeOf(X)>>})
  /\ Goto(X, "recvSize")
  /\ UNCHANGED <<params, open, vole, senderVars, recverVars, callerVars>>

RecvSize(X) ==
  /\ pc[X] = "recvSize" /\ CanRecv(X, "main") /\ sizesAgree[X].peer
  /\ inbox' = Taken(X)
  /\ Goto(X, "oprf")
  /\ UNCHANGED <<params, open, vole, senderVars, recverVars, callerVars>>

PeerSizeWrong(X) ==
  /\ pc[X] = "recvSize" /\ CanRecv(X, "main") /\ ~ sizesAgree[X].peer
  /\ Fail(X)
  /\ UNCHANGED <<params, vole, senderVars, recverVars, callerVars>>

(* RsPsi: the hashes. *)

SendHashes ==
  /\ caller = "psi" /\ pc["S"] = "evaluate"
  /\ inbox' = Sent("S", "hashes", {Eval(v) : v \in theirs})
  /\ \/ Goto("S", "done")
     \/ Goto("S", "sending")
  /\ UNCHANGED <<params, open, vole, senderVars, recverVars, callerVars>>

SenderSendingEnds ==
  /\ pc["S"] = "sending" /\ inbox["R"] = << >>
  /\ Goto("S", "done")
  /\ UNCHANGED <<params, inbox, open, vole, senderVars, recverVars, callerVars>>

RecverGoesOnEarly_mut ==
  /\ pc["R"] = "returned"
  /\ Goto("R", IF ~ encoded THEN "done"
               ELSE IF caller = "psi" THEN "recvHashes" ELSE "recvP")
  /\ oprfOutput' = [k \in 0 .. n - 1 |-> outputs[Value(k)]]
  /\ UNCHANGED <<params, inbox, open, vole, senderVars, recverVars, caller, theirs,
                 sizesAgree, m, mIntersection, okvs, mem, expanded>>

RecverGoesOn ==
  /\ pc["R"] = "returned"
  /\ Goto("R", IF caller = "psi" THEN "recvHashes" ELSE "recvP")
  /\ oprfOutput' = [k \in 0 .. n - 1 |-> outputs[Value(k)]]
  /\ UNCHANGED <<params, inbox, open, vole, senderVars, recverVars, caller, theirs,
                 sizesAgree, m, mIntersection, okvs, mem, expanded>>

RecvHashes ==
  /\ pc["R"] = "recvHashes" /\ CanRecv("R", "main")
  /\ mIntersection' = {v \in values : outputs[v] \in Received("R")}
  /\ inbox' = Taken("R")
  /\ Goto("R", "done")
  /\ UNCHANGED <<params, open, vole, senderVars, recverVars, caller, theirs,
                 sizesAgree, m, oprfOutput, okvs, mem, expanded>>

-----------------------------------------------------------------------------
(* RsOpprf. *)

SendPSeed ==
  /\ pc["S"] = "sendPSeed" /\ sizesAgree["S"].own
  /\ inbox' = Sent("S", "pseed", HashingSeed)
  /\ Goto("S", "oprf")
  /\ UNCHANGED <<params, open, vole, senderVars, recverVars, callerVars>>

RecvPSeed ==
  /\ pc["R"] = "recvPSeed" /\ sizesAgree["R"].own /\ CanRecv("R", "main")
  /\ inbox' = Taken("R")
  /\ Goto("R", "oprf")
  /\ UNCHANGED <<params, open, vole, senderVars, recverVars, callerVars>>

\* A programmed value, and what the OKVS decodes to elsewhere.
val(v)   == {<<"val", v>>}
Noise(v) == {<<"noise", v>>}

\* The m bytes made from a block of F: its first ones, or its expansion.
Raw(f)   == {<<"F", f>>}
Masks(f) == IF m <= BlockSize THEN Raw(f) ELSE {<<"expand", f>>}

\* RsOpprfSender::oprfEval: out = add + F(v).  F is written to out first if
\* blocks fit and out is not add.
InPlaceAlways_mut(aliased) == m = BlockSize
InPlace(aliased) == m = BlockSize /\ ~ aliased

OprfEval(v, add, aliased) ==
  IF InPlace(aliased) /\ aliased THEN {} ELSE XOR(add, Masks(Eval(v)))

\* What the OKVS the sender solved decodes to.
Programmed(v) == IF v \in theirs THEN OprfEval(v, val(v), FALSE) ELSE Noise(v)

\* RsOpprfSender::eval, which adds to what it decoded in place.
SenderEval(v) == OprfEval(v, Programmed(v), TRUE)

SendP ==
  /\ caller = "opprf" /\ pc["S"] = "evaluate"
  /\ inbox' = Sent("S", "okvs", [v \in Items |-> Programmed(v)])
  /\ \/ Goto("S", "done")
     \/ Goto("S", "sending")
  /\ UNCHANGED <<params, open, vole, senderVars, recverVars, callerVars>>

\* The solver throws.
SolveProgramThrows ==
  /\ caller = "opprf" /\ pc["S"] = "evaluate"
  /\ Fail("S")
  /\ UNCHANGED <<params, vole, senderVars, recverVars, callerVars>>

\* Where F of the k-th value starts in the output's memory, which ends
\* offset bytes after the last block boundary.
offset == (n * m) % BlockSize
BlockAt(k) == n * m - offset - BlockSize * (n - k)

RecvP ==
  /\ pc["R"] = "recvP" /\ CanRecv("R", "main")
  /\ okvs' = Received("R")
  /\ inbox' = Taken("R")
  /\ mem' = [q \in Bytes |->
               IF m >= BlockSize /\ q >= BlockAt(0) /\ q < BlockAt(n)
               THEN LET k == (q - BlockAt(0)) \div BlockSize
                    IN  <<Raw(oprfOutput[k]), q - BlockAt(k)>>
               ELSE <<Junk, 0>>]
  /\ expanded' = IF m = BlockSize THEN n ELSE 0     \* a block is not expanded
  /\ Goto("R", "expand")
  /\ UNCHANGED <<params, open, vole, senderVars, recverVars, caller, theirs,
                 sizesAgree, m, mIntersection, oprfOutput>>

\* The k-th value of F as the loop finds it: kept apart if m is less than a
\* block, otherwise in the output, where writes may have changed its bytes.
OprfOutput(k) ==
  IF m < BlockSize
     \/ \A b \in 0 .. BlockSize - 1 : mem[BlockAt(k) + b] = <<Raw(oprfOutput[k]), b>>
  THEN Masks(oprfOutput[k]) ELSE Junk

Expand ==
  /\ pc["R"] = "expand" /\ expanded < n
  /\ mem' = [q \in Bytes |-> IF q \div m = expanded
                             THEN <<OprfOutput(expanded), q % m>> ELSE mem[q]]
  /\ expanded' = expanded + 1
  /\ UNCHANGED <<params, inbox, open, pc, vole, senderVars, recverVars, caller, theirs,
                 sizesAgree, m, mIntersection, oprfOutput, okvs>>

\* The received OKVS is decoded and added.
AddDecoded ==
  /\ pc["R"] = "expand" /\ expanded = n
  /\ mem' = [q \in Bytes |->
               <<XOR(mem[q][1], okvs[Value(q \div m)]), mem[q][2]>>]
  /\ Goto("R", "done")
  /\ UNCHANGED <<params, inbox, open, vole, senderVars, recverVars, caller, theirs,
                 sizesAgree, m, mIntersection, oprfOutput, okvs, expanded>>

-----------------------------------------------------------------------------

\* The process of a side that has returned ends.  What it has not read makes
\* the connection break, otherwise what it sent arrives.
Closes(X) ==
  /\ pc[X] = "done" /\ X \in open
  /\ IF inbox[X] = << >> THEN open' = open \ {X} /\ UNCHANGED inbox ELSE Breaks(X)
  /\ UNCHANGED <<params, pc, vole, senderVars, recverVars, callerVars>>

Dies(X) ==
  /\ MayDie /\ open = Sides /\ pc[X] # "done"
  /\ Fail(X)
  /\ UNCHANGED <<params, vole, senderVars, recverVars, callerVars>>

CallerStep ==
  \/ \E X \in Sides : SendSize(X) \/ OwnSizeWrong(X) \/ RecvSize(X) \/ PeerSizeWrong(X)
  \/ SendHashes \/ SenderSendingEnds \/ RecverGoesOn \/ RecvHashes
  \/ SendPSeed \/ RecvPSeed \/ SendP \/ SolveProgramThrows \/ RecvP \/ Expand
  \/ AddDecoded
  \/ \E X \in Sides : Closes(X)

Progress == (OprfStep /\ UNCHANGED callerVars) \/ CallerStep

Next == Progress \/ \E X \in Sides : Dies(X)

Spec == Init /\ [][Next]_vars

\* Both processes run, and what was sent is delivered or the connection breaks.
FairSpec == Spec /\ WF_vars(Progress)

-----------------------------------------------------------------------------
(* Properties. *)

Labels == Waiting \cup {"size", "oprf", "vole", "evaluate", "sending", "solve", "mask",
                       "returned", "sendPSeed", "expand", "done", "failed"}

\* Every variable keeps its type: the spans cut off the encoding, b and c stay
\* within them, and only bytes of the receiver's output are written.
TypeOK ==
  /\ pc \in [Sides -> Labels]
  /\ open \subseteq Sides
  /\ vole \in [Sides -> 0 .. Len(script) + 1]
  /\ recvPos \in 0 .. size /\ cBegin \in 0 .. size
  /\ pBegin \in 0 .. size /\ pBegin + pSize <= size
  /\ DOMAIN mB = Cols /\ DOMAIN p = Cols
  /\ outputs # << >> => DOMAIN outputs = values
  /\ mIntersection \subseteq values
  /\ expanded \in 0 .. n
  /\ mem # << >> => DOMAIN mem = Bytes

\* The encoding is sent as RsOprf.cpp sends it right: in one chunk, or in two
\* of which the second is the shorter.
FewChunks == size < 2 * Chunk

\* Both sides compute the same function: once the sender is ready to evaluate
\* and the receiver has its outputs, they agree on every value the receiver
\* has encoded, and the receiver holds F of nothing else.
SameFunction ==
  pc["S"] \in {"evaluate", "sending", "done"} /\ pc["R"] \in {"returned", "done"}
    /\ FewChunks =>
      \A v \in values, w \in Items : (outputs[v] = Eval(w)) <=> (encoded /\ v = w)

\* The receiver never reports a value that is not in both sets, and reports
\* all that are unless its encoder failed.
IntersectionCorrect ==
  caller = "psi" /\ pc["R"] = "done" =>
    /\ mIntersection \subseteq values \cap theirs
    /\ encoded /\ FewChunks => mIntersection = values \cap theirs

\* What the receiver's memory has to hold: for each of its values the bytes
\* the sender's eval gives, which are the programmed ones where there are any.
ProgrammedBytes ==
  \A q \in Bytes :
    LET v == Value(q \div m)
    IN  /\ mem[q] = <<SenderEval(v), q % m>>
        /\ v \in theirs => SenderEval(v) = val(v)

\* Every m the tests use, and every other one for which no value of F lies
\* where an earlier one is expanded to, gives the receiver what was programmed.
Programs ==
  caller = "opprf" /\ pc["R"] = "done" /\ encoded /\ FewChunks
    /\ (m <= BlockSize \/ m >= 2 * BlockSize \/ (n * m) % BlockSize = 0) =>
      ProgrammedBytes

\* The tests of RsOpprf expect it of every m.
ProgramsAlways ==
  caller = "opprf" /\ pc["R"] = "done" /\ encoded /\ FewChunks => ProgrammedBytes

\* A side that is done has read all that was sent to it, so that closing its
\* socket cannot break the connection under what it sent last.
DrainedAtEnd == \A X \in Sides : pc[X] = "done" => inbox[X] = << >>

\* Both processes come to an end whatever fails on either side: the messages
\* of the VOLE and of the main slot never wait for each other, and nobody
\* waits for a side that has given up.
BothEnd == <>[](\A X \in Sides : pc[X] \in {"done", "failed"})

=============================================================================
