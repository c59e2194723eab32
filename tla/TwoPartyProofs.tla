--------------------------- MODULE TwoPartyProofs ---------------------------
(***************************************************************************)
(* Proofs about TwoParty, for every size of the OKVS, chunk, script of the *)
(* VOLE, set of values and width m.                                        *)
(*                                                                         *)
(* The messages of the main slot have no names that their receivers could  *)
(* see.  That each is taken for what it is follows from a numbering: the   *)
(* messages on their way to a side are the ones from the next it will      *)
(* receive (Got) to the next its peer will send (SentBy), in order, and    *)
(* what number s says (Body) was true when it was sent and stays true.     *)
(* The messages of the VOLE, interleaved with them, have places in its     *)
(* script in the same way.  From that follow what the sender's arrays and  *)
(* the receiver's outputs hold (SenderInv, OutputInv), and from those the  *)
(* properties.                                                             *)
(***************************************************************************)
EXTENDS TwoParty, FiniteSetTheorems, SequenceTheorems, TLAPS

\* Where each side can be.
SenderPcs == {"size", "recvSize", "sendPSeed", "oprf", "seed", "vole", "recvW", "chunks",
              "evaluate", "sending", "done", "failed"}
RecverPcs == {"size", "recvSize", "recvPSeed", "oprf", "recvHws", "solve", "vole", "mask",
              "sending", "recvWs", "returned", "recvHashes", "recvP", "expand", "done",
              "failed"}

\* What the receiver has in a column of its encoding.
Enc(j) == IF encoded THEN Encoding[j] ELSE {}

ParamInv ==
  /\ size \in Sizes /\ values \in ReceiverSets /\ script \in VoleScripts
  /\ mMalicious \in BOOLEAN
  /\ theirs \in SenderSets
  /\ caller \in Callers /\ m \in Nat \ {0}
  /\ caller = "psi" => m = BlockSize
  /\ caller # "psi" => ~ mMalicious

\* Where the sides can be, and what is open then.
PcInv ==
  /\ pc \in [Sides -> SenderPcs \cup RecverPcs] /\ pc["S"] \in SenderPcs /\ pc["R"] \in RecverPcs
  /\ open \subseteq Sides
  /\ \A X \in Sides : /\ X \notin open => pc[X] \in {"done", "failed"}
                      /\ pc[X] = "failed" => X \notin open
  /\ caller = "psi" => pc["S"] # "sendPSeed" /\ pc["R"] \notin {"recvPSeed", "recvP", "expand"}
  /\ caller # "psi" => /\ pc["S"] \notin {"size", "recvSize"}
                       /\ pc["R"] \notin {"size", "recvSize", "recvHashes"}
  /\ pc["S"] = "recvW" => mMalicious
  /\ pc["R"] \in {"recvHws", "recvWs"} => mMalicious

\* The VOLE's cursor: 0 before the side starts it, past the script afterwards.
CursorInv ==
  /\ vole \in [Sides -> 0 .. Len(script) + 1]
  /\ pc["S"] \in {"size", "recvSize", "sendPSeed", "oprf"} => vole["S"] = 0
  /\ pc["S"] \in {"recvW", "chunks", "evaluate", "sending", "done"} => VoleDone("S")
  /\ pc["R"] \in {"size", "recvSize", "recvPSeed", "oprf", "recvHws"} => vole["R"] = 0
  /\ pc["R"] \in {"mask", "sending", "recvWs", "returned", "recvHashes", "recvP", "expand",
                  "done"} => VoleDone("R")

\* The spans of the encoding.
SpanInv ==
  /\ recvPos \in 0 .. size /\ cBegin \in 0 .. size
  /\ pBegin \in 0 .. size /\ pSize \in Nat /\ pBegin + pSize <= size
  /\ moved \in BOOLEAN /\ encoded \in BOOLEAN
  /\ pc["S"] \in {"size", "recvSize", "sendPSeed", "oprf", "seed", "vole", "recvW"}
       => recvPos = 0
  /\ pc["S"] = "chunks" => recvPos < size
  /\ pc["S"] \in {"evaluate", "sending", "done"} => recvPos = size
  /\ pc["R"] \in {"size", "recvSize", "recvPSeed", "oprf", "recvHws", "solve", "vole"}
       => cBegin = 0 /\ pBegin = 0 /\ ~ moved
  /\ pc["R"] \in {"size", "recvSize", "recvPSeed", "oprf", "recvHws", "solve"} => ~ encoded
  /\ pc["R"] \in {"vole", "mask", "sending"} /\ cBegin < size => pSize = size - cBegin
  /\ pc["R"] \in {"recvWs", "returned", "recvHashes", "recvP", "expand", "done"}
       => cBegin = size

\* The arrays and functions that are filled.
ArrayInv ==
  /\ DOMAIN mB = Cols /\ DOMAIN p = Cols
  /\ outputs # << >> => DOMAIN outputs = values
  /\ pc["R"] = "recvWs" => DOMAIN outputs = values
  /\ mIntersection \subseteq values
  /\ expanded \in 0 .. n
  /\ mem # << >> => DOMAIN mem = Bytes

\* The queues are sequences.
IsSeq(q) == q \in Seq({q[k] : k \in DOMAIN q})
InboxInv == inbox = [X \in Sides |-> inbox[X]] /\ \A X \in Sides : IsSeq(inbox[X])

TypeInv == InboxInv /\ ParamInv /\ PcInv /\ CursorInv /\ SpanInv /\ ArrayInv

\* The messages of the main slot have numbers.  To the sender: 0 the size, 1 the
\* seed, 2 the coin, 3 + j the chunk that starts at j.  To the receiver: 0 the
\* size or the seed of the protocol, 1 the commitment, 2 the coin, 3 the last one.
Due(X, s) == s \in 0 .. (IF X = "S" THEN 2 + size ELSE 3)

Following(X, s) ==
  IF X = "S"
  THEN IF s = 0 THEN 1 ELSE IF s = 1 THEN IF mMalicious THEN 2 ELSE 3
       ELSE IF s = 2 THEN 3 ELSE s + Lesser(size - (s - 3), Chunk)
  ELSE IF s = 0 THEN IF mMalicious THEN 1 ELSE 3 ELSE s + 1

\* The number of the next message a side receives, and sends.
Got(X) ==
  IF X = "S"
  THEN IF pc["S"] \in {"size", "recvSize"} THEN 0
       ELSE IF pc["S"] \in {"sendPSeed", "oprf", "seed"} THEN 1
       ELSE IF pc["S"] = "vole" THEN IF mMalicious THEN 2 ELSE 3
       ELSE IF pc["S"] = "recvW" THEN 2
       ELSE IF pc["S"] = "chunks" THEN 3 + recvPos ELSE 3 + size
  ELSE IF pc["R"] \in {"size", "recvSize", "recvPSeed"} THEN 0
       ELSE IF pc["R"] = "oprf" THEN IF mMalicious THEN 1 ELSE 3
       ELSE IF pc["R"] = "recvHws" THEN 1
       ELSE IF pc["R"] \in {"solve", "vole", "mask", "sending", "recvWs"}
            THEN IF mMalicious THEN 2 ELSE 3
       ELSE IF pc["R"] \in {"returned", "recvHashes", "recvP"} THEN 3 ELSE 4

SentBy(X) ==
  IF X = "R"
  THEN IF pc["R"] = "size" THEN 0
       ELSE IF pc["R"] \in {"recvSize", "recvPSeed", "oprf", "recvHws"} THEN 1
       ELSE IF pc["R"] \in {"solve", "vole"} THEN IF mMalicious THEN 2 ELSE 3
       ELSE 3 + cBegin
  ELSE IF pc["S"] \in {"size", "sendPSeed"} THEN 0
       ELSE IF pc["S"] \in {"recvSize", "oprf"} THEN IF mMalicious THEN 1 ELSE 3
       ELSE IF pc["S"] \in {"seed", "vole", "recvW"} THEN IF mMalicious THEN 2 ELSE 3
       ELSE IF pc["S"] \in {"chunks", "evaluate"} THEN 3 ELSE 4

\* The blocks of b that come from the VOLE's a are one per column, its own.
Tagged == \A j \in Cols : \A i \in Cols : <<"a", i>> \in mB[j] <=> i = j

\* The sender can evaluate.
Ready ==
  /\ recvPos = size
  /\ mSeed = HashingSeed
  /\ mMalicious => mW = XOR(wr, ws)
  /\ Tagged
  /\ FewChunks => \A j \in Cols : mB[j] = XOR(a(j), Mul(Enc(j)))

\* What message s to X says.
Body(X, s, b) ==
  IF X = "S"
  THEN /\ s = 1 => b = HashingSeed
       /\ s = 2 => b = wr
       /\ s >= 3 => /\ s - 3 + Lesser(size - (s - 3), Chunk) <= cBegin
                    /\ FewChunks => b = [i \in 0 .. Lesser(size - (s - 3), Chunk) - 1 |->
                                           XOR(Enc(s - 3 + i), c(s - 3 + i))]
  ELSE /\ s = 2 => b = ws
       /\ s = 3 => /\ Ready
                   /\ caller = "psi" => b = {Eval(v) : v \in theirs}
                   /\ caller = "opprf" => b = [v \in Items |-> Programmed(v)]

IsTrail(X, q, f) ==
  /\ f \in [0 .. Len(q) -> Nat]
  /\ \A k \in 1 .. Len(q) :
       \/ q[k][1] = "main" /\ Due(X, f[k - 1]) /\ f[k] = Following(X, f[k - 1])
       \/ q[k][1] = "vole" /\ f[k] = f[k - 1]

Contents(X, q, f) ==
  \A k \in 1 .. Len(q) : q[k][1] = "main" => Body(X, f[k - 1], q[k][3])

Trails(X, f) ==
  /\ IsTrail(X, inbox[X], f)
  /\ f[0] = Got(X)
  /\ Peer(X) \in open => f[Len(inbox[X])] = SentBy(Peer(X))
  /\ Contents(X, inbox[X], f)

\* The VOLE's messages on their way to X: each has its place g in the script.
VoleTrail(X, q, g, lo, hi) ==
  /\ g \in [1 .. Len(q) -> Nat]
  /\ \A k \in 1 .. Len(q) : q[k][1] = "vole" =>
       /\ g[k] >= 1 /\ g[k] >= lo /\ g[k] < hi
       /\ g[k] <= Len(script) /\ script[g[k]] = Peer(X)
  /\ \A j, k \in 1 .. Len(q) :
       j < k /\ q[j][1] = "vole" /\ q[k][1] = "vole" => g[j] < g[k]

\* A side is past the other's place in the script only by its own messages.
VoleInv ==
  /\ \A X \in Sides : \A j \in 1 .. Len(script) :
       vole[Peer(X)] <= j /\ j < vole[X] => script[j] = X
  /\ \A X \in Sides : pc[X] # "failed" =>
       \E g : VoleTrail(X, inbox[X], g, vole[X], vole[Peer(X)])

QueueInv == \A X \in Sides : pc[X] # "failed" => \E f : Trails(X, f)

\* The receiver's encoding as far as it is still to be masked.
UnmaskedInv ==
  FewChunks /\ pc["R"] \in {"vole", "mask", "sending"} /\ cBegin < size =>
    pBegin = cBegin /\ ~ moved /\ \A j \in Cols : j >= cBegin => p[j] = Enc(j)

SenderInv ==
  /\ recvPos <= cBegin
  /\ pc["S"] \in {"vole", "recvW", "chunks", "evaluate", "sending", "done"}
       => mSeed = HashingSeed
  /\ pc["S"] \in {"chunks", "evaluate", "sending", "done"} /\ mMalicious
       => mW = XOR(wr, ws)
  /\ pc["S"] \in {"recvW", "chunks", "evaluate", "sending", "done"} =>
       /\ Tagged
       /\ FewChunks => \A j \in Cols :
            mB[j] = XOR(a(j), Mul(IF j < recvPos THEN Enc(j) ELSE c(j)))

OutputInv ==
  /\ pc["R"] = "recvWs" => outputs = [v \in values |-> Decoded(v)]
  /\ pc["R"] \in {"returned", "recvHashes", "recvP", "expand", "done"} =>
       outputs = [v \in values |-> Finish(Decoded(v), XOR(ws, wr), v)]
  /\ pc["R"] \in {"recvHashes", "recvP", "expand"} =>
       oprfOutput = [k \in 0 .. n - 1 |-> outputs[Value(k)]]

\* The invariant.
IInv == /\ TypeInv /\ VoleInv /\ QueueInv /\ UnmaskedInv /\ SenderInv /\ OutputInv

-----------------------------------------------------------------------------
(* What a step does to the messages on their way to a side Z. *)

Stays(Z) ==
  /\ inbox'[Z] = inbox[Z]
  /\ Got(Z)' = Got(Z)
  /\ Peer(Z) \in open' => Peer(Z) \in open /\ SentBy(Peer(Z))' = SentBy(Peer(Z))

Grows(Z) ==
  /\ Peer(Z) \in open
  /\ Due(Z, SentBy(Peer(Z))) /\ SentBy(Peer(Z))' = Following(Z, SentBy(Peer(Z)))
  /\ \E s, kind, b : /\ s = SentBy(Peer(Z))
                     /\ inbox'[Z] = Append(inbox[Z], <<"main", kind, b>>)
                     /\ Body(Z, s, b)'
  /\ Got(Z)' = Got(Z)

Shrinks(Z) ==
  /\ CanRecv(Z, "main") /\ inbox'[Z] = Tail(inbox[Z])
  /\ Got(Z)' = Following(Z, Got(Z))
  /\ Peer(Z) \in open' => Peer(Z) \in open /\ SentBy(Peer(Z))' = SentBy(Peer(Z))

IsCut(Z) ==
  /\ \E l \in 0 .. Len(inbox[Z]) : inbox'[Z] = SubSeq(inbox[Z], 1, l)
  /\ Got(Z)' = Got(Z)
  /\ Peer(Z) \notin open'

\* What a step other than the VOLE's does to the places in its script.
Voles == \E X \in Sides : VoleSend(X) \/ VoleRecv(X)

VoleKind ==
  \/ UNCHANGED vole
  \/ \E X \in Sides : vole[X] = 0 /\ vole' = [vole EXCEPT ![X] = 1]

Kind(Z) ==
  pc'[Z] # "failed" =>
    /\ pc[Z] # "failed"
    /\ Stays(Z) \/ Grows(Z) \/ Shrinks(Z) \/ IsCut(Z)

-----------------------------------------------------------------------------
(* Types, and where the sides can be. *)

\* The two sides.
LEMMA SidesFacts ==
  /\ Sides = {"S", "R"} /\ Peer("S") = "R" /\ Peer("R") = "S"
  /\ \A X \in Sides : Peer(X) \in Sides /\ Peer(X) # X /\ Peer(Peer(X)) = X
BY DEF Sides, Peer

\* Sequences stay sequences.
LEMMA SequenceFacts ==
  ASSUME NEW q, IsSeq(q)
  PROVE  /\ Len(q) \in Nat /\ DOMAIN q = 1 .. Len(q)
         /\ q = << >> <=> Len(q) = 0
         /\ \A e : /\ IsSeq(Append(q, e)) /\ Len(Append(q, e)) = Len(q) + 1
                   /\ Append(q, e)[Len(q) + 1] = e
                   /\ \A k \in 1 .. Len(q) : Append(q, e)[k] = q[k]
         /\ q # << >> => /\ IsSeq(Tail(q)) /\ Len(Tail(q)) = Len(q) - 1
                         /\ \A k \in 1 .. Len(q) - 1 : Tail(q)[k] = q[k + 1]
                         /\ Head(q) = q[1]
         /\ \A l \in 0 .. Len(q) : /\ IsSeq(SubSeq(q, 1, l)) /\ Len(SubSeq(q, 1, l)) = l
                                   /\ \A k \in 1 .. l : SubSeq(q, 1, l)[k] = q[k]
<1> DEFINE T == {q[k] : k \in DOMAIN q}
<1>1. q \in Seq(T)
  BY DEF IsSeq
<1>2. Len(q) \in Nat /\ DOMAIN q = 1 .. Len(q) /\ (q = << >> <=> Len(q) = 0)
  BY <1>1
<1>3. ASSUME NEW U, NEW r \in Seq(U) PROVE IsSeq(r)
  <2> DEFINE W == {r[k] : k \in DOMAIN r}
  <2>1. DOMAIN r = 1 .. Len(r) /\ Len(r) \in Nat /\ r = [k \in 1 .. Len(r) |-> r[k]]
    BY <1>3
  <2>2. \A k \in 1 .. Len(r) : r[k] \in W
    BY <2>1
  <2> HIDE DEF W
  <2>3. r \in Seq(W)
    BY <2>1, <2>2
  <2>4. QED
    BY <2>3 DEF IsSeq, W
<1>4. ASSUME NEW e
      PROVE  /\ IsSeq(Append(q, e)) /\ Len(Append(q, e)) = Len(q) + 1
             /\ Append(q, e)[Len(q) + 1] = e
             /\ \A k \in 1 .. Len(q) : Append(q, e)[k] = q[k]
  <2>1. q \in Seq(T \cup {e}) /\ e \in T \cup {e}
    <3> HIDE DEF T
    <3>1. QED
      BY <1>1
  <2> HIDE DEF T
  <2>2. Append(q, e) \in Seq(T \cup {e})
    BY <2>1
  <2>3. IsSeq(Append(q, e))
    BY <1>3, <2>2
  <2>4. QED
    BY <2>1, <2>3
<1>5. ASSUME q # << >>
      PROVE  /\ IsSeq(Tail(q)) /\ Len(Tail(q)) = Len(q) - 1
             /\ \A k \in 1 .. Len(q) - 1 : Tail(q)[k] = q[k + 1]
             /\ Head(q) = q[1]
  <2> HIDE DEF T
  <2>1. /\ Tail(q) \in Seq(T) /\ Len(Tail(q)) = Len(q) - 1
        /\ \A k \in 1 .. Len(Tail(q)) : Tail(q)[k] = q[k + 1]
    BY <1>1, <1>5, HeadTailProperties
  <2>2. IsSeq(Tail(q))
    BY <1>3, <2>1
  <2>3. Head(q) = q[1]
    BY <1>1, <1>5
  <2>4. QED
    BY <2>1, <2>2, <2>3
<1>6. ASSUME NEW l \in 0 .. Len(q)
      PROVE  /\ IsSeq(SubSeq(q, 1, l)) /\ Len(SubSeq(q, 1, l)) = l
             /\ \A k \in 1 .. l : SubSeq(q, 1, l)[k] = q[k]
  <2> HIDE DEF T
  <2>1. SubSeq(q, 1, l) \in Seq(T) /\ Len(SubSeq(q, 1, l)) = l
    BY <1>1, SubSeqProperties
  <2>2. \A k \in 1 .. l : SubSeq(q, 1, l)[k] = q[k]
    BY <1>1, SubSeqProperties
  <2>3. IsSeq(SubSeq(q, 1, l))
    BY <1>3, <2>1
  <2>4. QED
    BY <2>1, <2>2, <2>3
<1>7. QED
  BY <1>2, <1>4, <1>5, <1>6

\* What never changes.
LEMMA ConstantStep ==
  ASSUME Next
  PROVE  UNCHANGED <<params, caller, theirs, sizesAgree, m>>
<1>1. OprfStep => UNCHANGED params
  <2> SUFFICES ASSUME OprfStep PROVE UNCHANGED params
    OBVIOUS
  <2>1. CASE SendInit
    BY <2>1 DEF SendInit, params
  <2>2. CASE RecvSeed
    BY <2>2 DEF RecvSeed, params
  <2>3. CASE SendVole
    BY <2>3 DEF SendVole, params
  <2>4. CASE RecvW
    BY <2>4 DEF RecvW, params
  <2>5. CASE RecvChunk
    BY <2>5 DEF RecvChunk, params
  <2>6. CASE RecvInit
    BY <2>6 DEF RecvInit, params
  <2>7. CASE RecvHws
    BY <2>7 DEF RecvHws, params
  <2>8. CASE Solve
    BY <2>8 DEF Solve, params
  <2>9. CASE EncodeFails
    BY <2>9 DEF EncodeFails, params
  <2>10. CASE SolveThrows
    BY <2>10 DEF SolveThrows, params
  <2>11. CASE RecvVole
    BY <2>11 DEF RecvVole, params
  <2>12. CASE MaskChunk
    BY <2>12 DEF MaskChunk, params
  <2>13. CASE SendingEnds
    BY <2>13 DEF SendingEnds, params
  <2>14. CASE Decode
    BY <2>14 DEF Decode, params
  <2>15. CASE RecvWs
    BY <2>15 DEF RecvWs, params
  <2>16. CASE \E X \in Sides : VoleSend(X)
    BY <2>16 DEF VoleSend, params
  <2>17. CASE \E X \in Sides : VoleRecv(X)
    BY <2>17 DEF VoleRecv, params
  <2>18. CASE \E X \in Sides : RecvFails(X)
    BY <2>18 DEF RecvFails, params
  <2>19. CASE \E X \in Sides : SendFails(X)
    BY <2>19 DEF SendFails, params
  <2>20. QED
    BY <2>1, <2>2, <2>3, <2>4, <2>5, <2>6, <2>7, <2>8, <2>9, <2>10, <2>11, <2>12, <2>13,
        <2>14, <2>15, <2>16, <2>17, <2>18, <2>19 DEF Next, Progress, OprfStep, CallerStep
<1>2. CallerStep => UNCHANGED <<params, caller, theirs, sizesAgree, m>>
  <2> SUFFICES ASSUME CallerStep PROVE UNCHANGED <<params, caller, theirs, sizesAgree, m>>
    OBVIOUS
  <2>1. CASE SendHashes
    BY <2>1 DEF SendHashes, params, callerVars
  <2>2. CASE SenderSendingEnds
    BY <2>2 DEF SenderSendingEnds, params, callerVars
  <2>3. CASE RecverGoesOn
    BY <2>3 DEF RecverGoesOn, params, callerVars
  <2>4. CASE RecvHashes
    BY <2>4 DEF RecvHashes, params, callerVars
  <2>5. CASE SendPSeed
    BY <2>5 DEF SendPSeed, params, callerVars
  <2>6. CASE RecvPSeed
    BY <2>6 DEF RecvPSeed, params, callerVars
  <2>7. CASE SendP
    BY <2>7 DEF SendP, params, callerVars
  <2>8. CASE SolveProgramThrows
    BY <2>8 DEF SolveProgramThrows, params, callerVars
  <2>9. CASE RecvP
    BY <2>9 DEF RecvP, params, callerVars
  <2>10. CASE Expand
    BY <2>10 DEF Expand, params, callerVars
  <2>11. CASE AddDecoded
    BY <2>11 DEF AddDecoded, params, callerVars
  <2>12. CASE \E X \in Sides : SendSize(X)
    BY <2>12 DEF SendSize, params, callerVars
  <2>13. CASE \E X \in Sides : OwnSizeWrong(X)
    BY <2>13 DEF OwnSizeWrong, Checked, params, callerVars
  <2>14. CASE \E X \in Sides : RecvSize(X)
    BY <2>14 DEF RecvSize, params, callerVars
  <2>15. CASE \E X \in Sides : PeerSizeWrong(X)
    BY <2>15 DEF PeerSizeWrong, params, callerVars
  <2>16. CASE \E X \in Sides : Closes(X)
    BY <2>16 DEF Closes, params, callerVars
  <2>17. QED
    BY <2>1, <2>2, <2>3, <2>4, <2>5, <2>6, <2>7, <2>8, <2>9, <2>10, <2>11, <2>12, <2>13,
        <2>14, <2>15, <2>16 DEF Next, Progress, OprfStep, CallerStep
<1>3. (\E X \in Sides : Dies(X)) => UNCHANGED <<params, callerVars>>
  BY DEF Dies
<1>4. QED
  BY <1>1, <1>2, <1>3 DEF Next, Progress, callerVars

\* What the parameters are, by the assumptions on the constants.
LEMMA ParamFacts ==
  ASSUME ParamInv
  PROVE  /\ size \in Nat /\ size > 0 /\ script \in Seq(Sides)
         /\ Len(script) \in Nat /\ \A k \in 1 .. Len(script) : script[k] \in Sides
         /\ values \subseteq Nat /\ IsFiniteSet(values) /\ values # {} /\ n \in Nat
         /\ values \subseteq Items /\ theirs \subseteq Items /\ Chunk \in Nat \ {0}
<1>1. size \in Nat /\ script \in Seq(Sides)
  BY ScriptAssumption DEF ParamInv, Sides
<1>2. values \subseteq Items /\ values # {} /\ theirs \subseteq Items
  BY ReceiverAssumption, SetAssumption DEF ParamInv
<1>3. PICK v \in values : TRUE
  BY <1>2
<1>4. Own(size, v) \in 0 .. size - 1
  BY <1>2, <1>3, RowAssumption DEF ParamInv
<1>5. IsFiniteSet(values) /\ values \subseteq Nat
  BY <1>2, ItemAssumption, FS_Subset
<1>6. n \in Nat
  BY <1>5, FS_CardinalityType DEF n
<1>7. QED
  BY <1>1, <1>2, <1>4, <1>5, <1>6, ChunkAssumption

\* Where the sides can be is kept.
LEMMA PcStep ==
  ASSUME PcInv, Next
  PROVE  PcInv'
<1> USE SidesFacts, ConstantStep DEF PcInv, params, Goto
<1>1. CASE SendInit
  BY <1>1 DEF SendInit, Fail, Breaks, SenderPcs, RecverPcs, Waiting, callerVars, params
<1>2. CASE RecvSeed
  BY <1>2 DEF RecvSeed, Fail, Breaks, SenderPcs, RecverPcs, Waiting, callerVars, params
<1>3. CASE SendVole
  BY <1>3 DEF SendVole, Fail, Breaks, SenderPcs, RecverPcs, Waiting, callerVars, params
<1>4. CASE RecvW
  BY <1>4 DEF RecvW, Fail, Breaks, SenderPcs, RecverPcs, Waiting, callerVars, params
<1>5. CASE RecvChunk
  BY <1>5 DEF RecvChunk, Fail, Breaks, SenderPcs, RecverPcs, Waiting, callerVars, params
<1>6. CASE RecvInit
  BY <1>6 DEF RecvInit, Fail, Breaks, SenderPcs, RecverPcs, Waiting, callerVars, params
<1>7. CASE RecvHws
  BY <1>7 DEF RecvHws, Fail, Breaks, SenderPcs, RecverPcs, Waiting, callerVars, params
<1>8. CASE Solve
  BY <1>8 DEF Solve, Fail, Breaks, SenderPcs, RecverPcs, Waiting, callerVars, params
<1>9. CASE EncodeFails
  BY <1>9 DEF EncodeFails, Fail, Breaks, SenderPcs, RecverPcs, Waiting, callerVars, params
<1>10. CASE SolveThrows
  BY <1>10 DEF SolveThrows, Fail, Breaks, SenderPcs, RecverPcs, Waiting, callerVars, params
<1>11. CASE RecvVole
  BY <1>11 DEF RecvVole, Fail, Breaks, SenderPcs, RecverPcs, Waiting, callerVars, params
<1>12. CASE MaskChunk
  BY <1>12 DEF MaskChunk, Fail, Breaks, SenderPcs, RecverPcs, Waiting, callerVars, params
<1>13. CASE SendingEnds
  BY <1>13 DEF SendingEnds, Fail, Breaks, SenderPcs, RecverPcs, Waiting, callerVars, params
<1>14. CASE Decode
  BY <1>14 DEF Decode, Fail, Breaks, SenderPcs, RecverPcs, Waiting, callerVars, params
<1>15. CASE RecvWs
  BY <1>15 DEF RecvWs, Fail, Breaks, SenderPcs, RecverPcs, Waiting, callerVars, params
<1>16. CASE \E X \in Sides : VoleSend(X)
  BY <1>16 DEF VoleSend, Fail, Breaks, SenderPcs, RecverPcs, Waiting, callerVars, params
<1>17. CASE \E X \in Sides : VoleRecv(X)
  BY <1>17 DEF VoleRecv, Fail, Breaks, SenderPcs, RecverPcs, Waiting, callerVars, params
<1>18. CASE \E X \in Sides : RecvFails(X)
  BY <1>18 DEF RecvFails, Fail, Breaks, SenderPcs, RecverPcs, Waiting, callerVars, params
<1>19. CASE \E X \in Sides : SendFails(X)
  BY <1>19 DEF SendFails, Fail, Breaks, SenderPcs, RecverPcs, Waiting, callerVars, params
<1>20. CASE SendHashes
  BY <1>20 DEF SendHashes, Fail, Breaks, SenderPcs, RecverPcs, Waiting, callerVars, params
<1>21. CASE SenderSendingEnds
  BY <1>21 DEF SenderSendingEnds, Fail, Breaks, SenderPcs, RecverPcs, Waiting, callerVars,
      params
<1>22. CASE RecverGoesOn
  BY <1>22 DEF RecverGoesOn, Fail, Breaks, SenderPcs, RecverPcs, Waiting, callerVars, params
<1>23. CASE RecvHashes
  BY <1>23 DEF RecvHashes, Fail, Breaks, SenderPcs, RecverPcs, Waiting, callerVars, params
<1>24. CASE SendPSeed
  BY <1>24 DEF SendPSeed, Fail, Breaks, SenderPcs, RecverPcs, Waiting, callerVars, params
<1>25. CASE RecvPSeed
  BY <1>25 DEF RecvPSeed, Fail, Breaks, SenderPcs, RecverPcs, Waiting, callerVars, params
<1>26. CASE SendP
  BY <1>26 DEF SendP, Fail, Breaks, SenderPcs, RecverPcs, Waiting, callerVars, params
<1>27. CASE SolveProgramThrows
  BY <1>27 DEF SolveProgramThrows, Fail, Breaks, SenderPcs, RecverPcs, Waiting, callerVars,
      params
<1>28. CASE RecvP
  BY <1>28 DEF RecvP, Fail, Breaks, SenderPcs, RecverPcs, Waiting, callerVars, params
<1>29. CASE Expand
  BY <1>29 DEF Expand, Fail, Breaks, SenderPcs, RecverPcs, Waiting, callerVars, params
<1>30. CASE AddDecoded
  BY <1>30 DEF AddDecoded, Fail, Breaks, SenderPcs, RecverPcs, Waiting, callerVars, params
<1>31. CASE \E X \in Sides : SendSize(X)
  BY <1>31 DEF SendSize, Fail, Breaks, SenderPcs, RecverPcs, Waiting, callerVars, params
<1>32. CASE \E X \in Sides : OwnSizeWrong(X)
  BY <1>32 DEF OwnSizeWrong, Checked, Fail, Breaks, SenderPcs, RecverPcs, Waiting, callerVars, params
<1>33. CASE \E X \in Sides : RecvSize(X)
  BY <1>33 DEF RecvSize, Fail, Breaks, SenderPcs, RecverPcs, Waiting, callerVars, params
<1>34. CASE \E X \in Sides : PeerSizeWrong(X)
  BY <1>34 DEF PeerSizeWrong, Fail, Breaks, SenderPcs, RecverPcs, Waiting, callerVars,
      params
<1>35. CASE \E X \in Sides : Closes(X)
  <2> SUFFICES ASSUME NEW X \in Sides, Closes(X) PROVE PcInv'
    BY <1>35
  <2>1. pc[X] = "done" /\ open' = open \ {X} /\ UNCHANGED pc
    BY DEF Closes, Breaks
  <2>2. QED
    BY <2>1 DEF SenderPcs, RecverPcs
<1>36. CASE \E X \in Sides : Dies(X)
  BY <1>36 DEF Dies, Fail, Breaks, SenderPcs, RecverPcs, Waiting, callerVars, params
<1>37. QED
  BY <1>1, <1>2, <1>3, <1>4, <1>5, <1>6, <1>7, <1>8, <1>9, <1>10, <1>11, <1>12, <1>13,
      <1>14, <1>15, <1>16, <1>17, <1>18, <1>19, <1>20, <1>21, <1>22, <1>23, <1>24, <1>25,
      <1>26, <1>27, <1>28, <1>29, <1>30, <1>31, <1>32, <1>33, <1>34, <1>35, <1>36 DEF Next,
      Progress, OprfStep, CallerStep

\* The VOLE's cursor.
LEMMA CursorStep ==
  ASSUME ParamInv, PcInv, CursorInv, Next
  PROVE  CursorInv'
<1> USE SidesFacts, ConstantStep, ParamFacts DEF PcInv, CursorInv, params, Goto, VoleDone
<1>1. CASE SendInit
  BY <1>1 DEF SendInit, Fail, Breaks, SenderPcs, RecverPcs, VoleWaits, params
<1>2. CASE RecvSeed
  BY <1>2 DEF RecvSeed, Fail, Breaks, SenderPcs, RecverPcs, VoleWaits, params
<1>3. CASE SendVole
  BY <1>3 DEF SendVole, Fail, Breaks, SenderPcs, RecverPcs, VoleWaits, params
<1>4. CASE RecvW
  BY <1>4 DEF RecvW, Fail, Breaks, SenderPcs, RecverPcs, VoleWaits, params
<1>5. CASE RecvChunk
  BY <1>5 DEF RecvChunk, Fail, Breaks, SenderPcs, RecverPcs, VoleWaits, params
<1>6. CASE RecvInit
  BY <1>6 DEF RecvInit, Fail, Breaks, SenderPcs, RecverPcs, VoleWaits, params
<1>7. CASE RecvHws
  BY <1>7 DEF RecvHws, Fail, Breaks, SenderPcs, RecverPcs, VoleWaits, params
<1>8. CASE Solve
  BY <1>8 DEF Solve, Fail, Breaks, SenderPcs, RecverPcs, VoleWaits, params
<1>9. CASE EncodeFails
  BY <1>9 DEF EncodeFails, Fail, Breaks, SenderPcs, RecverPcs, VoleWaits, params
<1>10. CASE SolveThrows
  BY <1>10 DEF SolveThrows, Fail, Breaks, SenderPcs, RecverPcs, VoleWaits, params
<1>11. CASE RecvVole
  BY <1>11 DEF RecvVole, Fail, Breaks, SenderPcs, RecverPcs, VoleWaits, params
<1>12. CASE MaskChunk
  BY <1>12 DEF MaskChunk, Fail, Breaks, SenderPcs, RecverPcs, VoleWaits, params
<1>13. CASE SendingEnds
  BY <1>13 DEF SendingEnds, Fail, Breaks, SenderPcs, RecverPcs, VoleWaits, params
<1>14. CASE Decode
  BY <1>14 DEF Decode, Fail, Breaks, SenderPcs, RecverPcs, VoleWaits, params
<1>15. CASE RecvWs
  BY <1>15 DEF RecvWs, Fail, Breaks, SenderPcs, RecverPcs, VoleWaits, params
<1>16. CASE \E X \in Sides : VoleSend(X)
  BY <1>16 DEF VoleSend, Fail, Breaks, SenderPcs, RecverPcs, VoleWaits, params
<1>17. CASE \E X \in Sides : VoleRecv(X)
  BY <1>17 DEF VoleRecv, Fail, Breaks, SenderPcs, RecverPcs, VoleWaits, params
<1>18. CASE \E X \in Sides : RecvFails(X)
  BY <1>18 DEF RecvFails, Fail, Breaks, SenderPcs, RecverPcs, VoleWaits, params
<1>19. CASE \E X \in Sides : SendFails(X)
  BY <1>19 DEF SendFails, Fail, Breaks, SenderPcs, RecverPcs, VoleWaits, params
<1>20. CASE SendHashes
  BY <1>20 DEF SendHashes, Fail, Breaks, SenderPcs, RecverPcs, VoleWaits, params
<1>21. CASE SenderSendingEnds
  BY <1>21 DEF SenderSendingEnds, Fail, Breaks, SenderPcs, RecverPcs, VoleWaits, params
<1>22. CASE RecverGoesOn
  BY <1>22 DEF RecverGoesOn, Fail, Breaks, SenderPcs, RecverPcs, VoleWaits, params
<1>23. CASE RecvHashes
  BY <1>23 DEF RecvHashes, Fail, Breaks, SenderPcs, RecverPcs, VoleWaits, params
<1>24. CASE SendPSeed
  BY <1>24 DEF SendPSeed, Fail, Breaks, SenderPcs, RecverPcs, VoleWaits, params
<1>25. CASE RecvPSeed
  BY <1>25 DEF RecvPSeed, Fail, Breaks, SenderPcs, RecverPcs, VoleWaits, params
<1>26. CASE SendP
  BY <1>26 DEF SendP, Fail, Breaks, SenderPcs, RecverPcs, VoleWaits, params
<1>27. CASE SolveProgramThrows
  BY <1>27 DEF SolveProgramThrows, Fail, Breaks, SenderPcs, RecverPcs, VoleWaits, params
<1>28. CASE RecvP
  BY <1>28 DEF RecvP, Fail, Breaks, SenderPcs, RecverPcs, VoleWaits, params
<1>29. CASE Expand
  BY <1>29 DEF Expand, Fail, Breaks, SenderPcs, RecverPcs, VoleWaits, params
<1>30. CASE AddDecoded
  BY <1>30 DEF AddDecoded, Fail, Breaks, SenderPcs, RecverPcs, VoleWaits, params
<1>31. CASE \E X \in Sides : SendSize(X)
  BY <1>31 DEF SendSize, Fail, Breaks, SenderPcs, RecverPcs, VoleWaits, params
<1>32. CASE \E X \in Sides : OwnSizeWrong(X)
  BY <1>32 DEF OwnSizeWrong, Checked, Fail, Breaks, SenderPcs, RecverPcs, VoleWaits, params
<1>33. CASE \E X \in Sides : RecvSize(X)
  BY <1>33 DEF RecvSize, Fail, Breaks, SenderPcs, RecverPcs, VoleWaits, params
<1>34. CASE \E X \in Sides : PeerSizeWrong(X)
  BY <1>34 DEF PeerSizeWrong, Fail, Breaks, SenderPcs, RecverPcs, VoleWaits, params
<1>35. CASE \E X \in Sides : Closes(X)
  BY <1>35 DEF Closes, Fail, Breaks, SenderPcs, RecverPcs, VoleWaits, params
<1>36. CASE \E X \in Sides : Dies(X)
  BY <1>36 DEF Dies, Fail, Breaks, SenderPcs, RecverPcs, VoleWaits, params
<1>37. QED
  BY <1>1, <1>2, <1>3, <1>4, <1>5, <1>6, <1>7, <1>8, <1>9, <1>10, <1>11, <1>12, <1>13,
      <1>14, <1>15, <1>16, <1>17, <1>18, <1>19, <1>20, <1>21, <1>22, <1>23, <1>24, <1>25,
      <1>26, <1>27, <1>28, <1>29, <1>30, <1>31, <1>32, <1>33, <1>34, <1>35, <1>36 DEF Next,
      Progress, OprfStep, CallerStep

\* The spans.
LEMMA SpanStep ==
  ASSUME ParamInv, PcInv, SpanInv, Next
  PROVE  SpanInv'
<1> USE SidesFacts, ConstantStep, ParamFacts DEF PcInv, SpanInv, params, Goto
<1>1. CASE SendInit
  BY <1>1 DEF SendInit, Fail, Breaks, SenderPcs, RecverPcs, params, senderVars, recverVars,
      maskVars, Lesser
<1>2. CASE RecvSeed
  BY <1>2 DEF RecvSeed, Fail, Breaks, SenderPcs, RecverPcs, params, senderVars, recverVars,
      maskVars, Lesser
<1>3. CASE SendVole
  BY <1>3 DEF SendVole, Fail, Breaks, SenderPcs, RecverPcs, params, senderVars, recverVars,
      maskVars, Lesser
<1>4. CASE RecvW
  BY <1>4 DEF RecvW, Fail, Breaks, SenderPcs, RecverPcs, params, senderVars, recverVars,
      maskVars, Lesser
<1>5. CASE RecvChunk
  BY <1>5 DEF RecvChunk, Fail, Breaks, SenderPcs, RecverPcs, params, senderVars, recverVars,
      maskVars, Lesser
<1>6. CASE RecvInit
  BY <1>6 DEF RecvInit, Fail, Breaks, SenderPcs, RecverPcs, params, senderVars, recverVars,
      maskVars, Lesser
<1>7. CASE RecvHws
  BY <1>7 DEF RecvHws, Fail, Breaks, SenderPcs, RecverPcs, params, senderVars, recverVars,
      maskVars, Lesser
<1>8. CASE Solve
  BY <1>8 DEF Solve, Fail, Breaks, SenderPcs, RecverPcs, params, senderVars, recverVars,
      maskVars, Lesser
<1>9. CASE EncodeFails
  BY <1>9 DEF EncodeFails, Fail, Breaks, SenderPcs, RecverPcs, params, senderVars,
      recverVars, maskVars, Lesser
<1>10. CASE SolveThrows
  BY <1>10 DEF SolveThrows, Fail, Breaks, SenderPcs, RecverPcs, params, senderVars,
      recverVars, maskVars, Lesser
<1>11. CASE RecvVole
  BY <1>11 DEF RecvVole, Fail, Breaks, SenderPcs, RecverPcs, params, senderVars, recverVars,
      maskVars, Lesser
<1>12. CASE MaskChunk
  <2> DEFINE l == Lesser(pSize, Chunk)
  <2>1. /\ pc["R"] = "mask" /\ cBegin < size /\ pSize = size - cBegin
        /\ UNCHANGED <<recvPos, encoded>> /\ UNCHANGED size
        /\ pc'["S"] = pc["S"] /\ pc'["R"] \in {"mask", "sending"}
    BY <1>12 DEF MaskChunk, senderVars, params
  <2>2. /\ cBegin' = cBegin + l /\ pSize' = IF pSize # l THEN pSize - l ELSE pSize
        /\ pBegin' = IF pSize # l THEN pBegin + l ELSE pBegin
        /\ moved' \in BOOLEAN
    BY <1>12 DEF MaskChunk
  <2>3. l \in 1 .. pSize
    BY <2>1 DEF Lesser
  <2> HIDE DEF l
  <2>4. /\ cBegin' \in 0 .. size /\ pBegin' \in 0 .. size /\ pSize' \in Nat
        /\ pBegin' + pSize' <= size
        /\ cBegin' < size => pSize' = size - cBegin'
    <3>1. /\ size \in Nat /\ cBegin \in Nat /\ pBegin \in Nat /\ pSize \in Nat
          /\ pBegin + pSize <= size /\ l \in Nat /\ l <= pSize /\ l > 0
      BY <2>3
    <3> HIDE ParamFacts, SidesFacts, ConstantStep DEF SpanInv, PcInv
    <3>2. CASE pSize = l
      BY <2>1, <2>2, <3>1, <3>2
    <3>3. CASE pSize # l
      BY <2>1, <2>2, <3>1, <3>3
    <3>4. QED
      BY <3>2, <3>3
  <2>5. QED
    BY <2>1, <2>2, <2>4
<1>13. CASE SendingEnds
  BY <1>13 DEF SendingEnds, Fail, Breaks, SenderPcs, RecverPcs, params, senderVars,
      recverVars, maskVars, Lesser
<1>14. CASE Decode
  BY <1>14 DEF Decode, Fail, Breaks, SenderPcs, RecverPcs, params, senderVars, recverVars,
      maskVars, Lesser
<1>15. CASE RecvWs
  BY <1>15 DEF RecvWs, Fail, Breaks, SenderPcs, RecverPcs, params, senderVars, recverVars,
      maskVars, Lesser
<1>16. CASE \E X \in Sides : VoleSend(X)
  BY <1>16 DEF VoleSend, Fail, Breaks, SenderPcs, RecverPcs, params, senderVars, recverVars,
      maskVars, Lesser
<1>17. CASE \E X \in Sides : VoleRecv(X)
  BY <1>17 DEF VoleRecv, Fail, Breaks, SenderPcs, RecverPcs, params, senderVars, recverVars,
      maskVars, Lesser
<1>18. CASE \E X \in Sides : RecvFails(X)
  BY <1>18 DEF RecvFails, Fail, Breaks, SenderPcs, RecverPcs, params, senderVars,
      recverVars, maskVars, Lesser
<1>19. CASE \E X \in Sides : SendFails(X)
  BY <1>19 DEF SendFails, Fail, Breaks, SenderPcs, RecverPcs, params, senderVars,
      recverVars, maskVars, Lesser
<1>20. CASE SendHashes
  BY <1>20 DEF SendHashes, Fail, Breaks, SenderPcs, RecverPcs, params, senderVars,
      recverVars, maskVars, Lesser
<1>21. CASE SenderSendingEnds
  BY <1>21 DEF SenderSendingEnds, Fail, Breaks, SenderPcs, RecverPcs, params, senderVars,
      recverVars, maskVars, Lesser
<1>22. CASE RecverGoesOn
  BY <1>22 DEF RecverGoesOn, Fail, Breaks, SenderPcs, RecverPcs, params, senderVars,
      recverVars, maskVars, Lesser
<1>23. CASE RecvHashes
  BY <1>23 DEF RecvHashes, Fail, Breaks, SenderPcs, RecverPcs, params, senderVars,
      recverVars, maskVars, Lesser
<1>24. CASE SendPSeed
  BY <1>24 DEF SendPSeed, Fail, Breaks, SenderPcs, RecverPcs, params, senderVars,
      recverVars, maskVars, Lesser
<1>25. CASE RecvPSeed
  BY <1>25 DEF RecvPSeed, Fail, Breaks, SenderPcs, RecverPcs, params, senderVars,
      recverVars, maskVars, Lesser
<1>26. CASE SendP
  BY <1>26 DEF SendP, Fail, Breaks, SenderPcs, RecverPcs, params, senderVars, recverVars,
      maskVars, Lesser
<1>27. CASE SolveProgramThrows
  BY <1>27 DEF SolveProgramThrows, Fail, Breaks, SenderPcs, RecverPcs, params, senderVars,
      recverVars, maskVars, Lesser
<1>28. CASE RecvP
  BY <1>28 DEF RecvP, Fail, Breaks, SenderPcs, RecverPcs, params, senderVars, recverVars,
      maskVars, Lesser
<1>29. CASE Expand
  BY <1>29 DEF Expand, Fail, Breaks, SenderPcs, RecverPcs, params, senderVars, recverVars,
      maskVars, Lesser
<1>30. CASE AddDecoded
  BY <1>30 DEF AddDecoded, Fail, Breaks, SenderPcs, RecverPcs, params, senderVars,
      recverVars, maskVars, Lesser
<1>31. CASE \E X \in Sides : SendSize(X)
  BY <1>31 DEF SendSize, Fail, Breaks, SenderPcs, RecverPcs, params, senderVars, recverVars,
      maskVars, Lesser
<1>32. CASE \E X \in Sides : OwnSizeWrong(X)
  BY <1>32 DEF OwnSizeWrong, Checked, Fail, Breaks, SenderPcs, RecverPcs, params, senderVars,
      recverVars, maskVars, Lesser
<1>33. CASE \E X \in Sides : RecvSize(X)
  BY <1>33 DEF RecvSize, Fail, Breaks, SenderPcs, RecverPcs, params, senderVars, recverVars,
      maskVars, Lesser
<1>34. CASE \E X \in Sides : PeerSizeWrong(X)
  BY <1>34 DEF PeerSizeWrong, Fail, Breaks, SenderPcs, RecverPcs, params, senderVars,
      recverVars, maskVars, Lesser
<1>35. CASE \E X \in Sides : Closes(X)
  BY <1>35 DEF Closes, Fail, Breaks, SenderPcs, RecverPcs, params, senderVars, recverVars,
      maskVars, Lesser
<1>36. CASE \E X \in Sides : Dies(X)
  BY <1>36 DEF Dies, Fail, Breaks, SenderPcs, RecverPcs, params, senderVars, recverVars,
      maskVars, Lesser
<1>37. QED
  BY <1>1, <1>2, <1>3, <1>4, <1>5, <1>6, <1>7, <1>8, <1>9, <1>10, <1>11, <1>12, <1>13,
      <1>14, <1>15, <1>16, <1>17, <1>18, <1>19, <1>20, <1>21, <1>22, <1>23, <1>24, <1>25,
      <1>26, <1>27, <1>28, <1>29, <1>30, <1>31, <1>32, <1>33, <1>34, <1>35, <1>36 DEF Next,
      Progress, OprfStep, CallerStep

\* The arrays and functions.
LEMMA ArrayStep ==
  ASSUME ParamInv, PcInv, ArrayInv, Next
  PROVE  ArrayInv'
<1>0. UNCHANGED <<size, values, m>> /\ Cols' = Cols /\ n' = n /\ Bytes' = Bytes
  BY ConstantStep DEF params, Cols, n, Bytes
<1> USE SidesFacts, ParamFacts DEF PcInv, ArrayInv, Goto
<1>1. CASE SendInit /\ UNCHANGED callerVars
  BY <1>1, <1>0 DEF SendInit, Fail, senderVars, recverVars, maskVars, callerVars
<1>2. CASE RecvSeed /\ UNCHANGED callerVars
  BY <1>2, <1>0 DEF RecvSeed, Fail, senderVars, recverVars, maskVars, callerVars
<1>3. CASE SendVole /\ UNCHANGED callerVars
  BY <1>3, <1>0 DEF SendVole, Fail, senderVars, recverVars, maskVars, callerVars
<1>4. CASE RecvW /\ UNCHANGED callerVars
  BY <1>4, <1>0 DEF RecvW, Fail, senderVars, recverVars, maskVars, callerVars
<1>5. CASE RecvChunk /\ UNCHANGED callerVars
  BY <1>5, <1>0 DEF RecvChunk, Fail, senderVars, recverVars, maskVars, callerVars
<1>6. CASE RecvInit /\ UNCHANGED callerVars
  BY <1>6, <1>0 DEF RecvInit, Fail, senderVars, recverVars, maskVars, callerVars
<1>7. CASE RecvHws /\ UNCHANGED callerVars
  BY <1>7, <1>0 DEF RecvHws, Fail, senderVars, recverVars, maskVars, callerVars
<1>8. CASE Solve /\ UNCHANGED callerVars
  BY <1>8, <1>0 DEF Solve, Fail, senderVars, recverVars, maskVars, callerVars, Encoding
<1>9. CASE EncodeFails /\ UNCHANGED callerVars
  BY <1>9, <1>0 DEF EncodeFails, Fail, senderVars, recverVars, maskVars, callerVars
<1>10. CASE SolveThrows /\ UNCHANGED callerVars
  BY <1>10, <1>0 DEF SolveThrows, Fail, senderVars, recverVars, maskVars, callerVars
<1>11. CASE RecvVole /\ UNCHANGED callerVars
  BY <1>11, <1>0 DEF RecvVole, Fail, senderVars, recverVars, maskVars, callerVars
<1>12. CASE MaskChunk /\ UNCHANGED callerVars
  <2>1. /\ UNCHANGED <<mB, outputs, mIntersection, expanded, mem>> /\ DOMAIN p' = Cols
        /\ pc'["R"] \in {"mask", "sending"}
    BY <1>12, <1>0 DEF MaskChunk, senderVars, callerVars
  <2> HIDE SidesFacts, ParamFacts DEF PcInv
  <2>2. QED
    BY <1>12, <1>0, <2>1
<1>13. CASE SendingEnds /\ UNCHANGED callerVars
  BY <1>13, <1>0 DEF SendingEnds, Fail, senderVars, recverVars, maskVars, callerVars
<1>14. CASE Decode /\ UNCHANGED callerVars
  BY <1>14, <1>0 DEF Decode, Fail, senderVars, recverVars, maskVars, callerVars
<1>15. CASE RecvWs /\ UNCHANGED callerVars
  BY <1>15, <1>0 DEF RecvWs, Fail, senderVars, recverVars, maskVars, callerVars
<1>16. CASE (\E X \in Sides : VoleSend(X)) /\ UNCHANGED callerVars
  BY <1>16, <1>0 DEF VoleSend, Fail, senderVars, recverVars, maskVars, callerVars
<1>17. CASE (\E X \in Sides : VoleRecv(X)) /\ UNCHANGED callerVars
  BY <1>17, <1>0 DEF VoleRecv, Fail, senderVars, recverVars, maskVars, callerVars
<1>18. CASE (\E X \in Sides : RecvFails(X)) /\ UNCHANGED callerVars
  BY <1>18, <1>0 DEF RecvFails, Fail, senderVars, recverVars, maskVars, callerVars
<1>19. CASE (\E X \in Sides : SendFails(X)) /\ UNCHANGED callerVars
  BY <1>19, <1>0 DEF SendFails, Fail, senderVars, recverVars, maskVars, callerVars
<1>20. CASE SendHashes
  BY <1>20, <1>0 DEF SendHashes, Fail, senderVars, recverVars, maskVars, callerVars
<1>21. CASE SenderSendingEnds
  BY <1>21, <1>0 DEF SenderSendingEnds, Fail, senderVars, recverVars, maskVars, callerVars
<1>22. CASE RecverGoesOn
  BY <1>22, <1>0 DEF RecverGoesOn, Fail, senderVars, recverVars, maskVars, callerVars
<1>23. CASE RecvHashes
  BY <1>23, <1>0 DEF RecvHashes, Fail, senderVars, recverVars, maskVars, callerVars
<1>24. CASE SendPSeed
  BY <1>24, <1>0 DEF SendPSeed, Fail, senderVars, recverVars, maskVars, callerVars
<1>25. CASE RecvPSeed
  BY <1>25, <1>0 DEF RecvPSeed, Fail, senderVars, recverVars, maskVars, callerVars
<1>26. CASE SendP
  BY <1>26, <1>0 DEF SendP, Fail, senderVars, recverVars, maskVars, callerVars
<1>27. CASE SolveProgramThrows
  BY <1>27, <1>0 DEF SolveProgramThrows, Fail, senderVars, recverVars, maskVars, callerVars
<1>28. CASE RecvP
  BY <1>28, <1>0 DEF RecvP, Fail, senderVars, recverVars, maskVars, callerVars
<1>29. CASE Expand
  BY <1>29, <1>0 DEF Expand, Fail, senderVars, recverVars, maskVars, callerVars
<1>30. CASE AddDecoded
  BY <1>30, <1>0 DEF AddDecoded, Fail, senderVars, recverVars, maskVars, callerVars
<1>31. CASE \E X \in Sides : SendSize(X)
  BY <1>31, <1>0 DEF SendSize, Fail, senderVars, recverVars, maskVars, callerVars
<1>32. CASE \E X \in Sides : OwnSizeWrong(X)
  BY <1>32, <1>0 DEF OwnSizeWrong, Checked, Fail, senderVars, recverVars, maskVars, callerVars
<1>33. CASE \E X \in Sides : RecvSize(X)
  BY <1>33, <1>0 DEF RecvSize, Fail, senderVars, recverVars, maskVars, callerVars
<1>34. CASE \E X \in Sides : PeerSizeWrong(X)
  BY <1>34, <1>0 DEF PeerSizeWrong, Fail, senderVars, recverVars, maskVars, callerVars
<1>35. CASE \E X \in Sides : Closes(X)
  BY <1>35, <1>0 DEF Closes, Fail, senderVars, recverVars, maskVars, callerVars
<1>36. CASE \E X \in Sides : Dies(X)
  BY <1>36, <1>0 DEF Dies, Fail, senderVars, recverVars, maskVars, callerVars
<1>37. QED
  BY <1>1, <1>2, <1>3, <1>4, <1>5, <1>6, <1>7, <1>8, <1>9, <1>10, <1>11, <1>12, <1>13,
      <1>14, <1>15, <1>16, <1>17, <1>18, <1>19, <1>20, <1>21, <1>22, <1>23, <1>24, <1>25,
      <1>26, <1>27, <1>28, <1>29, <1>30, <1>31, <1>32, <1>33, <1>34, <1>35, <1>36 DEF Next,
      Progress, OprfStep, CallerStep

\* What the queues can become: the same, a message longer, a message shorter, both,
\* or cut off.
LEMMA InboxKinds ==
  ASSUME InboxInv, NEW X \in Sides, NEW e, NEW Y \in Sides, NEW l \in 0 .. Len(inbox[Y])
  PROVE  /\ inbox' = [inbox EXCEPT ![X] = Append(@, e)] => InboxInv'
         /\ X # Y /\ inbox[Y] # << >>
              /\ inbox' = [inbox EXCEPT ![Y] = Tail(@), ![X] = Append(@, e)] => InboxInv'
         /\ inbox[Y] # << >> /\ inbox' = [inbox EXCEPT ![Y] = Tail(@)] => InboxInv'
         /\ inbox' = [inbox EXCEPT ![Y] = SubSeq(@, 1, l)] => InboxInv'
         /\ inbox' = inbox => InboxInv'
<1>1. \A Z \in Sides : IsSeq(inbox[Z])
  BY DEF InboxInv
<1>2. IsSeq(Append(inbox[X], e)) /\ IsSeq(SubSeq(inbox[Y], 1, l))
      /\ (inbox[Y] # << >> => IsSeq(Tail(inbox[Y])))
  BY <1>1, SequenceFacts
<1>3. DOMAIN inbox = Sides
  BY DEF InboxInv
<1>4. QED
  BY <1>1, <1>2, <1>3 DEF InboxInv

\* The queues stay sequences when a side's socket breaks.
LEMMA InboxBreaks ==
  ASSUME InboxInv, NEW X \in Sides, Breaks(X)
  PROVE  InboxInv'
<1>1. PICK l \in 0 .. Len(inbox[Peer(X)]) :
        inbox' = [inbox EXCEPT ![Peer(X)] = SubSeq(@, 1, l)]
  BY DEF Breaks
<1>2. QED
  BY <1>1, InboxKinds, SidesFacts

\* The queues stay sequences when a side sends, takes, or answers what it takes.
LEMMA InboxSent ==
  ASSUME InboxInv, NEW X \in Sides
  PROVE  /\ \A kind, b : inbox' = Sent(X, kind, b) => InboxInv'
         /\ inbox[X] # << >> => /\ inbox' = Taken(X) => InboxInv'
                                /\ \A kind, b : inbox' = Replied(X, kind, b) => InboxInv'
<1>1. 0 \in 0 .. Len(inbox[X])
  BY SequenceFacts DEF InboxInv
<1>2. QED
  BY <1>1, InboxKinds, SidesFacts DEF Sent, Taken, Replied

\* The queues stay sequences when a side sends or takes a message of the VOLE.
LEMMA InboxVole ==
  ASSUME InboxInv, NEW X \in Sides, VoleSend(X) \/ VoleRecv(X)
  PROVE  InboxInv'
<1>1. CASE VoleSend(X)
  <2>1. 0 \in 0 .. Len(inbox[X])
    BY SequenceFacts DEF InboxInv
  <2>2. QED
    BY <1>1, <2>1, InboxKinds, SidesFacts DEF VoleSend
<1>2. CASE VoleRecv(X)
  BY <1>2, InboxSent DEF VoleRecv, CanRecv
<1>3. QED
  BY <1>1, <1>2

\* The queues stay sequences.
LEMMA InboxStep ==
  ASSUME InboxInv, Next
  PROVE  InboxInv'
<1> USE InboxSent, InboxBreaks, SidesFacts DEF CanRecv
<1>1. CASE SendInit
  <2>1. inbox' = inbox => InboxInv'
    BY DEF InboxInv
  <2>2. QED
    BY <1>1, <2>1 DEF SendInit
<1>2. CASE RecvSeed
  BY <1>2 DEF RecvSeed, Fail
<1>3. CASE SendVole
  <2>1. inbox' = inbox
    BY <1>3 DEF SendVole
  <2>2. QED
    BY <2>1 DEF InboxInv
<1>4. CASE RecvW
  BY <1>4 DEF RecvW, Fail
<1>5. CASE RecvChunk
  BY <1>5 DEF RecvChunk, Fail
<1>6. CASE RecvInit
  <2>1. inbox' = inbox => InboxInv'
    BY DEF InboxInv
  <2>2. QED
    BY <1>6, <2>1 DEF RecvInit
<1>7. CASE RecvHws
  BY <1>7 DEF RecvHws, Fail
<1>8. CASE Solve
  <2>1. inbox' = inbox
    BY <1>8 DEF Solve
  <2>2. QED
    BY <2>1 DEF InboxInv
<1>9. CASE EncodeFails
  <2>1. inbox' = inbox
    BY <1>9 DEF EncodeFails
  <2>2. QED
    BY <2>1 DEF InboxInv
<1>10. CASE SolveThrows
  BY <1>10 DEF SolveThrows, Fail
<1>11. CASE RecvVole
  <2>1. inbox' = inbox => InboxInv'
    BY DEF InboxInv
  <2>2. QED
    BY <1>11, <2>1 DEF RecvVole
<1>12. CASE MaskChunk
  BY <1>12 DEF MaskChunk, Fail
<1>13. CASE SendingEnds
  <2>1. inbox' = inbox
    BY <1>13 DEF SendingEnds
  <2>2. QED
    BY <2>1 DEF InboxInv
<1>14. CASE Decode
  <2>1. inbox' = inbox
    BY <1>14 DEF Decode
  <2>2. QED
    BY <2>1 DEF InboxInv
<1>15. CASE RecvWs
  <2>1. Breaks("R") \/ inbox' = Taken("R")
    BY <1>15 DEF RecvWs, Fail
  <2>2. QED
    BY <1>15, <2>1 DEF RecvWs
<1>16. CASE \E X \in Sides : VoleSend(X)
  BY <1>16, InboxVole
<1>17. CASE \E X \in Sides : VoleRecv(X)
  BY <1>17, InboxVole
<1>18. CASE \E X \in Sides : RecvFails(X)
  BY <1>18 DEF RecvFails, Fail
<1>19. CASE \E X \in Sides : SendFails(X)
  BY <1>19 DEF SendFails, Fail
<1>20. CASE SendHashes
  BY <1>20 DEF SendHashes, Fail
<1>21. CASE SenderSendingEnds
  <2>1. inbox' = inbox
    BY <1>21 DEF SenderSendingEnds
  <2>2. QED
    BY <2>1 DEF InboxInv
<1>22. CASE RecverGoesOn
  <2>1. inbox' = inbox
    BY <1>22 DEF RecverGoesOn
  <2>2. QED
    BY <2>1 DEF InboxInv
<1>23. CASE RecvHashes
  BY <1>23 DEF RecvHashes, Fail
<1>24. CASE SendPSeed
  BY <1>24 DEF SendPSeed, Fail
<1>25. CASE RecvPSeed
  BY <1>25 DEF RecvPSeed, Fail
<1>26. CASE SendP
  BY <1>26 DEF SendP, Fail
<1>27. CASE SolveProgramThrows
  BY <1>27 DEF SolveProgramThrows, Fail
<1>28. CASE RecvP
  BY <1>28 DEF RecvP, Fail
<1>29. CASE Expand
  <2>1. inbox' = inbox
    BY <1>29 DEF Expand
  <2>2. QED
    BY <2>1 DEF InboxInv
<1>30. CASE AddDecoded
  <2>1. inbox' = inbox
    BY <1>30 DEF AddDecoded
  <2>2. QED
    BY <2>1 DEF InboxInv
<1>31. CASE \E X \in Sides : SendSize(X)
  BY <1>31 DEF SendSize, Fail
<1>32. CASE \E X \in Sides : OwnSizeWrong(X)
  BY <1>32 DEF OwnSizeWrong, Checked, Fail
<1>33. CASE \E X \in Sides : RecvSize(X)
  BY <1>33 DEF RecvSize, Fail
<1>34. CASE \E X \in Sides : PeerSizeWrong(X)
  BY <1>34 DEF PeerSizeWrong, Fail
<1>35. CASE \E X \in Sides : Closes(X)
  <2>1. inbox' = inbox => InboxInv'
    BY DEF InboxInv
  <2>2. QED
    BY <1>35, <2>1 DEF Closes
<1>36. CASE \E X \in Sides : Dies(X)
  BY <1>36 DEF Dies, Fail
<1>37. QED
  BY <1>1, <1>2, <1>3, <1>4, <1>5, <1>6, <1>7, <1>8, <1>9, <1>10, <1>11, <1>12, <1>13,
      <1>14, <1>15, <1>16, <1>17, <1>18, <1>19, <1>20, <1>21, <1>22, <1>23, <1>24, <1>25,
      <1>26, <1>27, <1>28, <1>29, <1>30, <1>31, <1>32, <1>33, <1>34, <1>35, <1>36 DEF Next,
      Progress, OprfStep, CallerStep

\* The initial states have the types.
LEMMA InitTypeInv == Init => TypeInv
<1> SUFFICES ASSUME Init PROVE TypeInv
  OBVIOUS
<1> USE SidesFacts DEF Init, OprfInit
<1>1. InboxInv
  <2>1. IsSeq(<< >>)
    BY DEF IsSeq
  <2>2. QED
    BY <2>1 DEF InboxInv
<1>2. ParamInv
  <2>1. CASE caller = "psi"
    BY <2>1, WidthAssumption DEF ParamInv
  <2>2. CASE caller # "psi"
    <3>1. caller = "opprf"
      BY <2>2, CallerAssumption
    <3>2. m \in Widths /\ ~ mMalicious
      BY <3>1
    <3>3. QED
      BY <2>2, <3>2, WidthAssumption DEF ParamInv
  <2>3. QED
    BY <2>1, <2>2
<1>3. /\ caller = "psi" => pc["S"] = "size" /\ pc["R"] = "size"
      /\ caller # "psi" => pc["S"] = "sendPSeed" /\ pc["R"] = "recvPSeed"
      /\ pc \in [Sides -> {"size", "sendPSeed", "recvPSeed"}]
  <2>1. CASE caller = "psi"
    <3>1. pc = [X \in Sides |-> "size"]
      BY <2>1
    <3>2. QED
      BY <2>1, <3>1
  <2>2. CASE caller # "psi"
    <3>1. pc = [X \in Sides |-> IF X = "S" THEN "sendPSeed" ELSE "recvPSeed"]
      BY <2>2
    <3>2. QED
      BY <2>2, <3>1
  <2>3. QED
    BY <2>1, <2>2
<1>9. PcInv
  <2> HIDE DEF Init, OprfInit
  <2>1. open = Sides
    BY DEF Init, OprfInit
  <2>2. QED
    BY <1>3, <2>1 DEF PcInv, SenderPcs, RecverPcs
<1>4. size \in Nat /\ n \in Nat /\ Len(script) \in Nat
  BY <1>2, ParamFacts
<1>5. CursorInv
  BY <1>4 DEF CursorInv
<1>6. SpanInv
  <2>1. /\ recvPos = 0 /\ cBegin = 0 /\ pBegin = 0 /\ pSize = 0
        /\ moved \in BOOLEAN /\ ~ moved /\ encoded \in BOOLEAN /\ ~ encoded
        /\ pc["S"] \in {"size", "sendPSeed"}
        /\ pc["R"] \in {"size", "recvPSeed"}
    BY <1>3
  <2> HIDE DEF Init, OprfInit
  <2>2. QED
    BY <1>4, <2>1 DEF SpanInv
<1>7. ArrayInv
  <2>1. pc["R"] # "recvWs"
    BY <1>3
  <2>2. outputs = << >> /\ mIntersection = {} /\ expanded = 0 /\ mem = << >>
        /\ DOMAIN mB = Cols /\ DOMAIN p = Cols
    OBVIOUS
  <2> HIDE DEF Init, OprfInit
  <2>3. QED
    BY <1>4, <2>1, <2>2 DEF ArrayInv
<1>8. QED
  BY <1>1, <1>2, <1>9, <1>5, <1>6, <1>7 DEF TypeInv

\* The types are kept, with where the sides can be in their protocols and what they
\* have sent, received and allocated there.
THEOREM TypeInvHolds == Spec => []TypeInv
<1>1. TypeInv /\ [Next]_vars => TypeInv'
  <2> SUFFICES ASSUME TypeInv, [Next]_vars PROVE TypeInv'
    OBVIOUS
  <2>1. CASE Next
    <3>1. ParamInv'
      BY <2>1, ConstantStep DEF TypeInv, ParamInv, params
    <3>2. QED
      BY <2>1, <3>1, PcStep, CursorStep, SpanStep, ArrayStep, InboxStep DEF TypeInv
  <2>2. CASE UNCHANGED vars
    BY <2>2 DEF vars, params, senderVars, recverVars, maskVars, callerVars, TypeInv, InboxInv,
      ParamInv, PcInv, CursorInv, SpanInv, ArrayInv, VoleDone, Cols, n, Bytes
  <2>3. QED
    BY <2>1, <2>2
<1>2. QED
  BY <1>1, InitTypeInv, PTL DEF Spec

\* Every variable keeps its type.
THEOREM TypeOKHolds == Spec => []TypeOK
<1>1. TypeInv => TypeOK
  <2> SUFFICES ASSUME TypeInv PROVE TypeOK
    OBVIOUS
  <2>1. pc \in [Sides -> Labels]
    BY DEF TypeInv, PcInv, SenderPcs, RecverPcs, Labels, Waiting
  <2>2. QED
    BY <2>1 DEF TypeInv, PcInv, CursorInv, SpanInv, ArrayInv, TypeOK
<1>2. QED
  BY <1>1, TypeInvHolds, PTL

-----------------------------------------------------------------------------
(* The kinds of steps. *)

\* The numbers of the messages ascend.
LEMMA NumberFacts ==
  ASSUME TypeInv, NEW X \in Sides, NEW s, Due(X, s)
  PROVE  s \in Nat /\ Following(X, s) \in Nat /\ Following(X, s) > s
<1>1. size \in Nat /\ Chunk \in Nat \ {0}
  BY ParamFacts DEF TypeInv
<1>2. QED
  BY <1>1 DEF Due, Following, Lesser

\* What sending, taking and answering does to the two queues.
LEMMA SentKinds ==
  ASSUME InboxInv, NEW X \in Sides
  PROVE  /\ \A kind, b : inbox' = Sent(X, kind, b) =>
              /\ inbox'[X] = inbox[X]
              /\ inbox'[Peer(X)] = Append(inbox[Peer(X)], <<"main", kind, b>>)
         /\ inbox' = Taken(X) =>
              inbox'[X] = Tail(inbox[X]) /\ inbox'[Peer(X)] = inbox[Peer(X)]
         /\ \A kind, b : inbox' = Replied(X, kind, b) =>
              /\ inbox'[X] = Tail(inbox[X])
              /\ inbox'[Peer(X)] = Append(inbox[Peer(X)], <<"main", kind, b>>)
BY SidesFacts DEF InboxInv, Sent, Taken, Replied

\* A socket that breaks leaves its peer the messages that arrived, up to a point.
LEMMA BreaksKind ==
  ASSUME TypeInv, NEW X \in Sides, Breaks(X), UNCHANGED <<params, recvPos>>,
         pc'[Peer(X)] = pc[Peer(X)]
  PROVE  IsCut(Peer(X))
<1>1. /\ X \notin open'
      /\ \E l \in 0 .. Len(inbox[Peer(X)]) : inbox'[Peer(X)] = SubSeq(inbox[Peer(X)], 1, l)
  BY SidesFacts DEF Breaks, TypeInv, InboxInv
<1>2. Got(Peer(X))' = Got(Peer(X))
  BY SidesFacts DEF Got, params
<1>3. QED
  BY <1>1, <1>2, SidesFacts DEF IsCut

\* A side that fails leaves the other what has arrived.
LEMMA FailKind ==
  ASSUME TypeInv, NEW X \in Sides, X \in open, Fail(X), UNCHANGED <<params, recvPos>>
  PROVE  Kind("S") /\ Kind("R")
<1>1. pc' = [pc EXCEPT ![X] = "failed"] /\ pc'[X] = "failed" /\ pc'[Peer(X)] = pc[Peer(X)]
  BY SidesFacts DEF Fail, Goto, TypeInv, PcInv
<1>2. IsCut(Peer(X))
  BY <1>1, BreaksKind DEF Fail
<1>3. QED
  BY <1>1, <1>2, SidesFacts DEF Kind

\* What the sender computes from unchanged state does not change.
LEMMA EvalKept ==
  ASSUME UNCHANGED <<params, mB, mSeed, mW>>
  PROVE  \A v : Eval(v)' = Eval(v)
BY DEF Eval, params, Finish, XorOver, XOR, Mul, Hv, H, h, HashingSeed, Junk

\* What its OKVS decodes to does not change either.
LEMMA ProgrammedKept ==
  ASSUME UNCHANGED <<params, mB, mSeed, mW, theirs, m>>
  PROVE  \A v : Programmed(v)' = Programmed(v)
BY EvalKept DEF Programmed, OprfEval, InPlace, XOR, val, Noise, Masks, Raw

\* The receiver's encoding does not change with the rest of its state.
LEMMA EncKept ==
  ASSUME UNCHANGED <<params, encoded>>
  PROVE  \A j : j \in Cols => Enc(j)' = Enc(j)
BY DEF Enc, Encoding, params, Cols, h

\* A sender that is ready stays so while its state is unchanged.
LEMMA ReadyKept ==
  ASSUME UNCHANGED <<params, recvPos, mSeed, mB, mW, encoded>>, Ready
  PROVE  Ready'
<1>1. \A j \in Cols : Enc(j)' = Enc(j)
  BY EncKept
<1>2. Cols' = Cols /\ UNCHANGED <<size, mMalicious>>
  BY DEF Cols, params
<1>3. QED
  BY <1>1, <1>2 DEF Ready, Tagged, FewChunks, HashingSeed, wr, ws, XOR, Mul, a

\* At the end of the sender's protocol it can evaluate.
LEMMA ReadyAtEnd ==
  ASSUME TypeInv, SenderInv, pc["S"] \in {"evaluate", "sending", "done"}
  PROVE  Ready
<1>1. recvPos = size /\ size \in Nat
  BY ParamFacts DEF TypeInv, SpanInv
<1>2. \A j \in Cols : j < recvPos
  BY <1>1 DEF Cols
<1>3. QED
  BY <1>1, <1>2 DEF Ready, SenderInv

\* What division by a positive number means.
LEMMA Division ==
  ASSUME NEW x \in Nat, NEW d \in Nat \ {0}
  PROVE  /\ x \div d \in Nat /\ x % d \in 0 .. d - 1
         /\ x = d * (x \div d) + (x % d)
  BY Z3

\* The unrolled loop covers whole turns, all of the chunk if it has only such.
LEMMA WholeTurns ==
  ASSUME NEW x \in Nat, NEW d \in Nat \ {0}
  PROVE  /\ (x \div d) * d \in 0 .. x
         /\ x % d = 0 => (x \div d) * d = x
<1> DEFINE q == x \div d
           y == d * q
<1>1. x = y + (x % d) /\ q \in Nat /\ x % d \in 0 .. d - 1
  BY Division
<1>2. y \in Nat /\ q * d = y
  <2> HIDE DEF q
  <2>1. QED
    BY <1>1
<1>3. x % d \in Nat
  BY <1>1
<1> HIDE DEF y
<1>4. y \in 0 .. x /\ (x % d = 0 => y = x)
  BY <1>1, <1>2, <1>3
<1>5. QED
  BY <1>2, <1>4

\* With few chunks every chunk is masked whole, and sent from where it is.
LEMMA MaskStep ==
  ASSUME TypeInv, UnmaskedInv, MaskChunk
  PROVE  /\ cBegin < size /\ pSize = size - cBegin
         /\ cBegin' = cBegin + Lesser(pSize, Chunk)
         /\ \E b : /\ inbox' = Sent("R", "chunk", b)
                   /\ FewChunks => b = [i \in 0 .. Lesser(pSize, Chunk) - 1 |->
                                          XOR(Enc(cBegin + i), c(cBegin + i))]
         /\ FewChunks /\ cBegin' < size =>
              pBegin' = cBegin' /\ ~ moved' /\ \A j \in Cols : j >= cBegin' => p'[j] = Enc(j)
<1> DEFINE l     == Lesser(pSize, Chunk)
           begin == IF pSize # l THEN pBegin + l ELSE pBegin
           left  == IF pSize # l THEN pSize - l ELSE pSize
           masked == [j \in Cols |->
                        IF j - pBegin \in Masked(l, left)
                        THEN XOR(p[j], c(j - pBegin + cBegin)) ELSE p[j]]
           first == IF left # l THEN pBegin ELSE begin
           b == [i \in 0 .. l - 1 |-> IF moved THEN Junk ELSE masked[first + i]]
<1>1. /\ pc["R"] = "mask" /\ cBegin < size
      /\ p' = masked /\ pBegin' = begin /\ pSize' = left
      /\ moved' = (moved \/ left = l) /\ cBegin' = cBegin + l
      /\ inbox' = Sent("R", "chunk", b)
  BY DEF MaskChunk
<1>2. /\ pSize = size - cBegin /\ size \in Nat /\ cBegin \in Nat /\ pBegin \in Nat
      /\ Chunk \in Nat \ {0} /\ Lanes \in Nat \ {0} /\ Chunk % Lanes = 0
      /\ moved \in BOOLEAN
  BY <1>1, ParamFacts, ChunkAssumption DEF TypeInv, SpanInv
<1>3. pSize \in Nat \ {0} /\ pSize <= size /\ l \in 1 .. pSize /\ l <= Chunk
      /\ (pSize # l => l = Chunk)
  <2>1. pSize \in Nat \ {0} /\ pSize <= size
    BY <1>1, <1>2
  <2>2. QED
    BY <1>2, <2>1 DEF Lesser
<1>4. ASSUME FewChunks
      PROVE  /\ pBegin = cBegin /\ ~ moved /\ \A j \in Cols : j >= cBegin => p[j] = Enc(j)
             /\ first = cBegin
             /\ pSize # l => left < l
             /\ \A i \in Int : i \in Masked(l, left) <=> i \in 0 .. l - 1
  <2>1. size < 2 * Chunk
    BY <1>4 DEF FewChunks
  <2>2. pBegin = cBegin /\ ~ moved /\ \A j \in Cols : j >= cBegin => p[j] = Enc(j)
    BY <1>1, <1>4 DEF UnmaskedInv
  <2> DEFINE w == (l \div Lanes) * Lanes
  <2>3. w \in 0 .. l /\ (l = Chunk => w = l)
    BY <1>2, <1>3, WholeTurns
  <2>4. \A i \in Int : i \in Masked(l, left) <=> i \in 0 .. w - 1 \/ i \in w .. left - 1
    BY DEF Masked
  <2> HIDE DEF w, l
  <2>5. pSize # l => left < l
    BY <1>2, <1>3, <2>1
  <2>6. first = cBegin
    BY <1>3, <2>2, <2>5
  <2>7. left \in Int /\ w \in Int /\ l \in Int /\ (pSize = l => left = l)
    BY <1>2, <1>3, <2>3
  <2>8. ASSUME NEW i \in Int PROVE i \in Masked(l, left) <=> i \in 0 .. l - 1
    <3>1. i \in Masked(l, left) <=> i \in 0 .. w - 1 \/ i \in w .. left - 1
      BY <2>4
    <3> HIDE DEF left, first
    <3>2. CASE pSize = l
      BY <2>3, <2>7, <3>1, <3>2
    <3>3. CASE pSize # l
      BY <1>3, <2>3, <2>5, <2>7, <3>1, <3>3
    <3>4. QED
      BY <3>2, <3>3
  <2> HIDE DEF left, first
  <2>9. QED
    BY <2>2, <2>5, <2>6, <2>8
<1>5. ASSUME FewChunks, NEW j \in Cols, j >= cBegin
      PROVE  masked[j] = IF j < cBegin + l THEN XOR(Enc(j), c(j)) ELSE Enc(j)
  <2>1. j \in Int /\ j - cBegin \in Int /\ j - cBegin + cBegin = j /\ l \in Int
    BY <1>2, <1>3, <1>5 DEF Cols
  <2>2. j - pBegin \in Masked(l, left) <=> j < cBegin + l
    <3> HIDE DEF l, left
    <3>1. j - cBegin \in 0 .. l - 1 <=> j < cBegin + l
      BY <1>2, <1>5, <2>1
    <3>2. QED
      BY <1>4, <1>5, <2>1, <3>1
  <2>3. p[j] = Enc(j) /\ pBegin = cBegin
    BY <1>4, <1>5
  <2>4. masked[j] = IF j - pBegin \in Masked(l, left)
                    THEN XOR(p[j], c(j - pBegin + cBegin)) ELSE p[j]
    BY <1>5
  <2> HIDE DEF l, left, masked
  <2>5. QED
    BY <2>1, <2>2, <2>3, <2>4
<1>6. ASSUME FewChunks
      PROVE  b = [i \in 0 .. l - 1 |-> XOR(Enc(cBegin + i), c(cBegin + i))]
  <2> SUFFICES ASSUME NEW i \in 0 .. l - 1
               PROVE  (IF moved THEN Junk ELSE masked[first + i])
                        = XOR(Enc(cBegin + i), c(cBegin + i))
    OBVIOUS
  <2> HIDE DEF l, masked, first
  <2>1. cBegin + i \in Cols /\ cBegin + i >= cBegin /\ cBegin + i < cBegin + l
    BY <1>2, <1>3 DEF Cols
  <2>2. masked[cBegin + i] = XOR(Enc(cBegin + i), c(cBegin + i))
    BY <1>5, <1>6, <2>1
  <2>3. QED
    BY <1>4, <1>6, <2>2
<1>7. ASSUME FewChunks, cBegin' < size
      PROVE  pBegin' = cBegin' /\ ~ moved' /\ \A j \in Cols : j >= cBegin' => p'[j] = Enc(j)
  <2> HIDE DEF l, masked, first
  <2>1. pSize # l
    BY <1>1, <1>2, <1>3, <1>7
  <2>2. pBegin' = cBegin' /\ left # l
    BY <1>1, <1>2, <1>3, <1>4, <1>7, <2>1
  <2>3. ~ moved'
    <3> HIDE DEF left, begin
    <3>1. QED
      BY <1>1, <1>4, <1>7, <2>2
  <2>4. ASSUME NEW j \in Cols, j >= cBegin' PROVE p'[j] = Enc(j)
    <3> HIDE DEF left, begin
    <3>1. j >= cBegin /\ ~ (j < cBegin + l)
      BY <1>1, <1>2, <1>3, <2>4 DEF Cols
    <3>2. QED
      BY <1>1, <1>5, <1>7, <3>1
  <2>5. QED
    BY <2>2, <2>3, <2>4
<1> HIDE DEF l, masked, first, left, begin, b
<1>8. \E bb : /\ inbox' = Sent("R", "chunk", bb)
              /\ FewChunks => bb = [i \in 0 .. l - 1 |-> XOR(Enc(cBegin + i), c(cBegin + i))]
  BY <1>1, <1>6
<1>9. QED
  BY <1>1, <1>2, <1>7, <1>8 DEF l

\* A chunk says what it has to.
LEMMA ChunkSent ==
  ASSUME IInv, Next, MaskChunk
  PROVE  Kind("S") /\ Kind("R")
<1> USE SidesFacts DEF IInv, TypeInv, PcInv, SpanInv
<1> DEFINE l == Lesser(pSize, Chunk)
<1>1. PICK b : /\ inbox' = Sent("R", "chunk", b)
               /\ FewChunks => b = [i \in 0 .. l - 1 |-> XOR(Enc(cBegin + i), c(cBegin + i))]
  BY MaskStep
<1>2. cBegin < size /\ pSize = size - cBegin /\ cBegin' = cBegin + l
  BY MaskStep
<1>3. /\ UNCHANGED <<params, open, recvPos, encoded>> /\ pc["R"] = "mask" /\ "R" \in open
      /\ pc' = [pc EXCEPT !["R"] = pc'["R"]] /\ pc'["R"] \in {"mask", "sending"}
  BY DEF MaskChunk, Goto, senderVars
<1>4. size \in Nat /\ Chunk \in Nat \ {0} /\ cBegin \in Nat /\ l \in Nat
  BY <1>2, ParamFacts DEF Lesser
<1>5. PICK s : s = 3 + cBegin
  OBVIOUS
<1>6. /\ s - 3 = cBegin /\ s \in Nat /\ s >= 3 /\ s = SentBy("R")
      /\ Lesser(size - (s - 3), Chunk) = l /\ Following("S", s) = s + l
      /\ Due("S", s)
  <2>1. s - 3 = cBegin /\ s \in Nat /\ s >= 3
    BY <1>4, <1>5
  <2>2. s = SentBy("R")
    BY <1>3, <1>5 DEF SentBy
  <2>3. Lesser(size - (s - 3), Chunk) = l
    BY <1>2, <2>1
  <2> HIDE DEF l
  <2>4. Following("S", s) = s + l
    BY <2>1, <2>3 DEF Following
  <2>5. QED
    BY <1>2, <1>4, <2>1, <2>2, <2>3, <2>4 DEF Due
<1> HIDE DEF l
<1>7. SentBy("R")' = s + l
  BY <1>2, <1>3, <1>4, <1>5 DEF SentBy
<1>8. Got("S")' = Got("S") /\ Got("R")' = Got("R") /\ SentBy("S")' = SentBy("S")
  BY <1>3 DEF Got, SentBy, params
<1>9. Body("S", s, b)'
  <2>1. s # 1 /\ s # 2 /\ s - 3 + Lesser(size - (s - 3), Chunk) <= cBegin'
    BY <1>2, <1>4, <1>6
  <2>2. size' = size /\ Cols' = Cols /\ FewChunks' = FewChunks
    BY <1>3 DEF params, Cols, FewChunks
  <2>3. ASSUME FewChunks
        PROVE  b = [i \in 0 .. l - 1 |-> XOR(Enc(s - 3 + i)', c(s - 3 + i))]
    <3>1. \A i \in 0 .. l - 1 : cBegin + i \in Cols
      <4>1. l <= size - cBegin
        BY <1>2, <1>4 DEF l, Lesser
      <4>2. QED
        BY <1>4, <4>1 DEF Cols
    <3>2. ASSUME NEW i \in 0 .. l - 1 PROVE Enc(s - 3 + i)' = Enc(cBegin + i)
      <4>1. PICK j : j = s - 3 + i
        OBVIOUS
      <4>2. j \in Cols /\ j = cBegin + i
        BY <1>6, <3>1, <4>1
      <4>3. Enc(j)' = Enc(j)
        BY <1>3, <4>2, EncKept
      <4>4. QED
        BY <4>1, <4>2, <4>3
    <3>3. \A i \in 0 .. l - 1 : c(s - 3 + i) = c(cBegin + i)
      BY <1>6
    <3>4. QED
      BY <1>1, <2>3, <3>2, <3>3
  <2>4. QED
    BY <1>6, <2>1, <2>2, <2>3 DEF Body, XOR, c
<1>0. InboxInv
  OBVIOUS
<1> HIDE DEF IInv, TypeInv, PcInv, SpanInv
<1>10. inbox'["R"] = inbox["R"] /\ inbox'["S"] = Append(inbox["S"], <<"main", "chunk", b>>)
  BY <1>0, <1>1, SentKinds
<1>11. Grows("S") /\ Stays("R")
  BY <1>3, <1>6, <1>7, <1>8, <1>9, <1>10 DEF Grows, Stays
<1>12. QED
  BY <1>3, <1>11 DEF Kind, IInv, TypeInv, PcInv

\* Every step is of one of these kinds for either side.
LEMMA Kinds ==
  ASSUME IInv, Next, ~ Voles, TypeInv'
  PROVE  Kind("S") /\ Kind("R")
<1>0. InboxInv
  BY DEF IInv, TypeInv
<1> USE SidesFacts DEF IInv, TypeInv, PcInv, SpanInv
<1>1. CASE SendInit
  <2>1. CASE mMalicious
    <3>1. PICK b : b = H(ws)
      OBVIOUS
    <3>2. inbox' = Sent("S", "Hws", b) /\ UNCHANGED <<params, open>> /\ "S" \in open
          /\ pc' = [pc EXCEPT !["S"] = pc'["S"]] /\ pc["S"] # "failed"
      BY <1>1, <2>1, <3>1 DEF SendInit, Goto, params
    <3>3. Got("S")' = Got("S") /\ SentBy("S")' = Following("R", SentBy("S"))
          /\ Got("R")' = Got("R") /\ SentBy("R")' = SentBy("R") /\ Due("R", SentBy("S"))
      BY <1>1, <2>1, <3>2, ParamFacts DEF SendInit, Got, SentBy, Following, Lesser, Due,
          Goto, senderVars, recverVars, maskVars, params
    <3>4. PICK s : s = SentBy("S")
      OBVIOUS
    <3>5. Body("R", s, b)'
      BY <1>1, <2>1, <3>1, <3>4 DEF SendInit, SentBy, Body, HashingSeed, wr, ws
    <3> HIDE DEF IInv, TypeInv, PcInv, SpanInv
    <3>6. /\ inbox'["S"] = inbox["S"]
          /\ inbox'["R"] = Append(inbox["R"], <<"main", "Hws", b>>)
      BY <3>2, <1>0, SentKinds
    <3>7. Grows("R") /\ Stays("S")
      BY <3>2, <3>3, <3>4, <3>5, <3>6 DEF Grows, Stays
    <3>8. QED
      BY <3>2, <3>7 DEF Kind, IInv, TypeInv, PcInv
  <2>2. CASE ~ mMalicious
    <3>1. UNCHANGED <<inbox, open, params>> /\ Got("S")' = Got("S") /\ Got("R")' = Got("R")
          /\ SentBy("S")' = SentBy("S") /\ SentBy("R")' = SentBy("R")
      BY <1>1, <2>2 DEF SendInit, Got, SentBy, Goto, senderVars, recverVars, maskVars,
          params
    <3>2. QED
      BY <1>1, <2>2, <3>1 DEF SendInit, Stays, Kind, Goto
  <2>3. QED
    BY <2>1, <2>2
<1>2. CASE RecvSeed
  <2>1. inbox' = Taken("S") /\ CanRecv("S", "main") /\ UNCHANGED <<params, open>>
        /\ pc' = [pc EXCEPT !["S"] = pc'["S"]] /\ pc["S"] # "failed"
    BY <1>2 DEF RecvSeed, Goto, CanRecv
  <2>2. Got("S")' = Following("S", Got("S")) /\ SentBy("S")' = SentBy("S")
        /\ Got("R")' = Got("R") /\ SentBy("R")' = SentBy("R")
    BY <1>2, <2>1, ParamFacts DEF RecvSeed, Got, SentBy, Following, Lesser, Goto,
        senderVars, recverVars, maskVars, params
  <2> HIDE DEF IInv, TypeInv, PcInv, SpanInv
  <2>3. inbox'["S"] = Tail(inbox["S"]) /\ inbox'["R"] = inbox["R"]
    BY <2>1, <1>0, SentKinds
  <2>4. Shrinks("S") /\ Stays("R")
    BY <2>1, <2>2, <2>3 DEF Shrinks, Stays
  <2>5. QED
    BY <2>1, <2>4 DEF Kind, IInv, TypeInv, PcInv
<1>3. CASE SendVole
  <2>1. UNCHANGED <<inbox, open, params>> /\ Got("S")' = Got("S") /\ Got("R")' = Got("R")
        /\ SentBy("S")' = SentBy("S") /\ SentBy("R")' = SentBy("R")
    BY <1>3 DEF SendVole, Got, SentBy, Goto, senderVars, recverVars, maskVars, params
  <2>2. QED
    BY <1>3, <2>1 DEF SendVole, Stays, Kind, Goto
<1>4. CASE RecvW
  <2>1. PICK b : b = ws
    OBVIOUS
  <2>2. inbox' = Replied("S", "ws", b) /\ UNCHANGED <<params, open>> /\ "S" \in open /\
      CanRecv("S", "main")
        /\ pc' = [pc EXCEPT !["S"] = pc'["S"]] /\ pc["S"] # "failed"
    BY <1>4, <2>1 DEF RecvW, Goto, params, CanRecv
  <2>3. Got("S")' = Following("S", Got("S")) /\ SentBy("S")' = Following("R", SentBy("S"))
        /\ Got("R")' = Got("R") /\ SentBy("R")' = SentBy("R") /\ Due("R", SentBy("S"))
    BY <1>4, <2>2, ParamFacts DEF RecvW, Got, SentBy, Following, Lesser, Due, Goto,
        senderVars, recverVars, maskVars, params
  <2>4. PICK s : s = SentBy("S")
    OBVIOUS
  <2>5. Body("R", s, b)'
    BY <1>4, <2>1, <2>4 DEF RecvW, SentBy, Body, HashingSeed, wr, ws
  <2> HIDE DEF IInv, TypeInv, PcInv, SpanInv
  <2>6. /\ inbox'["S"] = Tail(inbox["S"])
        /\ inbox'["R"] = Append(inbox["R"], <<"main", "ws", b>>)
    BY <2>2, <1>0, SentKinds
  <2>7. Grows("R") /\ Shrinks("S")
    BY <2>2, <2>3, <2>4, <2>5, <2>6 DEF Grows, Shrinks
  <2>8. QED
    BY <2>2, <2>7 DEF Kind, IInv, TypeInv, PcInv
<1>5. CASE RecvChunk
  <2>1. inbox' = Taken("S") /\ CanRecv("S", "main") /\ UNCHANGED <<params, open>>
        /\ pc' = [pc EXCEPT !["S"] = pc'["S"]] /\ pc["S"] # "failed"
    BY <1>5 DEF RecvChunk, Goto, CanRecv
  <2>2. Got("S")' = Following("S", Got("S")) /\ SentBy("S")' = SentBy("S")
        /\ Got("R")' = Got("R") /\ SentBy("R")' = SentBy("R")
    <3> DEFINE l == Lesser(size - recvPos, Chunk)
    <3>1. /\ recvPos' = recvPos + l /\ pc["S"] = "chunks"
          /\ UNCHANGED <<size, mMalicious, cBegin>>
          /\ pc'["S"] = IF recvPos' = size THEN "evaluate" ELSE "chunks"
      BY <1>5 DEF RecvChunk, Goto, recverVars, maskVars, params
    <3>2. recvPos \in Nat /\ 3 + recvPos - 3 = recvPos /\ size \in Nat
      BY ParamFacts
    <3>3. Got("S") = 3 + recvPos /\ Following("S", 3 + recvPos) = 3 + recvPos + l
      BY <3>1, <3>2 DEF Got, Following
    <3>4. l \in Nat
      BY <3>2, ParamFacts DEF Lesser
    <3> HIDE DEF l
    <3>5. Got("S")' = 3 + recvPos'
      BY <3>1 DEF Got
    <3>6. Got("S")' = Following("S", Got("S"))
      BY <3>1, <3>2, <3>3, <3>4, <3>5
    <3>7. QED
      BY <2>1, <3>1, <3>6 DEF Got, SentBy, params
  <2> HIDE DEF IInv, TypeInv, PcInv, SpanInv
  <2>3. inbox'["S"] = Tail(inbox["S"]) /\ inbox'["R"] = inbox["R"]
    BY <2>1, <1>0, SentKinds
  <2>4. Shrinks("S") /\ Stays("R")
    BY <2>1, <2>2, <2>3 DEF Shrinks, Stays
  <2>5. QED
    BY <2>1, <2>4 DEF Kind, IInv, TypeInv, PcInv
<1>6. CASE RecvInit
  <2>1. CASE ~ mMalicious
    <3>1. PICK b : b = HashingSeed
      OBVIOUS
    <3>2. inbox' = Sent("R", "seed", b) /\ UNCHANGED <<params, open>> /\ "R" \in open
          /\ pc' = [pc EXCEPT !["R"] = pc'["R"]] /\ pc["R"] # "failed"
      BY <1>6, <2>1, <3>1 DEF RecvInit, Goto, params
    <3>3. Got("R")' = Got("R") /\ SentBy("R")' = Following("S", SentBy("R"))
          /\ Got("S")' = Got("S") /\ SentBy("S")' = SentBy("S") /\ Due("S", SentBy("R"))
      BY <1>6, <2>1, <3>2, ParamFacts DEF RecvInit, Got, SentBy, Following, Lesser, Due,
          Goto, senderVars, recverVars, maskVars, params
    <3>4. PICK s : s = SentBy("R")
      OBVIOUS
    <3>5. Body("S", s, b)'
      BY <1>6, <2>1, <3>1, <3>4 DEF RecvInit, SentBy, Body, HashingSeed, wr, ws
    <3> HIDE DEF IInv, TypeInv, PcInv, SpanInv
    <3>6. /\ inbox'["R"] = inbox["R"]
          /\ inbox'["S"] = Append(inbox["S"], <<"main", "seed", b>>)
      BY <3>2, <1>0, SentKinds
    <3>7. Grows("S") /\ Stays("R")
      BY <3>2, <3>3, <3>4, <3>5, <3>6 DEF Grows, Stays
    <3>8. QED
      BY <3>2, <3>7 DEF Kind, IInv, TypeInv, PcInv
  <2>2. CASE mMalicious
    <3>1. UNCHANGED <<inbox, open, params>> /\ Got("S")' = Got("S") /\ Got("R")' = Got("R")
          /\ SentBy("S")' = SentBy("S") /\ SentBy("R")' = SentBy("R")
      BY <1>6, <2>2 DEF RecvInit, Got, SentBy, Goto, senderVars, recverVars, maskVars,
          params
    <3>2. QED
      BY <1>6, <2>2, <3>1 DEF RecvInit, Stays, Kind, Goto
  <2>3. QED
    BY <2>1, <2>2
<1>7. CASE RecvHws
  <2>1. PICK b : b = HashingSeed
    OBVIOUS
  <2>2. inbox' = Replied("R", "seed", b) /\ UNCHANGED <<params, open>> /\ "R" \in open /\
      CanRecv("R", "main")
        /\ pc' = [pc EXCEPT !["R"] = pc'["R"]] /\ pc["R"] # "failed"
    BY <1>7, <2>1 DEF RecvHws, Goto, params, CanRecv
  <2>3. Got("R")' = Following("R", Got("R")) /\ SentBy("R")' = Following("S", SentBy("R"))
        /\ Got("S")' = Got("S") /\ SentBy("S")' = SentBy("S") /\ Due("S", SentBy("R"))
    BY <1>7, <2>2, ParamFacts DEF RecvHws, Got, SentBy, Following, Lesser, Due, Goto,
        senderVars, recverVars, maskVars, params
  <2>4. PICK s : s = SentBy("R")
    OBVIOUS
  <2>5. Body("S", s, b)'
    BY <1>7, <2>1, <2>4 DEF RecvHws, SentBy, Body, HashingSeed, wr, ws
  <2> HIDE DEF IInv, TypeInv, PcInv, SpanInv
  <2>6. /\ inbox'["R"] = Tail(inbox["R"])
        /\ inbox'["S"] = Append(inbox["S"], <<"main", "seed", b>>)
    BY <2>2, <1>0, SentKinds
  <2>7. Grows("S") /\ Shrinks("R")
    BY <2>2, <2>3, <2>4, <2>5, <2>6 DEF Grows, Shrinks
  <2>8. QED
    BY <2>2, <2>7 DEF Kind, IInv, TypeInv, PcInv
<1>8. CASE Solve
  <2>1. UNCHANGED <<inbox, open, params>> /\ Got("S")' = Got("S") /\ Got("R")' = Got("R")
        /\ SentBy("S")' = SentBy("S") /\ SentBy("R")' = SentBy("R")
    BY <1>8 DEF Solve, Got, SentBy, Goto, senderVars, recverVars, maskVars, params
  <2>2. QED
    BY <1>8, <2>1 DEF Solve, Stays, Kind, Goto
<1>9. CASE EncodeFails
  <2>1. UNCHANGED <<inbox, open, params>> /\ Got("S")' = Got("S") /\ Got("R")' = Got("R")
        /\ SentBy("S")' = SentBy("S") /\ SentBy("R")' = SentBy("R")
    BY <1>9 DEF EncodeFails, Got, SentBy, Goto, senderVars, recverVars, maskVars, params
  <2>2. QED
    BY <1>9, <2>1 DEF EncodeFails, Stays, Kind, Goto
<1>10. CASE SolveThrows
  <2>1. "R" \in open /\ Fail("R") /\ UNCHANGED <<params, recvPos>>
    BY <1>10 DEF SolveThrows, params, senderVars
  <2>2. QED
    BY <2>1, FailKind
<1>11. CASE RecvVole
  <2>1. CASE mMalicious
    <3>1. PICK b : b = wr
      OBVIOUS
    <3>2. inbox' = Sent("R", "wr", b) /\ UNCHANGED <<params, open>> /\ "R" \in open
          /\ pc' = [pc EXCEPT !["R"] = pc'["R"]] /\ pc["R"] # "failed"
      BY <1>11, <2>1, <3>1 DEF RecvVole, Goto, params
    <3>3. Got("R")' = Got("R") /\ SentBy("R")' = Following("S", SentBy("R"))
          /\ Got("S")' = Got("S") /\ SentBy("S")' = SentBy("S") /\ Due("S", SentBy("R"))
      BY <1>11, <2>1, <3>2, ParamFacts DEF RecvVole, Got, SentBy, Following, Lesser, Due,
          Goto, senderVars, recverVars, maskVars, params
    <3>4. PICK s : s = SentBy("R")
      OBVIOUS
    <3>5. Body("S", s, b)'
      BY <1>11, <2>1, <3>1, <3>4 DEF RecvVole, SentBy, Body, HashingSeed, wr, ws
    <3> HIDE DEF IInv, TypeInv, PcInv, SpanInv
    <3>6. /\ inbox'["R"] = inbox["R"]
          /\ inbox'["S"] = Append(inbox["S"], <<"main", "wr", b>>)
      BY <3>2, <1>0, SentKinds
    <3>7. Grows("S") /\ Stays("R")
      BY <3>2, <3>3, <3>4, <3>5, <3>6 DEF Grows, Stays
    <3>8. QED
      BY <3>2, <3>7 DEF Kind, IInv, TypeInv, PcInv
  <2>2. CASE ~ mMalicious
    <3>1. UNCHANGED <<inbox, open, params>> /\ Got("S")' = Got("S") /\ Got("R")' = Got("R")
          /\ SentBy("S")' = SentBy("S") /\ SentBy("R")' = SentBy("R")
      BY <1>11, <2>2 DEF RecvVole, Got, SentBy, Goto, senderVars, recverVars, maskVars,
          params
    <3>2. QED
      BY <1>11, <2>2, <3>1 DEF RecvVole, Stays, Kind, Goto
  <2>3. QED
    BY <2>1, <2>2
<1>12. CASE MaskChunk
  BY <1>12, ChunkSent
<1>13. CASE SendingEnds
  <2>1. UNCHANGED <<inbox, open, params>> /\ Got("S")' = Got("S") /\ Got("R")' = Got("R")
        /\ SentBy("S")' = SentBy("S") /\ SentBy("R")' = SentBy("R")
    BY <1>13 DEF SendingEnds, Got, SentBy, Goto, senderVars, recverVars, maskVars, params
  <2>2. QED
    BY <1>13, <2>1 DEF SendingEnds, Stays, Kind, Goto
<1>14. CASE Decode
  <2>1. UNCHANGED <<inbox, open, params>> /\ Got("S")' = Got("S") /\ Got("R")' = Got("R")
        /\ SentBy("S")' = SentBy("S") /\ SentBy("R")' = SentBy("R")
    BY <1>14 DEF Decode, Got, SentBy, Goto, senderVars, recverVars, maskVars, params
  <2>2. QED
    BY <1>14, <2>1 DEF Decode, Stays, Kind, Goto
<1>15. CASE RecvWs
  <2>1. CASE H(Received("R")) = Hws
    <3>1. inbox' = Taken("R") /\ CanRecv("R", "main") /\ UNCHANGED <<params, open>>
          /\ pc' = [pc EXCEPT !["R"] = pc'["R"]] /\ pc["R"] # "failed"
      BY <1>15, <2>1 DEF RecvWs, Goto, CanRecv
    <3>2. Got("R")' = Following("R", Got("R")) /\ SentBy("R")' = SentBy("R")
          /\ Got("S")' = Got("S") /\ SentBy("S")' = SentBy("S")
      BY <1>15, <2>1, <3>1, ParamFacts DEF RecvWs, Got, SentBy, Following, Lesser, Goto,
          senderVars, recverVars, maskVars, params
    <3> HIDE DEF IInv, TypeInv, PcInv, SpanInv
    <3>3. inbox'["R"] = Tail(inbox["R"]) /\ inbox'["S"] = inbox["S"]
      BY <3>1, <1>0, SentKinds
    <3>4. Shrinks("R") /\ Stays("S")
      BY <3>1, <3>2, <3>3 DEF Shrinks, Stays
    <3>5. QED
      BY <3>1, <3>4 DEF Kind, IInv, TypeInv, PcInv
  <2>2. CASE H(Received("R")) # Hws
    <3>1. "R" \in open /\ Fail("R") /\ UNCHANGED <<params, recvPos>>
      BY <1>15, <2>2 DEF RecvWs, CanRecv, senderVars
    <3>2. QED
      BY <3>1, FailKind
  <2>3. QED
    BY <2>1, <2>2
<1>16. CASE \E X \in Sides : VoleSend(X)
  BY <1>16 DEF Voles
<1>17. CASE \E X \in Sides : VoleRecv(X)
  BY <1>17 DEF Voles
<1>18. CASE \E X \in Sides : RecvFails(X)
  <2> SUFFICES ASSUME NEW X \in Sides, RecvFails(X) PROVE Kind("S") /\ Kind("R")
    BY <1>18
  <2>1. X \in open /\ Fail(X) /\ UNCHANGED <<params, recvPos>>
    BY DEF RecvFails, params, senderVars
  <2>2. QED
    BY <2>1, FailKind
<1>19. CASE \E X \in Sides : SendFails(X)
  <2> SUFFICES ASSUME NEW X \in Sides, SendFails(X) PROVE Kind("S") /\ Kind("R")
    BY <1>19
  <2>1. X \in open /\ Fail(X) /\ UNCHANGED <<params, recvPos>>
    BY DEF SendFails, params, senderVars
  <2>2. QED
    BY <2>1, FailKind
<1>20. CASE SendHashes
  <2>1. PICK b : b = {Eval(v) : v \in theirs}
    OBVIOUS
  <2>2. inbox' = Sent("S", "hashes", b) /\ UNCHANGED <<params, open>> /\ "S" \in open
        /\ pc' = [pc EXCEPT !["S"] = pc'["S"]] /\ pc["S"] # "failed"
    BY <1>20, <2>1 DEF SendHashes, Goto, params
  <2>3. Got("S")' = Got("S") /\ SentBy("S")' = Following("R", SentBy("S"))
        /\ Got("R")' = Got("R") /\ SentBy("R")' = SentBy("R") /\ Due("R", SentBy("S"))
    BY <1>20, <2>2, ParamFacts DEF SendHashes, Got, SentBy, Following, Lesser, Due, Goto,
        senderVars, recverVars, maskVars, params
  <2>4. PICK s : s = SentBy("S")
    OBVIOUS
  <2>5. Body("R", s, b)'
    <3>1. s = 3
      BY <1>20, <2>4 DEF SendHashes, SentBy
    <3>2. Ready
      BY <1>20, ReadyAtEnd DEF SendHashes
    <3>3. UNCHANGED <<params, recvPos, mSeed, mB, mW, encoded, caller, theirs, m>>
      BY <1>20, ConstantStep DEF SendHashes, senderVars, recverVars
    <3>4. Ready' /\ \A v : Eval(v)' = Eval(v) /\ Programmed(v)' = Programmed(v)
      BY <3>2, <3>3, ReadyKept, EvalKept, ProgrammedKept
    <3>5. caller = "psi"
      BY <1>20 DEF SendHashes
    <3>6. QED
      BY <2>1, <3>1, <3>3, <3>4, <3>5 DEF Body
  <2> HIDE DEF IInv, TypeInv, PcInv, SpanInv
  <2>6. /\ inbox'["S"] = inbox["S"]
        /\ inbox'["R"] = Append(inbox["R"], <<"main", "hashes", b>>)
    BY <2>2, <1>0, SentKinds
  <2>7. Grows("R") /\ Stays("S")
    BY <2>2, <2>3, <2>4, <2>5, <2>6 DEF Grows, Stays
  <2>8. QED
    BY <2>2, <2>7 DEF Kind, IInv, TypeInv, PcInv
<1>21. CASE SenderSendingEnds
  <2>1. UNCHANGED <<inbox, open, params>> /\ Got("S")' = Got("S") /\ Got("R")' = Got("R")
        /\ SentBy("S")' = SentBy("S") /\ SentBy("R")' = SentBy("R")
    BY <1>21 DEF SenderSendingEnds, Got, SentBy, Goto, senderVars, recverVars, maskVars,
        params
  <2>2. QED
    BY <1>21, <2>1 DEF SenderSendingEnds, Stays, Kind, Goto
<1>22. CASE RecverGoesOn
  <2>1. UNCHANGED <<inbox, open, params>> /\ Got("S")' = Got("S") /\ Got("R")' = Got("R")
        /\ SentBy("S")' = SentBy("S") /\ SentBy("R")' = SentBy("R")
    BY <1>22 DEF RecverGoesOn, Got, SentBy, Goto, senderVars, recverVars, maskVars, params
  <2>2. QED
    BY <1>22, <2>1 DEF RecverGoesOn, Stays, Kind, Goto
<1>23. CASE RecvHashes
  <2>1. inbox' = Taken("R") /\ CanRecv("R", "main") /\ UNCHANGED <<params, open>>
        /\ pc' = [pc EXCEPT !["R"] = pc'["R"]] /\ pc["R"] # "failed"
    BY <1>23 DEF RecvHashes, Goto, CanRecv
  <2>2. Got("R")' = Following("R", Got("R")) /\ SentBy("R")' = SentBy("R")
        /\ Got("S")' = Got("S") /\ SentBy("S")' = SentBy("S")
    BY <1>23, <2>1, ParamFacts DEF RecvHashes, Got, SentBy, Following, Lesser, Goto,
        senderVars, recverVars, maskVars, params
  <2> HIDE DEF IInv, TypeInv, PcInv, SpanInv
  <2>3. inbox'["R"] = Tail(inbox["R"]) /\ inbox'["S"] = inbox["S"]
    BY <2>1, <1>0, SentKinds
  <2>4. Shrinks("R") /\ Stays("S")
    BY <2>1, <2>2, <2>3 DEF Shrinks, Stays
  <2>5. QED
    BY <2>1, <2>4 DEF Kind, IInv, TypeInv, PcInv
<1>24. CASE SendPSeed
  <2>1. PICK b : b = HashingSeed
    OBVIOUS
  <2>2. inbox' = Sent("S", "pseed", b) /\ UNCHANGED <<params, open>> /\ "S" \in open
        /\ pc' = [pc EXCEPT !["S"] = pc'["S"]] /\ pc["S"] # "failed"
    BY <1>24, <2>1 DEF SendPSeed, Goto, params
  <2>3. Got("S")' = Got("S") /\ SentBy("S")' = Following("R", SentBy("S"))
        /\ Got("R")' = Got("R") /\ SentBy("R")' = SentBy("R") /\ Due("R", SentBy("S"))
    BY <1>24, <2>2, ParamFacts DEF SendPSeed, Got, SentBy, Following, Lesser, Due, Goto,
        senderVars, recverVars, maskVars, params
  <2>4. PICK s : s = SentBy("S")
    OBVIOUS
  <2>5. Body("R", s, b)'
    BY <1>24, <2>1, <2>4 DEF SendPSeed, SentBy, Body, HashingSeed, wr, ws
  <2> HIDE DEF IInv, TypeInv, PcInv, SpanInv
  <2>6. /\ inbox'["S"] = inbox["S"]
        /\ inbox'["R"] = Append(inbox["R"], <<"main", "pseed", b>>)
    BY <2>2, <1>0, SentKinds
  <2>7. Grows("R") /\ Stays("S")
    BY <2>2, <2>3, <2>4, <2>5, <2>6 DEF Grows, Stays
  <2>8. QED
    BY <2>2, <2>7 DEF Kind, IInv, TypeInv, PcInv
<1>25. CASE RecvPSeed
  <2>1. inbox' = Taken("R") /\ CanRecv("R", "main") /\ UNCHANGED <<params, open>>
        /\ pc' = [pc EXCEPT !["R"] = pc'["R"]] /\ pc["R"] # "failed"
    BY <1>25 DEF RecvPSeed, Goto, CanRecv
  <2>2. Got("R")' = Following("R", Got("R")) /\ SentBy("R")' = SentBy("R")
        /\ Got("S")' = Got("S") /\ SentBy("S")' = SentBy("S")
    BY <1>25, <2>1, ParamFacts DEF RecvPSeed, Got, SentBy, Following, Lesser, Goto,
        senderVars, recverVars, maskVars, params
  <2> HIDE DEF IInv, TypeInv, PcInv, SpanInv
  <2>3. inbox'["R"] = Tail(inbox["R"]) /\ inbox'["S"] = inbox["S"]
    BY <2>1, <1>0, SentKinds
  <2>4. Shrinks("R") /\ Stays("S")
    BY <2>1, <2>2, <2>3 DEF Shrinks, Stays
  <2>5. QED
    BY <2>1, <2>4 DEF Kind, IInv, TypeInv, PcInv
<1>26. CASE SendP
  <2>1. PICK b : b = [v \in Items |-> Programmed(v)]
    OBVIOUS
  <2>2. inbox' = Sent("S", "okvs", b) /\ UNCHANGED <<params, open>> /\ "S" \in open
        /\ pc' = [pc EXCEPT !["S"] = pc'["S"]] /\ pc["S"] # "failed"
    BY <1>26, <2>1 DEF SendP, Goto, params
  <2>3. Got("S")' = Got("S") /\ SentBy("S")' = Following("R", SentBy("S"))
        /\ Got("R")' = Got("R") /\ SentBy("R")' = SentBy("R") /\ Due("R", SentBy("S"))
    BY <1>26, <2>2, ParamFacts DEF SendP, Got, SentBy, Following, Lesser, Due, Goto,
        senderVars, recverVars, maskVars, params
  <2>4. PICK s : s = SentBy("S")
    OBVIOUS
  <2>5. Body("R", s, b)'
    <3>1. s = 3
      BY <1>26, <2>4 DEF SendP, SentBy
    <3>2. Ready
      BY <1>26, ReadyAtEnd DEF SendP
    <3>3. UNCHANGED <<params, recvPos, mSeed, mB, mW, encoded, caller, theirs, m>>
      BY <1>26, ConstantStep DEF SendP, senderVars, recverVars
    <3>4. Ready' /\ \A v : Eval(v)' = Eval(v) /\ Programmed(v)' = Programmed(v)
      BY <3>2, <3>3, ReadyKept, EvalKept, ProgrammedKept
    <3>5. caller = "opprf"
      BY <1>26 DEF SendP
    <3>6. QED
      BY <2>1, <3>1, <3>3, <3>4, <3>5 DEF Body
  <2> HIDE DEF IInv, TypeInv, PcInv, SpanInv
  <2>6. /\ inbox'["S"] = inbox["S"]
        /\ inbox'["R"] = Append(inbox["R"], <<"main", "okvs", b>>)
    BY <2>2, <1>0, SentKinds
  <2>7. Grows("R") /\ Stays("S")
    BY <2>2, <2>3, <2>4, <2>5, <2>6 DEF Grows, Stays
  <2>8. QED
    BY <2>2, <2>7 DEF Kind, IInv, TypeInv, PcInv
<1>27. CASE SolveProgramThrows
  <2>1. "S" \in open /\ Fail("S") /\ UNCHANGED <<params, recvPos>>
    BY <1>27 DEF SolveProgramThrows, params, senderVars
  <2>2. QED
    BY <2>1, FailKind
<1>28. CASE RecvP
  <2>1. inbox' = Taken("R") /\ CanRecv("R", "main") /\ UNCHANGED <<params, open>>
        /\ pc' = [pc EXCEPT !["R"] = pc'["R"]] /\ pc["R"] # "failed"
    BY <1>28 DEF RecvP, Goto, CanRecv
  <2>2. Got("R")' = Following("R", Got("R")) /\ SentBy("R")' = SentBy("R")
        /\ Got("S")' = Got("S") /\ SentBy("S")' = SentBy("S")
    BY <1>28, <2>1, ParamFacts DEF RecvP, Got, SentBy, Following, Lesser, Goto, senderVars,
        recverVars, maskVars, params
  <2> HIDE DEF IInv, TypeInv, PcInv, SpanInv
  <2>3. inbox'["R"] = Tail(inbox["R"]) /\ inbox'["S"] = inbox["S"]
    BY <2>1, <1>0, SentKinds
  <2>4. Shrinks("R") /\ Stays("S")
    BY <2>1, <2>2, <2>3 DEF Shrinks, Stays
  <2>5. QED
    BY <2>1, <2>4 DEF Kind, IInv, TypeInv, PcInv
<1>29. CASE Expand
  <2>1. UNCHANGED <<inbox, open, params>> /\ Got("S")' = Got("S") /\ Got("R")' = Got("R")
        /\ SentBy("S")' = SentBy("S") /\ SentBy("R")' = SentBy("R")
    BY <1>29 DEF Expand, Got, SentBy, Goto, senderVars, recverVars, maskVars, params
  <2>2. QED
    BY <1>29, <2>1 DEF Expand, Stays, Kind, Goto
<1>30. CASE AddDecoded
  <2>1. UNCHANGED <<inbox, open, params>> /\ Got("S")' = Got("S") /\ Got("R")' = Got("R")
        /\ SentBy("S")' = SentBy("S") /\ SentBy("R")' = SentBy("R")
    BY <1>30 DEF AddDecoded, Got, SentBy, Goto, senderVars, recverVars, maskVars, params
  <2>2. QED
    BY <1>30, <2>1 DEF AddDecoded, Stays, Kind, Goto
<1>31. CASE \E X \in Sides : SendSize(X)
  <2> SUFFICES ASSUME NEW X \in Sides, SendSize(X) PROVE Kind("S") /\ Kind("R")
    BY <1>31
  <2>1. CASE X = "S"
    <3>1. PICK b : b = {<<"size", SizeOf(X)>>}
      OBVIOUS
    <3>2. inbox' = Sent("S", "size", b) /\ UNCHANGED <<params, open>> /\ "S" \in open
          /\ pc' = [pc EXCEPT !["S"] = pc'["S"]] /\ pc["S"] # "failed"
      BY <2>1, <3>1 DEF SendSize, Goto, params
    <3>3. Got("S")' = Got("S") /\ SentBy("S")' = Following("R", SentBy("S"))
          /\ Got("R")' = Got("R") /\ SentBy("R")' = SentBy("R") /\ Due("R", SentBy("S"))
      BY <2>1, <3>2, ParamFacts DEF SendSize, Got, SentBy, Following, Lesser, Due, Goto,
          senderVars, recverVars, maskVars, params
    <3>4. PICK s : s = SentBy("S")
      OBVIOUS
    <3>5. Body("R", s, b)'
      BY <3>4, <2>1 DEF SendSize, SentBy, Body
    <3> HIDE DEF IInv, TypeInv, PcInv, SpanInv
    <3>6. /\ inbox'["S"] = inbox["S"]
          /\ inbox'["R"] = Append(inbox["R"], <<"main", "size", b>>)
      BY <3>2, <1>0, SentKinds
    <3>7. Grows("R") /\ Stays("S")
      BY <3>2, <3>3, <3>4, <3>5, <3>6 DEF Grows, Stays
    <3>8. QED
      BY <3>2, <3>7 DEF Kind, IInv, TypeInv, PcInv
  <2>2. CASE X = "R"
    <3>1. PICK b : b = {<<"size", SizeOf(X)>>}
      OBVIOUS
    <3>2. inbox' = Sent("R", "size", b) /\ UNCHANGED <<params, open>> /\ "R" \in open
          /\ pc' = [pc EXCEPT !["R"] = pc'["R"]] /\ pc["R"] # "failed"
      BY <2>2, <3>1 DEF SendSize, Goto, params
    <3>3. Got("R")' = Got("R") /\ SentBy("R")' = Following("S", SentBy("R"))
          /\ Got("S")' = Got("S") /\ SentBy("S")' = SentBy("S") /\ Due("S", SentBy("R"))
      BY <2>2, <3>2, ParamFacts DEF SendSize, Got, SentBy, Following, Lesser, Due, Goto,
          senderVars, recverVars, maskVars, params
    <3>4. PICK s : s = SentBy("R")
      OBVIOUS
    <3>5. Body("S", s, b)'
      BY <3>4, <2>2 DEF SendSize, SentBy, Body
    <3> HIDE DEF IInv, TypeInv, PcInv, SpanInv
    <3>6. /\ inbox'["R"] = inbox["R"]
          /\ inbox'["S"] = Append(inbox["S"], <<"main", "size", b>>)
      BY <3>2, <1>0, SentKinds
    <3>7. Grows("S") /\ Stays("R")
      BY <3>2, <3>3, <3>4, <3>5, <3>6 DEF Grows, Stays
    <3>8. QED
      BY <3>2, <3>7 DEF Kind, IInv, TypeInv, PcInv
  <2>3. QED
    BY <2>1, <2>2, SidesFacts
<1>32. CASE \E X \in Sides : OwnSizeWrong(X)
  <2> SUFFICES ASSUME NEW X \in Sides, OwnSizeWrong(X) PROVE Kind("S") /\ Kind("R")
    BY <1>32
  <2>1. X \in open /\ Fail(X) /\ UNCHANGED <<params, recvPos>>
    BY DEF OwnSizeWrong, Checked, params, senderVars
  <2>2. QED
    BY <2>1, FailKind
<1>33. CASE \E X \in Sides : RecvSize(X)
  <2> SUFFICES ASSUME NEW X \in Sides, RecvSize(X) PROVE Kind("S") /\ Kind("R")
    BY <1>33
  <2>1. CASE X = "S"
    <3>1. inbox' = Taken("S") /\ CanRecv("S", "main") /\ UNCHANGED <<params, open>>
          /\ pc' = [pc EXCEPT !["S"] = pc'["S"]] /\ pc["S"] # "failed"
      BY <2>1 DEF RecvSize, Goto, CanRecv
    <3>2. Got("S")' = Following("S", Got("S")) /\ SentBy("S")' = SentBy("S")
          /\ Got("R")' = Got("R") /\ SentBy("R")' = SentBy("R")
      BY <2>1, <3>1, ParamFacts DEF RecvSize, Got, SentBy, Following, Lesser, Goto,
          senderVars, recverVars, maskVars, params
    <3> HIDE DEF IInv, TypeInv, PcInv, SpanInv
    <3>3. inbox'["S"] = Tail(inbox["S"]) /\ inbox'["R"] = inbox["R"]
      BY <3>1, <1>0, SentKinds
    <3>4. Shrinks("S") /\ Stays("R")
      BY <3>1, <3>2, <3>3 DEF Shrinks, Stays
    <3>5. QED
      BY <3>1, <3>4 DEF Kind, IInv, TypeInv, PcInv
  <2>2. CASE X = "R"
    <3>1. inbox' = Taken("R") /\ CanRecv("R", "main") /\ UNCHANGED <<params, open>>
          /\ pc' = [pc EXCEPT !["R"] = pc'["R"]] /\ pc["R"] # "failed"
      BY <2>2 DEF RecvSize, Goto, CanRecv
    <3>2. Got("R")' = Following("R", Got("R")) /\ SentBy("R")' = SentBy("R")
          /\ Got("S")' = Got("S") /\ SentBy("S")' = SentBy("S")
      BY <2>2, <3>1, ParamFacts DEF RecvSize, Got, SentBy, Following, Lesser, Goto,
          senderVars, recverVars, maskVars, params
    <3> HIDE DEF IInv, TypeInv, PcInv, SpanInv
    <3>3. inbox'["R"] = Tail(inbox["R"]) /\ inbox'["S"] = inbox["S"]
      BY <3>1, <1>0, SentKinds
    <3>4. Shrinks("R") /\ Stays("S")
      BY <3>1, <3>2, <3>3 DEF Shrinks, Stays
    <3>5. QED
      BY <3>1, <3>4 DEF Kind, IInv, TypeInv, PcInv
  <2>3. QED
    BY <2>1, <2>2, SidesFacts
<1>34. CASE \E X \in Sides : PeerSizeWrong(X)
  <2> SUFFICES ASSUME NEW X \in Sides, PeerSizeWrong(X) PROVE Kind("S") /\ Kind("R")
    BY <1>34
  <2>1. X \in open /\ Fail(X) /\ UNCHANGED <<params, recvPos>>
    BY DEF PeerSizeWrong, params, senderVars
  <2>2. QED
    BY <2>1, FailKind
<1>35. CASE \E X \in Sides : Closes(X)
  <2> SUFFICES ASSUME NEW X \in Sides, Closes(X) PROVE Kind("S") /\ Kind("R")
    BY <1>35
  <2>1. UNCHANGED <<pc, params, recvPos, cBegin>> /\ X \notin open' /\ open' \subseteq open
    BY DEF Closes, Breaks, senderVars, recverVars, maskVars
  <2>2. Got("S")' = Got("S") /\ Got("R")' = Got("R")
        /\ SentBy("S")' = SentBy("S") /\ SentBy("R")' = SentBy("R")
    BY <2>1 DEF Got, SentBy, params
  <2>3. inbox'[X] = inbox[X]
    BY DEF Closes, Breaks, InboxInv
  <2>4. Stays(X)
    BY <2>1, <2>2, <2>3 DEF Stays
  <2>5. CASE inbox[X] = << >>
    <3>1. Stays(Peer(X))
      BY <2>1, <2>2, <2>5 DEF Stays, Closes
    <3>2. QED
      BY <2>1, <2>4, <3>1 DEF Kind
  <2>6. CASE inbox[X] # << >>
    <3>1. Breaks(X)
      BY <2>6 DEF Closes
    <3>2. IsCut(Peer(X))
      BY <2>1, <3>1, BreaksKind
    <3>3. QED
      BY <2>1, <2>4, <3>2 DEF Kind
  <2>7. QED
    BY <2>5, <2>6
<1>36. CASE \E X \in Sides : Dies(X)
  <2> SUFFICES ASSUME NEW X \in Sides, Dies(X) PROVE Kind("S") /\ Kind("R")
    BY <1>36
  <2>1. X \in open /\ Fail(X) /\ UNCHANGED <<params, recvPos>>
    BY DEF Dies, params, senderVars
  <2>2. QED
    BY <2>1, FailKind
<1>37. QED
  BY <1>1, <1>2, <1>3, <1>4, <1>5, <1>6, <1>7, <1>8, <1>9, <1>10, <1>11, <1>12, <1>13,
      <1>14, <1>15, <1>16, <1>17, <1>18, <1>19, <1>20, <1>21, <1>22, <1>23, <1>24, <1>25,
      <1>26, <1>27, <1>28, <1>29, <1>30, <1>31, <1>32, <1>33, <1>34, <1>35, <1>36 DEF Next,
      Progress, OprfStep, CallerStep
\* Only the VOLE's own steps move on in its script.
LEMMA VoleKinds ==
  ASSUME TypeInv, Next, ~ Voles
  PROVE  VoleKind
<1> USE SidesFacts DEF TypeInv, PcInv, CursorInv, VoleKind
<1>1. CASE SendInit
  BY <1>1 DEF SendInit, Fail
<1>2. CASE RecvSeed
  BY <1>2 DEF RecvSeed, Fail
<1>3. CASE SendVole
  BY <1>3 DEF SendVole, Fail
<1>4. CASE RecvW
  BY <1>4 DEF RecvW, Fail
<1>5. CASE RecvChunk
  BY <1>5 DEF RecvChunk, Fail
<1>6. CASE RecvInit
  <2>1. vole["R"] = 0 /\ (UNCHANGED vole \/ vole' = [vole EXCEPT !["R"] = 1])
    BY <1>6 DEF RecvInit
  <2>2. QED
    BY <2>1
<1>7. CASE RecvHws
  BY <1>7 DEF RecvHws, Fail
<1>8. CASE Solve
  BY <1>8 DEF Solve, Fail
<1>9. CASE EncodeFails
  BY <1>9 DEF EncodeFails, Fail
<1>10. CASE SolveThrows
  BY <1>10 DEF SolveThrows, Fail
<1>11. CASE RecvVole
  BY <1>11 DEF RecvVole, Fail
<1>12. CASE MaskChunk
  BY <1>12 DEF MaskChunk, Fail
<1>13. CASE SendingEnds
  BY <1>13 DEF SendingEnds, Fail
<1>14. CASE Decode
  BY <1>14 DEF Decode, Fail
<1>15. CASE RecvWs
  BY <1>15 DEF RecvWs, Fail
<1>16. CASE \E X \in Sides : VoleSend(X)
  BY <1>16 DEF Voles
<1>17. CASE \E X \in Sides : VoleRecv(X)
  BY <1>17 DEF Voles
<1>18. CASE \E X \in Sides : RecvFails(X)
  BY <1>18 DEF RecvFails, Fail
<1>19. CASE \E X \in Sides : SendFails(X)
  BY <1>19 DEF SendFails, Fail
<1>20. CASE SendHashes
  BY <1>20 DEF SendHashes, Fail
<1>21. CASE SenderSendingEnds
  BY <1>21 DEF SenderSendingEnds, Fail
<1>22. CASE RecverGoesOn
  BY <1>22 DEF RecverGoesOn, Fail
<1>23. CASE RecvHashes
  BY <1>23 DEF RecvHashes, Fail
<1>24. CASE SendPSeed
  BY <1>24 DEF SendPSeed, Fail
<1>25. CASE RecvPSeed
  BY <1>25 DEF RecvPSeed, Fail
<1>26. CASE SendP
  BY <1>26 DEF SendP, Fail
<1>27. CASE SolveProgramThrows
  BY <1>27 DEF SolveProgramThrows, Fail
<1>28. CASE RecvP
  BY <1>28 DEF RecvP, Fail
<1>29. CASE Expand
  BY <1>29 DEF Expand, Fail
<1>30. CASE AddDecoded
  BY <1>30 DEF AddDecoded, Fail
<1>31. CASE \E X \in Sides : SendSize(X)
  BY <1>31 DEF SendSize, Fail
<1>32. CASE \E X \in Sides : OwnSizeWrong(X)
  BY <1>32 DEF OwnSizeWrong, Checked, Fail
<1>33. CASE \E X \in Sides : RecvSize(X)
  BY <1>33 DEF RecvSize, Fail
<1>34. CASE \E X \in Sides : PeerSizeWrong(X)
  BY <1>34 DEF PeerSizeWrong, Fail
<1>35. CASE \E X \in Sides : Closes(X)
  BY <1>35 DEF Closes, Fail
<1>36. CASE \E X \in Sides : Dies(X)
  BY <1>36 DEF Dies, Fail
<1>37. QED
  BY <1>1, <1>2, <1>3, <1>4, <1>5, <1>6, <1>7, <1>8, <1>9, <1>10, <1>11, <1>12, <1>13,
      <1>14, <1>15, <1>16, <1>17, <1>18, <1>19, <1>20, <1>21, <1>22, <1>23, <1>24, <1>25,
      <1>26, <1>27, <1>28, <1>29, <1>30, <1>31, <1>32, <1>33, <1>34, <1>35, <1>36 DEF Next,
      Progress, OprfStep, CallerStep

\* Once the sender has all chunks, what it evaluates with does not change.
LEMMA PlaceKept ==
  ASSUME TypeInv, SenderInv, Next, Ready
  PROVE  UNCHANGED <<recvPos, mSeed, mB, mW, encoded>>
<1>0. pc["S"] \notin {"seed", "vole", "recvW", "chunks"} /\ pc["R"] # "solve"
  BY ParamFacts DEF TypeInv, SpanInv, Ready, SenderInv
<1>1. CASE SendInit
  BY <1>1, <1>0 DEF SendInit, senderVars, recverVars
<1>2. CASE RecvSeed
  BY <1>2, <1>0 DEF RecvSeed, senderVars, recverVars
<1>3. CASE SendVole
  BY <1>3, <1>0 DEF SendVole, senderVars, recverVars
<1>4. CASE RecvW
  BY <1>4, <1>0 DEF RecvW, senderVars, recverVars
<1>5. CASE RecvChunk
  BY <1>5, <1>0 DEF RecvChunk, senderVars, recverVars
<1>6. CASE RecvInit
  BY <1>6, <1>0 DEF RecvInit, senderVars, recverVars
<1>7. CASE RecvHws
  BY <1>7, <1>0 DEF RecvHws, senderVars, recverVars
<1>8. CASE Solve
  BY <1>8, <1>0 DEF Solve, senderVars, recverVars
<1>9. CASE EncodeFails
  BY <1>9, <1>0 DEF EncodeFails, senderVars, recverVars
<1>10. CASE SolveThrows
  BY <1>10, <1>0 DEF SolveThrows, senderVars, recverVars
<1>11. CASE RecvVole
  BY <1>11, <1>0 DEF RecvVole, senderVars, recverVars
<1>12. CASE MaskChunk
  BY <1>12, <1>0 DEF MaskChunk, senderVars, recverVars
<1>13. CASE SendingEnds
  BY <1>13, <1>0 DEF SendingEnds, senderVars, recverVars
<1>14. CASE Decode
  BY <1>14, <1>0 DEF Decode, senderVars, recverVars
<1>15. CASE RecvWs
  BY <1>15, <1>0 DEF RecvWs, senderVars, recverVars
<1>16. CASE \E X \in Sides : VoleSend(X)
  BY <1>16, <1>0 DEF VoleSend, senderVars, recverVars
<1>17. CASE \E X \in Sides : VoleRecv(X)
  BY <1>17, <1>0 DEF VoleRecv, senderVars, recverVars
<1>18. CASE \E X \in Sides : RecvFails(X)
  BY <1>18, <1>0 DEF RecvFails, senderVars, recverVars
<1>19. CASE \E X \in Sides : SendFails(X)
  BY <1>19, <1>0 DEF SendFails, senderVars, recverVars
<1>20. CASE SendHashes
  BY <1>20, <1>0 DEF SendHashes, senderVars, recverVars
<1>21. CASE SenderSendingEnds
  BY <1>21, <1>0 DEF SenderSendingEnds, senderVars, recverVars
<1>22. CASE RecverGoesOn
  BY <1>22, <1>0 DEF RecverGoesOn, senderVars, recverVars
<1>23. CASE RecvHashes
  BY <1>23, <1>0 DEF RecvHashes, senderVars, recverVars
<1>24. CASE SendPSeed
  BY <1>24, <1>0 DEF SendPSeed, senderVars, recverVars
<1>25. CASE RecvPSeed
  BY <1>25, <1>0 DEF RecvPSeed, senderVars, recverVars
<1>26. CASE SendP
  BY <1>26, <1>0 DEF SendP, senderVars, recverVars
<1>27. CASE SolveProgramThrows
  BY <1>27, <1>0 DEF SolveProgramThrows, senderVars, recverVars
<1>28. CASE RecvP
  BY <1>28, <1>0 DEF RecvP, senderVars, recverVars
<1>29. CASE Expand
  BY <1>29, <1>0 DEF Expand, senderVars, recverVars
<1>30. CASE AddDecoded
  BY <1>30, <1>0 DEF AddDecoded, senderVars, recverVars
<1>31. CASE \E X \in Sides : SendSize(X)
  BY <1>31, <1>0 DEF SendSize, senderVars, recverVars
<1>32. CASE \E X \in Sides : OwnSizeWrong(X)
  BY <1>32, <1>0 DEF OwnSizeWrong, Checked, senderVars, recverVars
<1>33. CASE \E X \in Sides : RecvSize(X)
  BY <1>33, <1>0 DEF RecvSize, senderVars, recverVars
<1>34. CASE \E X \in Sides : PeerSizeWrong(X)
  BY <1>34, <1>0 DEF PeerSizeWrong, senderVars, recverVars
<1>35. CASE \E X \in Sides : Closes(X)
  BY <1>35, <1>0 DEF Closes, senderVars, recverVars
<1>36. CASE \E X \in Sides : Dies(X)
  BY <1>36, <1>0 DEF Dies, senderVars, recverVars
<1>37. QED
  BY <1>1, <1>2, <1>3, <1>4, <1>5, <1>6, <1>7, <1>8, <1>9, <1>10, <1>11, <1>12, <1>13,
      <1>14, <1>15, <1>16, <1>17, <1>18, <1>19, <1>20, <1>21, <1>22, <1>23, <1>24, <1>25,
      <1>26, <1>27, <1>28, <1>29, <1>30, <1>31, <1>32, <1>33, <1>34, <1>35, <1>36 DEF Next,
      Progress, OprfStep, CallerStep

\* The receiver's place only grows, and its encoding is there once it is above zero.
LEMMA CutBegins ==
  ASSUME TypeInv, Next
  PROVE  cBegin' >= cBegin /\ (cBegin > 0 => UNCHANGED encoded)
<1>0. cBegin \in Nat /\ (pc["R"] = "solve" => cBegin = 0)
  BY ParamFacts DEF TypeInv, SpanInv
<1>1. CASE SendInit
  BY <1>1, <1>0 DEF SendInit, senderVars, recverVars, maskVars
<1>2. CASE RecvSeed
  BY <1>2, <1>0 DEF RecvSeed, senderVars, recverVars, maskVars
<1>3. CASE SendVole
  BY <1>3, <1>0 DEF SendVole, senderVars, recverVars, maskVars
<1>4. CASE RecvW
  BY <1>4, <1>0 DEF RecvW, senderVars, recverVars, maskVars
<1>5. CASE RecvChunk
  BY <1>5, <1>0 DEF RecvChunk, senderVars, recverVars, maskVars
<1>6. CASE RecvInit
  BY <1>6, <1>0 DEF RecvInit, senderVars, recverVars, maskVars
<1>7. CASE RecvHws
  BY <1>7, <1>0 DEF RecvHws, senderVars, recverVars, maskVars
<1>8. CASE Solve
  BY <1>8, <1>0 DEF Solve, senderVars, recverVars, maskVars
<1>9. CASE EncodeFails
  BY <1>9, <1>0 DEF EncodeFails, senderVars, recverVars, maskVars
<1>10. CASE SolveThrows
  BY <1>10, <1>0 DEF SolveThrows, senderVars, recverVars, maskVars
<1>11. CASE RecvVole
  BY <1>11, <1>0 DEF RecvVole, senderVars, recverVars, maskVars
<1>12. CASE MaskChunk
  <2>1. cBegin < size /\ cBegin' = cBegin + Lesser(pSize, Chunk) /\ UNCHANGED encoded
    BY <1>12 DEF MaskChunk
  <2>2. Lesser(pSize, Chunk) \in Nat
    BY ParamFacts DEF Lesser, TypeInv, SpanInv
  <2>3. QED
    BY <1>0, <2>1, <2>2
<1>13. CASE SendingEnds
  BY <1>13, <1>0 DEF SendingEnds, senderVars, recverVars, maskVars
<1>14. CASE Decode
  BY <1>14, <1>0 DEF Decode, senderVars, recverVars, maskVars
<1>15. CASE RecvWs
  BY <1>15, <1>0 DEF RecvWs, senderVars, recverVars, maskVars
<1>16. CASE \E X \in Sides : VoleSend(X)
  BY <1>16, <1>0 DEF VoleSend, senderVars, recverVars, maskVars
<1>17. CASE \E X \in Sides : VoleRecv(X)
  BY <1>17, <1>0 DEF VoleRecv, senderVars, recverVars, maskVars
<1>18. CASE \E X \in Sides : RecvFails(X)
  BY <1>18, <1>0 DEF RecvFails, senderVars, recverVars, maskVars
<1>19. CASE \E X \in Sides : SendFails(X)
  BY <1>19, <1>0 DEF SendFails, senderVars, recverVars, maskVars
<1>20. CASE SendHashes
  BY <1>20, <1>0 DEF SendHashes, senderVars, recverVars, maskVars
<1>21. CASE SenderSendingEnds
  BY <1>21, <1>0 DEF SenderSendingEnds, senderVars, recverVars, maskVars
<1>22. CASE RecverGoesOn
  BY <1>22, <1>0 DEF RecverGoesOn, senderVars, recverVars, maskVars
<1>23. CASE RecvHashes
  BY <1>23, <1>0 DEF RecvHashes, senderVars, recverVars, maskVars
<1>24. CASE SendPSeed
  BY <1>24, <1>0 DEF SendPSeed, senderVars, recverVars, maskVars
<1>25. CASE RecvPSeed
  BY <1>25, <1>0 DEF RecvPSeed, senderVars, recverVars, maskVars
<1>26. CASE SendP
  BY <1>26, <1>0 DEF SendP, senderVars, recverVars, maskVars
<1>27. CASE SolveProgramThrows
  BY <1>27, <1>0 DEF SolveProgramThrows, senderVars, recverVars, maskVars
<1>28. CASE RecvP
  BY <1>28, <1>0 DEF RecvP, senderVars, recverVars, maskVars
<1>29. CASE Expand
  BY <1>29, <1>0 DEF Expand, senderVars, recverVars, maskVars
<1>30. CASE AddDecoded
  BY <1>30, <1>0 DEF AddDecoded, senderVars, recverVars, maskVars
<1>31. CASE \E X \in Sides : SendSize(X)
  BY <1>31, <1>0 DEF SendSize, senderVars, recverVars, maskVars
<1>32. CASE \E X \in Sides : OwnSizeWrong(X)
  BY <1>32, <1>0 DEF OwnSizeWrong, Checked, senderVars, recverVars, maskVars
<1>33. CASE \E X \in Sides : RecvSize(X)
  BY <1>33, <1>0 DEF RecvSize, senderVars, recverVars, maskVars
<1>34. CASE \E X \in Sides : PeerSizeWrong(X)
  BY <1>34, <1>0 DEF PeerSizeWrong, senderVars, recverVars, maskVars
<1>35. CASE \E X \in Sides : Closes(X)
  BY <1>35, <1>0 DEF Closes, senderVars, recverVars, maskVars
<1>36. CASE \E X \in Sides : Dies(X)
  BY <1>36, <1>0 DEF Dies, senderVars, recverVars, maskVars
<1>37. QED
  BY <1>1, <1>2, <1>3, <1>4, <1>5, <1>6, <1>7, <1>8, <1>9, <1>10, <1>11, <1>12, <1>13,
      <1>14, <1>15, <1>16, <1>17, <1>18, <1>19, <1>20, <1>21, <1>22, <1>23, <1>24, <1>25,
      <1>26, <1>27, <1>28, <1>29, <1>30, <1>31, <1>32, <1>33, <1>34, <1>35, <1>36 DEF Next,
      Progress, OprfStep, CallerStep

\* What a message says stays true.
LEMMA BodyStable ==
  ASSUME TypeInv, SenderInv, Next, NEW X \in Sides, NEW s \in Nat, Due(X, s), NEW b,
         Body(X, s, b)
  PROVE  Body(X, s, b)'
<1>1. UNCHANGED <<params, caller, theirs, m>> /\ FewChunks' = FewChunks /\ Cols' = Cols
  BY ConstantStep DEF params, FewChunks, Cols
<1>2. CASE X = "S" /\ s >= 3
  <2> DEFINE l == Lesser(size - (s - 3), Chunk)
  <2>1. size \in Nat /\ Chunk \in Nat \ {0} /\ cBegin \in Nat /\ s - 3 \in Nat /\ s < 3 + size
    BY <1>2, ParamFacts DEF TypeInv, SpanInv, Due
  <2>2. l \in Nat \ {0} /\ l <= size - (s - 3)
    BY <2>1 DEF Lesser
  <2>3. s - 3 + l <= cBegin /\ s # 1 /\ s # 2
    BY <1>2 DEF Body
  <2>4. cBegin > 0 /\ cBegin' >= cBegin /\ UNCHANGED encoded /\ cBegin' \in Int
    <3> HIDE DEF l
    <3>1. cBegin > 0
      BY <2>1, <2>2, <2>3
    <3>2. cBegin' \in Int
      BY SpanStep, <1>1 DEF TypeInv, SpanInv
    <3>3. QED
      BY <3>1, <3>2, CutBegins
  <2>5. l' = l
    BY <1>1 DEF params, Lesser
  <2>6. \A i \in 0 .. l - 1 : s - 3 + i \in Cols
    <3> HIDE DEF l
    <3>1. QED
      BY <2>1, <2>2 DEF Cols
  <2>7. \A i \in 0 .. l - 1 : Enc(s - 3 + i)' = Enc(s - 3 + i)
    <3> HIDE DEF l
    <3>1. \A j \in Cols : Enc(j)' = Enc(j)
      BY <1>1, <2>4, EncKept
    <3>2. QED
      BY <2>6, <3>1
  <2>8. FewChunks => b = [i \in 0 .. l - 1 |-> XOR(Enc(s - 3 + i), c(s - 3 + i))]
    BY <1>2 DEF Body
  <2>9. FewChunks => b = [i \in 0 .. l - 1 |-> XOR(Enc(s - 3 + i)', c(s - 3 + i))]
    <3> HIDE DEF l
    <3>1. QED
      BY <2>7, <2>8
  <2>10. s - 3 + l <= cBegin'
    <3> HIDE DEF l
    <3>1. QED
      BY <2>1, <2>2, <2>3, <2>4
  <2>11. QED
    BY <1>1, <1>2, <2>3, <2>5, <2>9, <2>10 DEF Body, XOR, c
<1>3. CASE X = "S" /\ ~ (s >= 3)
  BY <1>3 DEF Body, HashingSeed, wr
<1>4. CASE X = "R" /\ s = 3
  <2>1. Ready
    BY <1>4 DEF Body
  <2>2. UNCHANGED <<recvPos, mSeed, mB, mW, encoded>>
    BY <2>1, PlaceKept
  <2>3. Ready' /\ \A v : Eval(v)' = Eval(v) /\ Programmed(v)' = Programmed(v)
    BY <1>1, <2>1, <2>2, ReadyKept, EvalKept, ProgrammedKept
  <2>4. QED
    BY <1>1, <1>4, <2>3 DEF Body
<1>5. CASE X = "R" /\ s # 3
  BY <1>5 DEF Body, ws
<1>6. QED
  BY <1>2, <1>3, <1>4, <1>5 DEF Sides

-----------------------------------------------------------------------------
(* The numbers of the messages on their way. *)

\* The same numbers after a step that adds a message, takes one, or cuts the queue.
LEMMA Extended ==
  ASSUME NEW X \in Sides, NEW q, IsSeq(q), NEW f, IsTrail(X, q, f), NEW e, NEW y \in Nat,
         \/ e[1] = "main" /\ Due(X, f[Len(q)]) /\ y = Following(X, f[Len(q)])
         \/ e[1] = "vole" /\ y = f[Len(q)]
  PROVE  \E f2 : /\ IsTrail(X, Append(q, e), f2)
                 /\ f2[Len(q) + 1] = y /\ \A k \in 0 .. Len(q) : f2[k] = f[k]
<1> DEFINE N == Len(q)
           f2 == [k \in 0 .. N + 1 |-> IF k = N + 1 THEN y ELSE f[k]]
           r == Append(q, e)
<1>1. N \in Nat /\ Len(r) = N + 1 /\ r[N + 1] = e /\ \A k \in 1 .. N : r[k] = q[k]
  BY SequenceFacts
<1>2. f \in [0 .. N -> Nat]
  BY DEF IsTrail
<1> HIDE DEF N, r
<1>3. f2 \in [0 .. N + 1 -> Nat] /\ f2[N + 1] = y /\ \A k \in 0 .. N : f2[k] = f[k]
  BY <1>1, <1>2
<1> HIDE DEF f2
<1>4. ASSUME NEW k \in 1 .. N + 1
      PROVE  \/ r[k][1] = "main" /\ Due(X, f2[k - 1]) /\ f2[k] = Following(X, f2[k - 1])
             \/ r[k][1] = "vole" /\ f2[k] = f2[k - 1]
  <2>1. CASE k = N + 1
    BY <1>1, <1>3, <2>1 DEF N
  <2>2. CASE k \in 1 .. N
    <3>1. r[k] = q[k] /\ f2[k] = f[k] /\ f2[k - 1] = f[k - 1]
      BY <1>1, <1>3, <2>2
    <3>2. QED
      BY <2>2, <3>1 DEF IsTrail, N
  <2>3. QED
    BY <1>1, <2>1, <2>2
<1>5. IsTrail(X, r, f2)
  BY <1>1, <1>3, <1>4 DEF IsTrail
<1>6. QED
  BY <1>3, <1>5 DEF N, r

\* The trail of a queue whose head was taken starts with the next number.
LEMMA Shifted ==
  ASSUME NEW X \in Sides, NEW q, IsSeq(q), q # << >>, NEW f, IsTrail(X, q, f)
  PROVE  \E f2 : /\ IsTrail(X, Tail(q), f2)
                 /\ \A k \in 0 .. Len(q) - 1 : f2[k] = f[k + 1]
<1> DEFINE N == Len(q)
           f2 == [k \in 0 .. N - 1 |-> f[k + 1]]
           r == Tail(q)
<1>1. N \in Nat /\ N > 0 /\ Len(r) = N - 1 /\ \A k \in 1 .. N - 1 : r[k] = q[k + 1]
  BY SequenceFacts
<1>2. f \in [0 .. N -> Nat]
  BY DEF IsTrail
<1> HIDE DEF N, r
<1>3. f2 \in [0 .. N - 1 -> Nat] /\ \A k \in 0 .. N - 1 : f2[k] = f[k + 1]
  BY <1>1, <1>2
<1> HIDE DEF f2
<1>4. ASSUME NEW k \in 1 .. N - 1
      PROVE  \/ r[k][1] = "main" /\ Due(X, f2[k - 1]) /\ f2[k] = Following(X, f2[k - 1])
             \/ r[k][1] = "vole" /\ f2[k] = f2[k - 1]
  <2>1. r[k] = q[k + 1] /\ f2[k] = f[k + 1] /\ f2[k - 1] = f[k]
    BY <1>1, <1>3
  <2>2. k + 1 \in 1 .. N /\ k + 1 - 1 = k
    BY <1>1
  <2>3. QED
    BY <2>1, <2>2 DEF IsTrail, N
<1>5. IsTrail(X, r, f2)
  BY <1>1, <1>3, <1>4 DEF IsTrail
<1>6. QED
  BY <1>3, <1>5 DEF N, r

\* The trail of a queue that was cut is the beginning of its trail.
LEMMA Shortened ==
  ASSUME NEW X \in Sides, NEW q, IsSeq(q), NEW f, IsTrail(X, q, f), NEW l \in 0 .. Len(q)
  PROVE  \E f2 : /\ IsTrail(X, SubSeq(q, 1, l), f2)
                 /\ \A k \in 0 .. l : f2[k] = f[k]
<1> DEFINE f2 == [k \in 0 .. l |-> f[k]]
           r == SubSeq(q, 1, l)
<1>1. Len(q) \in Nat /\ l \in Nat /\ l <= Len(q) /\ Len(r) = l /\ \A k \in 1 .. l : r[k] = q[k]
  BY SequenceFacts
<1>2. f \in [0 .. Len(q) -> Nat]
  BY DEF IsTrail
<1> HIDE DEF r
<1>3. f2 \in [0 .. l -> Nat] /\ \A k \in 0 .. l : f2[k] = f[k]
  BY <1>1, <1>2
<1> HIDE DEF f2
<1>4. ASSUME NEW k \in 1 .. l
      PROVE  \/ r[k][1] = "main" /\ Due(X, f2[k - 1]) /\ f2[k] = Following(X, f2[k - 1])
             \/ r[k][1] = "vole" /\ f2[k] = f2[k - 1]
  <2>1. r[k] = q[k] /\ f2[k] = f[k] /\ f2[k - 1] = f[k - 1] /\ k \in 1 .. Len(q)
    BY <1>1, <1>3
  <2>2. QED
    BY <2>1 DEF IsTrail
<1>5. IsTrail(X, r, f2)
  BY <1>1, <1>3, <1>4 DEF IsTrail
<1>6. QED
  BY <1>3, <1>5 DEF r

\* Numbers and contents in the next state.
LEMMA TrailKept ==
  ASSUME TypeInv, SenderInv, Next, NEW X \in Sides, NEW q, NEW f
  PROVE  /\ IsTrail(X, q, f) => IsTrail(X, q, f)'
         /\ IsTrail(X, q, f) /\ Contents(X, q, f) => Contents(X, q, f)'
<1>1. UNCHANGED params
  BY ConstantStep
<1>2. IsTrail(X, q, f) => IsTrail(X, q, f)'
  BY <1>1 DEF IsTrail, Due, Following, Lesser, params
<1>3. ASSUME IsTrail(X, q, f), Contents(X, q, f) PROVE Contents(X, q, f)'
  <2> SUFFICES ASSUME NEW k \in 1 .. Len(q), q[k][1] = "main"
               PROVE  Body(X, f[k - 1], q[k][3])'
    BY DEF Contents
  <2>1. Body(X, f[k - 1], q[k][3]) /\ Due(X, f[k - 1])
    BY <1>3 DEF Contents, IsTrail
  <2>2. f[k - 1] \in Nat
    BY <2>1, NumberFacts
  <2>3. QED
    BY <2>1, <2>2, BodyStable
<1>4. QED
  BY <1>2, <1>3

\* The messages on their way to a side keep their numbers and what they say: a step adds
\* the next one at the end, takes the first, or cuts the queue.
LEMMA QueueStep ==
  ASSUME IInv, Next, TypeInv'
  PROVE  QueueInv'
<1> SUFFICES ASSUME NEW Z \in Sides, pc'[Z] # "failed" PROVE \E f : Trails(Z, f)'
  BY DEF QueueInv
<1>0. PICK q : q = inbox[Z]
  OBVIOUS
<1> DEFINE N == Len(q)
<1>1. TypeInv /\ SenderInv /\ IsSeq(q) /\ N \in Nat /\ Peer(Z) \in Sides
  BY <1>0, SequenceFacts, SidesFacts DEF IInv, TypeInv, InboxInv
<1>2. CASE ~ Voles
  <2>1. pc[Z] # "failed" /\ (Stays(Z) \/ Grows(Z) \/ Shrinks(Z) \/ IsCut(Z))
    BY <1>2, Kinds, SidesFacts DEF Kind
  <2>2. PICK f : Trails(Z, f)
    BY <2>1 DEF IInv, QueueInv
  <2>3. IsTrail(Z, q, f) /\ Contents(Z, q, f) /\ f[0] = Got(Z)
        /\ (Peer(Z) \in open => f[N] = SentBy(Peer(Z)))
    BY <1>0, <2>2 DEF Trails
  <2>4. CASE Stays(Z)
    <3>1. IsTrail(Z, inbox[Z], f)' /\ Contents(Z, inbox[Z], f)'
      <4>1. IsTrail(Z, q, f)' /\ Contents(Z, q, f)'
        BY <1>1, <2>3, TrailKept
      <4>2. inbox'[Z] = q
        BY <1>0, <2>4 DEF Stays
      <4>3. QED
        BY <4>1, <4>2 DEF IsTrail, Contents
    <3>2. QED
      BY <1>0, <2>3, <2>4, <3>1 DEF Trails, Stays
  <2>5. CASE Grows(Z)
    <3>1. PICK s, kind, b : /\ s = SentBy(Peer(Z))
                            /\ inbox'[Z] = Append(inbox[Z], <<"main", kind, b>>)
                            /\ Body(Z, s, b)'
      BY <2>5 DEF Grows
    <3>2. /\ f[N] = s /\ Due(Z, s) /\ SentBy(Peer(Z))' = Following(Z, s)
          /\ Got(Z)' = Got(Z)
      BY <2>3, <2>5, <3>1 DEF Grows
    <3>3. Following(Z, s) \in Nat
      BY <1>1, <3>2, NumberFacts
    <3>4. PICK r : r = Append(q, <<"main", kind, b>>)
      OBVIOUS
    <3>5. PICK f2 : /\ IsTrail(Z, r, f2) /\ f2[N + 1] = Following(Z, s)
                    /\ \A k \in 0 .. N : f2[k] = f[k]
      <4>1. <<"main", kind, b>>[1] = "main"
        OBVIOUS
      <4>2. QED
        BY <1>1, <2>3, <3>2, <3>3, <3>4, <4>1, Extended
    <3>6. Len(r) = N + 1 /\ r[N + 1] = <<"main", kind, b>> /\ \A k \in 1 .. N : r[k] = q[k]
      BY <1>1, <3>4, SequenceFacts
    <3>7. IsTrail(Z, r, f2)'
      BY <1>1, <3>5, TrailKept
    <3>8. \A k \in 1 .. N : q[k][1] = "main" => Body(Z, f[k - 1], q[k][3])'
      <4>1. Contents(Z, q, f)'
        BY <1>1, <2>3, TrailKept
      <4>2. QED
        BY <4>1 DEF Contents
    <3>9. Contents(Z, r, f2)'
      <4> SUFFICES ASSUME NEW k \in 1 .. Len(r), r[k][1] = "main"
                   PROVE  Body(Z, f2[k - 1], r[k][3])'
        BY DEF Contents
      <4> HIDE DEF N
      <4>1. CASE k = N + 1
        <5>1. f2[k - 1] = s /\ r[k][3] = b
          BY <1>1, <3>2, <3>5, <3>6, <4>1
        <5>2. QED
          BY <3>1, <5>1
      <4>2. CASE k \in 1 .. N
        <5>1. f2[k - 1] = f[k - 1] /\ r[k] = q[k]
          BY <1>1, <3>5, <3>6, <4>2
        <5>2. QED
          BY <2>3, <3>8, <4>2, <5>1
      <4>3. QED
        BY <1>1, <3>6, <4>1, <4>2
    <3>10. inbox'[Z] = r
      BY <1>0, <3>1, <3>4
    <3>11. IsTrail(Z, inbox[Z], f2)' /\ Contents(Z, inbox[Z], f2)'
      BY <3>7, <3>9, <3>10 DEF IsTrail, Contents
    <3>12. f2[0] = Got(Z)' /\ f2[Len(inbox'[Z])] = SentBy(Peer(Z))'
      BY <1>1, <2>3, <3>2, <3>5, <3>6, <3>10
    <3>13. QED
      BY <3>11, <3>12 DEF Trails
  <2>6. CASE Shrinks(Z)
    <3>1. /\ q # << >> /\ Head(q)[1] = "main" /\ inbox'[Z] = Tail(q)
          /\ Got(Z)' = Following(Z, Got(Z))
      BY <1>0, <2>6 DEF Shrinks, CanRecv
    <3>2. N > 0 /\ q[1][1] = "main" /\ Len(Tail(q)) = N - 1
          /\ \A k \in 1 .. N - 1 : Tail(q)[k] = q[k + 1]
      BY <1>1, <3>1, SequenceFacts
    <3>3. f[1] = Following(Z, f[0])
      BY <1>1, <2>3, <3>2 DEF IsTrail
    <3>4. PICK r : r = Tail(q)
      OBVIOUS
    <3>5. PICK f2 : IsTrail(Z, r, f2) /\ \A k \in 0 .. N - 1 : f2[k] = f[k + 1]
      BY <1>1, <2>3, <3>1, <3>4, Shifted
    <3>6. Contents(Z, r, f2)
      <4> SUFFICES ASSUME NEW k \in 1 .. Len(r), r[k][1] = "main"
                   PROVE  Body(Z, f2[k - 1], r[k][3])
        BY DEF Contents
      <4> HIDE DEF N
      <4>1. /\ k \in 1 .. N - 1 /\ r[k] = q[k + 1] /\ k + 1 \in 1 .. N /\ k + 1 - 1 = k
            /\ k - 1 \in 0 .. N - 1 /\ k - 1 + 1 = k
        BY <1>1, <3>2, <3>4
      <4>2. f2[k - 1] = f[k]
        BY <3>5, <4>1
      <4>3. QED
        BY <2>3, <4>1, <4>2 DEF Contents, N
    <3>7. IsTrail(Z, r, f2)' /\ Contents(Z, r, f2)'
      BY <1>1, <3>5, <3>6, TrailKept
    <3>8. inbox'[Z] = r
      BY <3>1, <3>4
    <3>9. IsTrail(Z, inbox[Z], f2)' /\ Contents(Z, inbox[Z], f2)'
      BY <3>7, <3>8 DEF IsTrail, Contents
    <3>10. f2[0] = Got(Z)' /\ f2[Len(inbox'[Z])] = f[N]
      BY <1>1, <2>3, <3>1, <3>2, <3>3, <3>4, <3>5, <3>8
    <3>11. Peer(Z) \in open' => f[N] = SentBy(Peer(Z))'
      BY <2>3, <2>6 DEF Shrinks
    <3>12. QED
      BY <3>9, <3>10, <3>11 DEF Trails
  <2>7. CASE IsCut(Z)
    <3>1. PICK l \in 0 .. Len(q) : inbox'[Z] = SubSeq(q, 1, l)
      BY <1>0, <2>7 DEF IsCut
    <3>2. PICK r : r = SubSeq(q, 1, l)
      OBVIOUS
    <3>3. PICK f2 : IsTrail(Z, r, f2) /\ \A k \in 0 .. l : f2[k] = f[k]
      BY <1>1, <2>3, <3>2, Shortened
    <3>4. Len(r) = l /\ \A k \in 1 .. l : r[k] = q[k]
      BY <1>1, <3>2, SequenceFacts
    <3>5. Contents(Z, r, f2)
      <4> SUFFICES ASSUME NEW k \in 1 .. Len(r), r[k][1] = "main"
                   PROVE  Body(Z, f2[k - 1], r[k][3])
        BY DEF Contents
      <4>1. k \in 1 .. N /\ r[k] = q[k] /\ f2[k - 1] = f[k - 1]
        BY <1>1, <3>3, <3>4
      <4>2. QED
        BY <2>3, <4>1 DEF Contents
    <3>6. IsTrail(Z, r, f2)' /\ Contents(Z, r, f2)'
      BY <1>1, <3>3, <3>5, TrailKept
    <3>7. inbox'[Z] = r
      BY <3>1, <3>2
    <3>8. IsTrail(Z, inbox[Z], f2)' /\ Contents(Z, inbox[Z], f2)'
      BY <3>6, <3>7 DEF IsTrail, Contents
    <3>9. f2[0] = Got(Z)' /\ Peer(Z) \notin open'
      BY <1>1, <2>3, <2>7, <3>3 DEF IsCut
    <3>10. QED
      BY <3>8, <3>9 DEF Trails
  <2>8. QED
    BY <2>1, <2>4, <2>5, <2>6, <2>7
<1>3. CASE Voles
  <2>1. PICK X \in Sides : VoleSend(X) \/ VoleRecv(X)
    BY <1>3 DEF Voles
  <2>2. UNCHANGED <<params, open, pc, senderVars, recverVars>>
    BY <2>1 DEF VoleSend, VoleRecv
  <2>3. /\ Got(Z)' = Got(Z) /\ SentBy(Peer(Z))' = SentBy(Peer(Z)) /\ pc[Z] # "failed"
        /\ UNCHANGED open
    BY <2>2 DEF Got, SentBy, params, senderVars, recverVars, maskVars
  <2>4. PICK f : Trails(Z, f)
    BY <2>3 DEF IInv, QueueInv
  <2>5. IsTrail(Z, q, f) /\ Contents(Z, q, f) /\ f[0] = Got(Z)
        /\ (Peer(Z) \in open => f[N] = SentBy(Peer(Z))) /\ f[N] \in Nat
    BY <1>0, <1>1, <2>4 DEF Trails, IsTrail
  <2>6. CASE inbox'[Z] = inbox[Z]
    <3>1. IsTrail(Z, q, f)' /\ Contents(Z, q, f)'
      BY <1>1, <2>5, TrailKept
    <3>2. IsTrail(Z, inbox[Z], f)' /\ Contents(Z, inbox[Z], f)'
      BY <1>0, <2>6, <3>1 DEF IsTrail, Contents
    <3>3. QED
      BY <1>0, <2>3, <2>5, <2>6, <3>2 DEF Trails
  <2>7. CASE inbox'[Z] = Append(q, <<"vole", "vole", {}>>)
    <3>1. PICK r : r = Append(q, <<"vole", "vole", {}>>)
      OBVIOUS
    <3>2. PICK f2 : /\ IsTrail(Z, r, f2) /\ f2[N + 1] = f[N]
                    /\ \A k \in 0 .. N : f2[k] = f[k]
      <4>1. <<"vole", "vole", {}>>[1] = "vole"
        OBVIOUS
      <4>2. QED
        BY <1>1, <2>5, <3>1, <4>1, Extended
    <3>3. /\ Len(r) = N + 1 /\ r[N + 1] = <<"vole", "vole", {}>>
          /\ \A k \in 1 .. N : r[k] = q[k]
      BY <1>1, <3>1, SequenceFacts
    <3>4. Contents(Z, r, f2)
      <4> SUFFICES ASSUME NEW k \in 1 .. Len(r), r[k][1] = "main"
                   PROVE  Body(Z, f2[k - 1], r[k][3])
        BY DEF Contents
      <4> HIDE DEF N
      <4>1. k # N + 1
        BY <3>3
      <4>2. k \in 1 .. N /\ f2[k - 1] = f[k - 1] /\ r[k] = q[k]
        BY <1>1, <3>2, <3>3, <4>1
      <4>3. QED
        BY <2>5, <4>2 DEF Contents, N
    <3>5. IsTrail(Z, r, f2)' /\ Contents(Z, r, f2)'
      BY <1>1, <3>2, <3>4, TrailKept
    <3>6. IsTrail(Z, inbox[Z], f2)' /\ Contents(Z, inbox[Z], f2)'
      BY <2>7, <3>1, <3>5 DEF IsTrail, Contents
    <3>7. f2[0] = f[0] /\ f2[Len(inbox'[Z])] = f[N]
      BY <1>1, <2>7, <3>1, <3>2, <3>3
    <3>8. QED
      BY <2>3, <2>5, <3>6, <3>7 DEF Trails
  <2>8. CASE q # << >> /\ Head(q)[1] = "vole" /\ inbox'[Z] = Tail(q)
    <3>1. N > 0 /\ q[1][1] = "vole" /\ Len(Tail(q)) = N - 1
          /\ \A k \in 1 .. N - 1 : Tail(q)[k] = q[k + 1]
      BY <1>1, <2>8, SequenceFacts
    <3>2. f[1] = f[0]
      BY <1>1, <2>5, <3>1 DEF IsTrail
    <3>3. PICK r : r = Tail(q)
      OBVIOUS
    <3>4. PICK f2 : IsTrail(Z, r, f2) /\ \A k \in 0 .. N - 1 : f2[k] = f[k + 1]
      BY <1>1, <2>5, <2>8, <3>3, Shifted
    <3>5. Contents(Z, r, f2)
      <4> SUFFICES ASSUME NEW k \in 1 .. Len(r), r[k][1] = "main"
                   PROVE  Body(Z, f2[k - 1], r[k][3])
        BY DEF Contents
      <4> HIDE DEF N
      <4>1. /\ k \in 1 .. N - 1 /\ r[k] = q[k + 1] /\ k + 1 \in 1 .. N /\ k + 1 - 1 = k
            /\ k - 1 \in 0 .. N - 1 /\ k - 1 + 1 = k
        BY <1>1, <3>1, <3>3
      <4>2. f2[k - 1] = f[k]
        BY <3>4, <4>1
      <4>3. QED
        BY <2>5, <4>1, <4>2 DEF Contents, N
    <3>6. IsTrail(Z, r, f2)' /\ Contents(Z, r, f2)'
      BY <1>1, <3>4, <3>5, TrailKept
    <3>7. inbox'[Z] = r
      BY <2>8, <3>3
    <3>8. IsTrail(Z, inbox[Z], f2)' /\ Contents(Z, inbox[Z], f2)'
      BY <3>6, <3>7 DEF IsTrail, Contents
    <3>9. f2[0] = f[0] /\ f2[Len(inbox'[Z])] = f[N]
      BY <1>1, <3>1, <3>2, <3>3, <3>4, <3>7
    <3>10. QED
      BY <2>3, <2>5, <3>8, <3>9 DEF Trails
  <2>9. QED
    <3>1. DOMAIN inbox = Sides
      BY DEF IInv, TypeInv, InboxInv
    <3>2. CASE VoleSend(X)
      BY <1>0, <2>6, <2>7, <3>1, <3>2, SidesFacts DEF VoleSend
    <3>3. CASE VoleRecv(X)
      BY <1>0, <2>6, <2>8, <3>1, <3>3, SidesFacts DEF VoleRecv, CanRecv, Taken
    <3>4. QED
      BY <2>1, <3>2, <3>3
<1>4. QED
  BY <1>2, <1>3
-----------------------------------------------------------------------------
(* The places of the VOLE's messages on their way. *)

\* The places of the VOLE's messages after one more was sent, of whatever slot.
LEMMA VoleExtended ==
  ASSUME NEW X, NEW q, IsSeq(q), NEW lo \in Nat, NEW hi \in Nat, NEW hi2 \in Nat, hi <= hi2,
         NEW g, VoleTrail(X, q, g, lo, hi), NEW e, NEW y \in Nat,
         e[1] = "vole" => /\ y >= 1 /\ y >= lo /\ y >= hi /\ y < hi2
                          /\ y <= Len(script) /\ script[y] = Peer(X)
  PROVE  \E g2 : VoleTrail(X, Append(q, e), g2, lo, hi2)
<1> DEFINE N == Len(q)
           g2 == [k \in 1 .. N + 1 |-> IF k = N + 1 THEN y ELSE g[k]]
           r == Append(q, e)
<1>1. N \in Nat /\ Len(r) = N + 1 /\ r[N + 1] = e /\ \A k \in 1 .. N : r[k] = q[k]
  BY SequenceFacts
<1>2. g \in [1 .. N -> Nat]
  BY DEF VoleTrail
<1> HIDE DEF N, r
<1>3. g2 \in [1 .. N + 1 -> Nat] /\ g2[N + 1] = y /\ \A k \in 1 .. N : g2[k] = g[k]
  BY <1>1, <1>2
<1> HIDE DEF g2
<1>4. \A k \in 1 .. N + 1 : k = N + 1 \/ k \in 1 .. N
  BY <1>1
<1>5. ASSUME NEW k \in 1 .. N, r[k][1] = "vole"
      PROVE  /\ g2[k] \in Nat /\ g2[k] >= 1 /\ g2[k] >= lo /\ g2[k] < hi
             /\ g2[k] <= Len(script) /\ script[g2[k]] = Peer(X)
  BY <1>1, <1>2, <1>3, <1>5 DEF VoleTrail, N
<1>6. ASSUME NEW k \in 1 .. N + 1, r[k][1] = "vole"
      PROVE  /\ g2[k] >= 1 /\ g2[k] >= lo /\ g2[k] < hi2
             /\ g2[k] <= Len(script) /\ script[g2[k]] = Peer(X)
  <2>1. CASE k = N + 1
    BY <1>1, <1>3, <1>6, <2>1
  <2>2. CASE k \in 1 .. N
    BY <1>5, <1>6, <2>2
  <2>3. QED
    BY <1>4, <2>1, <2>2
<1>7. ASSUME NEW j \in 1 .. N + 1, NEW k \in 1 .. N + 1, j < k,
             r[j][1] = "vole", r[k][1] = "vole"
      PROVE  g2[j] < g2[k]
  <2>1. j \in 1 .. N
    BY <1>1, <1>7
  <2>2. CASE k = N + 1
    BY <1>1, <1>3, <1>5, <1>7, <2>1, <2>2
  <2>3. CASE k \in 1 .. N
    BY <1>1, <1>3, <1>7, <2>1, <2>3 DEF VoleTrail, N
  <2>4. QED
    BY <1>4, <2>2, <2>3
<1>8. VoleTrail(X, r, g2, lo, hi2)
  BY <1>1, <1>3, <1>6, <1>7 DEF VoleTrail
<1>9. QED
  BY <1>8 DEF r

\* The places after the head was taken: a message of the VOLE moves its receiver on.
LEMMA VoleShifted ==
  ASSUME NEW X, NEW q, IsSeq(q), q # << >>, NEW lo \in Nat, NEW lo2 \in Nat, NEW hi \in Nat,
         NEW g, VoleTrail(X, q, g, lo, hi),
         lo2 = lo \/ (q[1][1] = "vole" /\ lo2 = lo + 1)
  PROVE  \E g2 : VoleTrail(X, Tail(q), g2, lo2, hi)
<1> DEFINE N == Len(q)
           g2 == [k \in 1 .. N - 1 |-> g[k + 1]]
           r == Tail(q)
<1>1. N \in Nat /\ N > 0 /\ Len(r) = N - 1 /\ \A k \in 1 .. N - 1 : r[k] = q[k + 1]
  BY SequenceFacts
<1>2. g \in [1 .. N -> Nat]
  BY DEF VoleTrail
<1> HIDE DEF N, r
<1>3. g2 \in [1 .. N - 1 -> Nat] /\ \A k \in 1 .. N - 1 : g2[k] = g[k + 1]
  BY <1>1, <1>2
<1> HIDE DEF g2
<1>4. \A k \in 1 .. N - 1 : k + 1 \in 1 .. N /\ 1 < k + 1
  BY <1>1
<1>5. 1 \in 1 .. N
  BY <1>1
<1>6. ASSUME NEW k \in 1 .. N - 1, r[k][1] = "vole"
      PROVE  /\ g2[k] >= 1 /\ g2[k] >= lo2 /\ g2[k] < hi
             /\ g2[k] <= Len(script) /\ script[g2[k]] = Peer(X)
  <2>1. g2[k] = g[k + 1] /\ q[k + 1][1] = "vole" /\ k + 1 \in 1 .. N /\ g[k + 1] \in Nat
    BY <1>1, <1>2, <1>3, <1>4, <1>6
  <2>2. /\ g[k + 1] >= 1 /\ g[k + 1] >= lo /\ g[k + 1] < hi
        /\ g[k + 1] <= Len(script) /\ script[g[k + 1]] = Peer(X)
    BY <2>1 DEF VoleTrail, N
  <2>3. q[1][1] = "vole" => g[1] >= lo /\ g[1] < g[k + 1] /\ g[1] \in Nat
    BY <1>2, <1>4, <1>5, <2>1 DEF VoleTrail, N
  <2>4. g[k + 1] >= lo2
    BY <2>1, <2>2, <2>3
  <2>5. QED
    BY <2>1, <2>2, <2>4
<1>7. ASSUME NEW j \in 1 .. N - 1, NEW k \in 1 .. N - 1, j < k,
             r[j][1] = "vole", r[k][1] = "vole"
      PROVE  g2[j] < g2[k]
  <2>1. j + 1 < k + 1
    BY <1>7
  <2>2. q[j + 1][1] = "vole" /\ q[k + 1][1] = "vole"
    BY <1>1, <1>7
  <2>3. g[j + 1] < g[k + 1]
    BY <1>4, <2>1, <2>2 DEF VoleTrail, N
  <2>4. QED
    BY <1>3, <2>3
<1>8. VoleTrail(X, r, g2, lo2, hi)
  BY <1>1, <1>3, <1>6, <1>7 DEF VoleTrail
<1>9. QED
  BY <1>8 DEF r

\* The places after the queue was cut.
LEMMA VoleShortened ==
  ASSUME NEW X, NEW q, IsSeq(q), NEW l \in 0 .. Len(q), NEW lo, NEW hi,
         NEW g, VoleTrail(X, q, g, lo, hi)
  PROVE  \E g2 : VoleTrail(X, SubSeq(q, 1, l), g2, lo, hi)
<1> DEFINE g2 == [k \in 1 .. l |-> g[k]]
           r == SubSeq(q, 1, l)
<1>1. Len(q) \in Nat /\ l \in Nat /\ l <= Len(q) /\ Len(r) = l /\ \A k \in 1 .. l : r[k] = q[k]
  BY SequenceFacts
<1>2. g \in [1 .. Len(q) -> Nat]
  BY DEF VoleTrail
<1> HIDE DEF r
<1>3. \A k \in 1 .. l : k \in 1 .. Len(q)
  BY <1>1
<1>4. g2 \in [1 .. l -> Nat] /\ \A k \in 1 .. l : g2[k] = g[k]
  BY <1>2, <1>3
<1> HIDE DEF g2
<1>5. VoleTrail(X, r, g2, lo, hi)
  BY <1>1, <1>3, <1>4 DEF VoleTrail
<1>6. QED
  BY <1>5 DEF r

\* The messages of the VOLE on their way keep their places in the script.
LEMMA VoleStep ==
  ASSUME IInv, Next, TypeInv'
  PROVE  VoleInv'
<1>0. /\ TypeInv /\ \A Z \in Sides : IsSeq(inbox[Z]) /\ Peer(Z) \in Sides /\ vole[Z] \in Nat
      /\ UNCHANGED script /\ Len(script) \in Nat
      /\ \A k \in 1 .. Len(script) : script[k] \in Sides
      /\ vole \in [Sides -> Nat] /\ DOMAIN inbox = Sides
  BY ConstantStep, SidesFacts, ParamFacts DEF IInv, TypeInv, InboxInv, CursorInv, params
<1>1. \A X \in Sides : \A j \in 1 .. Len(script) :
         vole[Peer(X)] <= j /\ j < vole[X] => script[j] = X
  BY DEF IInv, VoleInv
<1>2. ASSUME NEW Z \in Sides, pc[Z] # "failed"
      PROVE  \E g : VoleTrail(Z, inbox[Z], g, vole[Z], vole[Peer(Z)])
  BY <1>2 DEF IInv, VoleInv
<1>3. ASSUME NEW X, NEW q, NEW g, NEW lo, NEW hi, VoleTrail(X, q, g, lo, hi)
      PROVE  VoleTrail(X, q, g, lo, hi)'
  BY <1>0, <1>3 DEF VoleTrail
<1>4. ASSUME NEW X \in Sides, VoleSend(X)
      PROVE  /\ vole[X] \in 1 .. Len(script) /\ script[vole[X]] = X
             /\ vole'[X] = vole[X] + 1 /\ vole'[Peer(X)] = vole[Peer(X)] /\ UNCHANGED pc
             /\ inbox'[X] = inbox[X]
             /\ inbox'[Peer(X)] = Append(inbox[Peer(X)], <<"vole", "vole", {}>>)
             /\ vole[Peer(X)] <= vole[X]
  <2>1. /\ vole[X] \in 1 .. Len(script) /\ script[vole[X]] = X
        /\ vole'[X] = vole[X] + 1 /\ vole'[Peer(X)] = vole[Peer(X)] /\ UNCHANGED pc
        /\ inbox'[X] = inbox[X]
        /\ inbox'[Peer(X)] = Append(inbox[Peer(X)], <<"vole", "vole", {}>>)
    BY <1>0, <1>4, SidesFacts DEF VoleSend
  <2>2. vole[Peer(X)] <= vole[X]
    <3>1. vole[X] < vole[Peer(X)] => script[vole[X]] = Peer(X)
      <4>1. Peer(X) \in Sides /\ Peer(Peer(X)) = X
        BY SidesFacts
      <4>2. vole[X] <= vole[X]
        BY <1>0
      <4>3. QED
        BY <1>1, <2>1, <4>1, <4>2
    <3>2. QED
      BY <1>0, <2>1, <3>1, SidesFacts
  <2>3. QED
    BY <2>1, <2>2
<1>5. ASSUME NEW X \in Sides, VoleRecv(X)
      PROVE  /\ vole[X] \in 1 .. Len(script) /\ script[vole[X]] = Peer(X)
             /\ vole'[X] = vole[X] + 1 /\ vole'[Peer(X)] = vole[Peer(X)] /\ UNCHANGED pc
             /\ inbox[X] # << >> /\ inbox[X][1][1] = "vole"
             /\ inbox'[X] = Tail(inbox[X]) /\ inbox'[Peer(X)] = inbox[Peer(X)]
             /\ vole[X] < vole[Peer(X)]
  <2>1. /\ vole[X] \in 1 .. Len(script) /\ script[vole[X]] = Peer(X)
        /\ vole'[X] = vole[X] + 1 /\ vole'[Peer(X)] = vole[Peer(X)] /\ UNCHANGED pc
        /\ inbox[X] # << >> /\ Head(inbox[X])[1] = "vole"
        /\ inbox'[X] = Tail(inbox[X]) /\ inbox'[Peer(X)] = inbox[Peer(X)]
        /\ X \in open
    BY <1>0, <1>5, SidesFacts DEF VoleRecv, VoleWaits, CanRecv, Taken
  <2>2. Head(inbox[X]) = inbox[X][1] /\ Len(inbox[X]) \in Nat /\ Len(inbox[X]) # 0
    BY <1>0, <2>1, SequenceFacts
  <2>3. pc[X] # "failed"
    BY <1>0, <2>1 DEF TypeInv, PcInv
  <2>4. PICK g : VoleTrail(X, inbox[X], g, vole[X], vole[Peer(X)])
    BY <1>2, <2>3
  <2>5. 1 \in 1 .. Len(inbox[X])
    BY <2>2
  <2>6. g[1] \in Nat /\ g[1] >= vole[X] /\ g[1] < vole[Peer(X)]
    BY <2>1, <2>2, <2>4, <2>5 DEF VoleTrail
  <2>7. vole[X] < vole[Peer(X)]
    <3>1. vole[X] \in Nat /\ vole[Peer(X)] \in Nat
      BY <1>0
    <3>2. QED
      BY <2>6, <3>1
  <2>8. QED
    BY <2>1, <2>2, <2>7
<1>6. ASSUME NEW X \in Sides, NEW j \in 1 .. Len(script), vole'[Peer(X)] <= j, j < vole'[X]
      PROVE  script[j] = X
  <2>0. /\ vole[X] \in Nat /\ vole[Peer(X)] \in Nat /\ j \in Nat /\ j >= 1
        /\ Peer(X) \in Sides /\ Peer(X) # X /\ Peer(Peer(X)) = X
        /\ (vole[Peer(X)] <= j /\ j < vole[X] => script[j] = X)
    BY <1>0, <1>1, SidesFacts
  <2>1. CASE UNCHANGED vole
    BY <1>6, <2>0, <2>1
  <2>2. ASSUME NEW Y \in Sides, vole[Y] = 0, vole' = [vole EXCEPT ![Y] = 1]
        PROVE  script[j] = X
    <3>1. CASE Y = X
      <4>1. vole'[X] = 1
        BY <1>0, <2>2, <3>1
      <4>2. QED
        BY <1>6, <2>0, <4>1
    <3>2. CASE Y = Peer(X)
      <4>1. vole'[X] = vole[X] /\ vole[Peer(X)] = 0
        BY <1>0, <2>0, <2>2, <3>2
      <4>2. QED
        BY <1>6, <2>0, <4>1
    <3>3. QED
      BY <3>1, <3>2, SidesFacts
  <2>3. ASSUME NEW Y \in Sides, VoleSend(Y)
        PROVE  script[j] = X
    <3>1. CASE Y = X
      <4>1. vole'[X] = vole[X] + 1 /\ vole'[Peer(X)] = vole[Peer(X)] /\ script[vole[X]] = X
        BY <1>4, <2>3, <3>1
      <4>2. j = vole[X] \/ j < vole[X]
        BY <1>6, <2>0, <4>1
      <4>3. QED
        BY <1>6, <2>0, <4>1, <4>2
    <3>2. CASE Y = Peer(X)
      <4>1. vole'[X] = vole[X] /\ vole'[Peer(X)] = vole[Peer(X)] + 1
        BY <1>4, <2>0, <2>3, <3>2
      <4>2. QED
        BY <1>6, <2>0, <4>1
    <3>3. QED
      BY <3>1, <3>2, SidesFacts
  <2>4. ASSUME NEW Y \in Sides, VoleRecv(Y)
        PROVE  script[j] = X
    <3>1. CASE Y = X
      <4>1. vole'[X] = vole[X] + 1 /\ vole'[Peer(X)] = vole[Peer(X)] /\ vole[X] < vole[Peer(X)]
        BY <1>5, <2>4, <3>1
      <4>2. QED
        BY <1>6, <2>0, <4>1
    <3>2. CASE Y = Peer(X)
      <4>1. vole'[X] = vole[X] /\ vole'[Peer(X)] = vole[Peer(X)] + 1
        BY <1>5, <2>0, <2>4, <3>2
      <4>2. QED
        BY <1>6, <2>0, <4>1
    <3>3. QED
      BY <3>1, <3>2, SidesFacts
  <2>5. QED
    BY <1>0, <2>1, <2>2, <2>3, <2>4, VoleKinds DEF VoleKind, Voles
<1>7. ASSUME NEW Z \in Sides, pc'[Z] # "failed"
      PROVE  \E g : VoleTrail(Z, inbox[Z], g, vole[Z], vole[Peer(Z)])'
  <2>0. PICK q, lo, hi, lo2, hi2 : /\ q = inbox[Z] /\ lo = vole[Z] /\ hi = vole[Peer(Z)]
                                   /\ lo2 = vole'[Z] /\ hi2 = vole'[Peer(Z)]
    OBVIOUS
  <2>1. lo \in Nat /\ hi \in Nat /\ IsSeq(q) /\ Peer(Z) \in Sides /\ Peer(Peer(Z)) = Z
        /\ Peer(Z) # Z
    BY <1>0, <2>0, SidesFacts
  <2>2. SUFFICES \E g : VoleTrail(Z, inbox'[Z], g, lo2, hi2)
    <3>1. PICK r : r = inbox'[Z]
      OBVIOUS
    <3>2. ASSUME NEW g, VoleTrail(Z, r, g, lo2, hi2)
          PROVE  VoleTrail(Z, inbox[Z], g, vole[Z], vole[Peer(Z)])'
      <4>1. VoleTrail(Z, r, g, lo2, hi2)'
        BY <1>3, <3>2
      <4>2. QED
        BY <2>0, <3>1, <4>1 DEF VoleTrail
    <3>3. QED
      BY <3>1, <3>2
  <2>3. CASE ~ Voles
    <3>1. /\ pc[Z] # "failed"
          /\ \/ inbox'[Z] = q
             \/ \E kind, b : inbox'[Z] = Append(q, <<"main", kind, b>>)
             \/ q # << >> /\ inbox'[Z] = Tail(q)
             \/ \E l \in 0 .. Len(q) : inbox'[Z] = SubSeq(q, 1, l)
      BY <1>7, <2>0, <2>3, Kinds, SidesFacts DEF Kind, Stays, Grows, Shrinks, IsCut, CanRecv
    <3>2. PICK g : VoleTrail(Z, q, g, lo, hi)
      BY <1>2, <2>0, <3>1
    <3>3. /\ lo2 = lo \/ (lo = 0 /\ lo2 = 1)
          /\ hi2 \in Nat /\ hi <= hi2
      BY <1>0, <2>0, <2>1, <2>3, VoleKinds DEF VoleKind
    <3>4. lo2 \in Nat
      BY <2>1, <3>3
    <3>5. VoleTrail(Z, q, g, lo2, hi2)
      <4>1. ASSUME NEW k \in 1 .. Len(q), q[k][1] = "vole"
            PROVE  /\ g[k] >= 1 /\ g[k] >= lo2 /\ g[k] < hi2
                   /\ g[k] <= Len(script) /\ script[g[k]] = Peer(Z)
        <5>1. /\ g[k] \in Nat /\ g[k] >= 1 /\ g[k] >= lo /\ g[k] < hi
              /\ g[k] <= Len(script) /\ script[g[k]] = Peer(Z)
          BY <3>2, <4>1 DEF VoleTrail
        <5>2. QED
          BY <2>1, <3>3, <5>1
      <4>2. QED
        BY <3>2, <4>1 DEF VoleTrail
    <3>6. CASE \E kind, b : inbox'[Z] = Append(q, <<"main", kind, b>>)
      <4>1. PICK kind, b : inbox'[Z] = Append(q, <<"main", kind, b>>)
        BY <3>6
      <4>2. PICK e : e = <<"main", kind, b>>
        OBVIOUS
      <4>3. e[1] # "vole" /\ hi2 <= hi2 /\ 0 \in Nat
        BY <3>3, <4>2
      <4>4. QED
        BY <2>1, <3>3, <3>4, <3>5, <4>1, <4>2, <4>3, VoleExtended
    <3>7. CASE q # << >> /\ inbox'[Z] = Tail(q)
      BY <2>1, <3>3, <3>4, <3>5, <3>7, VoleShifted
    <3>8. CASE \E l \in 0 .. Len(q) : inbox'[Z] = SubSeq(q, 1, l)
      BY <2>1, <3>5, <3>8, VoleShortened
    <3>9. QED
      BY <3>1, <3>5, <3>6, <3>7, <3>8
  <2>4. ASSUME VoleSend(Z)
        PROVE  \E g : VoleTrail(Z, inbox'[Z], g, lo2, hi2)
    <3>1. /\ script[lo] = Z /\ lo2 = lo + 1 /\ hi2 = hi /\ pc[Z] # "failed" /\ inbox'[Z] = q
      BY <1>4, <1>7, <2>0, <2>4
    <3>2. PICK g : VoleTrail(Z, q, g, lo, hi)
      BY <1>2, <2>0, <3>1
    <3>3. ASSUME NEW k \in 1 .. Len(q), q[k][1] = "vole"
          PROVE  g[k] >= lo2
      <4>1. g[k] \in Nat /\ g[k] >= lo /\ script[g[k]] = Peer(Z)
        BY <3>2, <3>3 DEF VoleTrail
      <4>2. g[k] # lo
        BY <2>1, <3>1, <4>1
      <4>3. QED
        BY <2>1, <3>1, <4>1, <4>2
    <3>4. VoleTrail(Z, q, g, lo2, hi2)
      BY <3>1, <3>2, <3>3 DEF VoleTrail
    <3>5. QED
      BY <3>1, <3>4
  <2>5. ASSUME VoleSend(Peer(Z))
        PROVE  \E g : VoleTrail(Z, inbox'[Z], g, lo2, hi2)
    <3>1. /\ hi \in 1 .. Len(script) /\ script[hi] = Peer(Z) /\ lo2 = lo /\ hi2 = hi + 1
          /\ pc[Z] # "failed" /\ lo <= hi
          /\ inbox'[Z] = Append(q, <<"vole", "vole", {}>>)
      BY <1>4, <1>7, <2>0, <2>1, <2>5
    <3>2. PICK g : VoleTrail(Z, q, g, lo, hi)
      BY <1>2, <2>0, <3>1
    <3>3. PICK e : e = <<"vole", "vole", {}>>
      OBVIOUS
    <3>4. /\ hi2 \in Nat /\ hi <= hi2 /\ hi >= 1 /\ hi >= lo /\ hi >= hi /\ hi < hi2
          /\ hi <= Len(script)
      BY <1>0, <2>1, <3>1
    <3>5. QED
      BY <2>1, <3>1, <3>2, <3>3, <3>4, VoleExtended
  <2>6. ASSUME VoleRecv(Z)
        PROVE  \E g : VoleTrail(Z, inbox'[Z], g, lo2, hi2)
    <3>1. /\ lo2 = lo + 1 /\ hi2 = hi /\ pc[Z] # "failed"
          /\ q # << >> /\ q[1][1] = "vole" /\ inbox'[Z] = Tail(q)
      BY <1>5, <1>7, <2>0, <2>6
    <3>2. PICK g : VoleTrail(Z, q, g, lo, hi)
      BY <1>2, <2>0, <3>1
    <3>3. lo2 \in Nat
      BY <2>1, <3>1
    <3>4. QED
      BY <2>1, <3>1, <3>2, <3>3, VoleShifted
  <2>7. ASSUME VoleRecv(Peer(Z))
        PROVE  \E g : VoleTrail(Z, inbox'[Z], g, lo2, hi2)
    <3>1. lo2 = lo /\ hi2 = hi + 1 /\ pc[Z] # "failed" /\ inbox'[Z] = q
      BY <1>5, <1>7, <2>0, <2>1, <2>7
    <3>2. PICK g : VoleTrail(Z, q, g, lo, hi)
      BY <1>2, <2>0, <3>1
    <3>3. \A k \in 1 .. Len(q) : q[k][1] = "vole" => g[k] < hi2
      <4>1. \A k \in 1 .. Len(q) : q[k][1] = "vole" => g[k] \in Nat /\ g[k] < hi
        BY <3>2 DEF VoleTrail
      <4>2. QED
        BY <2>1, <3>1, <4>1
    <3>4. VoleTrail(Z, q, g, lo2, hi2)
      BY <3>1, <3>2, <3>3 DEF VoleTrail
    <3>5. QED
      BY <3>1, <3>4
  <2>8. QED
    BY <2>3, <2>4, <2>5, <2>6, <2>7, SidesFacts DEF Voles
<1>8. QED
  BY <1>0, <1>6, <1>7, SidesFacts DEF VoleInv

-----------------------------------------------------------------------------
(* The contents. *)

\* What a side takes says what its number says.
LEMMA HeadSays ==
  ASSUME IInv, NEW X \in Sides, pc[X] # "failed", CanRecv(X, "main")
  PROVE  Due(X, Got(X)) /\ Body(X, Got(X), Received(X))
<1>1. PICK f : Trails(X, f)
  BY DEF IInv, QueueInv
<1>2. IsSeq(inbox[X]) /\ inbox[X] # << >>
  BY DEF IInv, TypeInv, InboxInv, CanRecv
<1>3. 1 \in 1 .. Len(inbox[X]) /\ Head(inbox[X]) = inbox[X][1]
  BY <1>2, SequenceFacts
<1>4. inbox[X][1][1] = "main" /\ f[1 - 1] = Got(X)
  BY <1>1, <1>3 DEF CanRecv, Trails
<1>5. QED
  BY <1>1, <1>3, <1>4 DEF Trails, IsTrail, Contents, Received

\* The seed and b are blocks of sets: a message is never found in them.
LEMMA TaggedFacts ==
  ASSUME NEW i, NEW j, NEW y
  PROVE  <<"a", i>> \in XOR(a(j), Mul(y)) <=> i = j
BY DEF XOR, a, Mul

\* Adding D times a block twice over.
LEMMA ChunkAdded ==
  ASSUME NEW j, NEW x, NEW y
  PROVE  XOR(XOR(a(j), Mul(y)), Mul(XOR(x, y))) = XOR(a(j), Mul(x))
<1> DEFINE l == XOR(XOR(a(j), Mul(y)), Mul(XOR(x, y)))
           r == XOR(a(j), Mul(x))
<1>1. ASSUME NEW e PROVE e \in l <=> e \in r
  <2>1. \A z : <<"a", j>> \notin Mul(z)
    BY DEF Mul
  <2>2. CASE e = <<"a", j>>
    BY <2>1, <2>2 DEF XOR, a
  <2>3. CASE e # <<"a", j>>
    <3>1. \A z : e \in Mul(z) <=> \E s \in z : e = <<"D", s>>
      BY DEF Mul
    <3>2. CASE \E s : e = <<"D", s>>
      <4>1. PICK s : e = <<"D", s>>
        BY <3>2
      <4>2. \A z : e \in Mul(z) <=> s \in z
        BY <3>1, <4>1
      <4>3. QED
        BY <2>3, <4>2 DEF XOR, a
    <3>3. CASE ~ \E s : e = <<"D", s>>
      BY <2>3, <3>1, <3>3 DEF XOR, a
    <3>4. QED
      BY <3>2, <3>3
  <2>4. QED
    BY <2>2, <2>3
<1>2. QED
  BY <1>1

\* A step that leaves the sender's variables alone.
LEMMA SenderKept ==
  ASSUME TypeInv, SenderInv, Next, UNCHANGED <<recvPos, mSeed, mB, mW>>,
         encoded' = encoded \/ recvPos = 0,
         \/ pc'["S"] \in {"failed", "size", "recvSize", "sendPSeed", "oprf", "seed"}
         \/ pc'["S"] = pc["S"]
         \/ pc["S"] \in {"evaluate", "sending"} /\ pc'["S"] \in {"sending", "done"}
  PROVE  SenderInv'
<1>1. UNCHANGED params /\ Cols' = Cols /\ FewChunks' = FewChunks /\ Cols \subseteq Nat
  BY ConstantStep, ParamFacts DEF params, Cols, FewChunks, TypeInv
<1>2. recvPos \in Nat /\ cBegin \in Nat /\ cBegin' \in Int /\ recvPos' <= cBegin'
  <2>1. SpanInv' /\ recvPos \in Nat /\ cBegin \in Nat
    BY SpanStep, ParamFacts DEF TypeInv, SpanInv
  <2>2. cBegin' \in Int /\ cBegin' >= cBegin
    BY <1>1, <2>1, CutBegins DEF SpanInv
  <2>3. QED
    BY <2>1, <2>2 DEF SenderInv
<1>3. \A j \in Cols : (IF j < recvPos THEN Enc(j) ELSE c(j))'
                        = IF j < recvPos THEN Enc(j) ELSE c(j)
  <2> SUFFICES ASSUME NEW j \in Cols PROVE (IF j < recvPos THEN Enc(j) ELSE c(j))'
                        = IF j < recvPos THEN Enc(j) ELSE c(j)
    OBVIOUS
  <2>1. CASE encoded' = encoded
    BY <1>1, <2>1, EncKept DEF c
  <2>2. CASE recvPos = 0
    BY <1>1, <2>2 DEF c
  <2>3. QED
    BY <2>1, <2>2
<1>4. Tagged => Tagged'
  BY <1>1 DEF Tagged
<1>5. pc'["S"] \in {"vole", "recvW", "chunks", "evaluate", "sending", "done"} =>
        \/ pc["S"] = pc'["S"]
        \/ pc["S"] \in {"evaluate", "sending"} /\ pc'["S"] \in {"sending", "done"}
  OBVIOUS
<1>6. pc'["S"] \in {"vole", "recvW", "chunks", "evaluate", "sending", "done"}
        => mSeed' = HashingSeed'
  BY <1>5 DEF SenderInv, HashingSeed
<1>7. pc'["S"] \in {"chunks", "evaluate", "sending", "done"} /\ mMalicious'
        => mW' = XOR(wr, ws)'
  BY <1>1, <1>5 DEF SenderInv, wr, ws, XOR, params
<1>8. pc'["S"] \in {"recvW", "chunks", "evaluate", "sending", "done"} =>
        /\ Tagged'
        /\ FewChunks' => \A j \in Cols' :
             mB'[j] = XOR(a(j), Mul(IF j < recvPos THEN Enc(j) ELSE c(j)))'
  <2>1. ASSUME pc'["S"] \in {"recvW", "chunks", "evaluate", "sending", "done"}
        PROVE  pc["S"] \in {"recvW", "chunks", "evaluate", "sending", "done"}
    BY <1>5, <2>1
  <2>2. ASSUME pc'["S"] \in {"recvW", "chunks", "evaluate", "sending", "done"}, FewChunks',
               NEW j \in Cols'
        PROVE  mB'[j] = XOR(a(j), Mul(IF j < recvPos THEN Enc(j) ELSE c(j)))'
    <3>1. mB[j] = XOR(a(j), Mul(IF j < recvPos THEN Enc(j) ELSE c(j)))
      BY <1>1, <2>1, <2>2 DEF SenderInv
    <3>2. (IF j < recvPos THEN Enc(j) ELSE c(j))' = IF j < recvPos THEN Enc(j) ELSE c(j)
      BY <1>1, <1>3, <2>2
    <3>3. QED
      BY <3>1, <3>2 DEF XOR, Mul, a
  <2>3. QED
    BY <1>4, <2>1, <2>2 DEF SenderInv
<1>9. QED
  BY <1>2, <1>6, <1>7, <1>8 DEF SenderInv

\* The sender's arrays are what the messages it took make of them.
LEMMA SenderStep ==
  ASSUME IInv, Next, TypeInv'
  PROVE  SenderInv'
<1>0. /\ TypeInv /\ SenderInv /\ UNCHANGED params /\ Cols' = Cols /\ FewChunks' = FewChunks
      /\ Cols \subseteq Nat /\ "S" \in DOMAIN pc /\ "R" \in DOMAIN pc
      /\ pc = [X \in Sides |-> pc[X]] /\ "S" # "R"
  BY ConstantStep, ParamFacts, SidesFacts DEF IInv, params, Cols, FewChunks, TypeInv, PcInv
<1>1. CASE SendInit
  <2>1. UNCHANGED <<recvPos, mSeed, mB, mW>> /\ encoded' = encoded
    BY <1>1 DEF SendInit, senderVars, recverVars
  <2>2. pc'["S"] = "seed"
    BY <1>1, <1>0 DEF SendInit, Goto, Fail
  <2>3. QED
    BY <1>0, <2>1, <2>2, SenderKept
<1>2. CASE RecvSeed
  <2>1. UNCHANGED <<recvPos, cBegin, mB, mW>> /\ mSeed' = Received("S") /\ pc'["S"] = "vole"
    BY <1>2, <1>0 DEF RecvSeed, recverVars, maskVars, Goto
  <2>2. Got("S") = 1 /\ Body("S", Got("S"), Received("S"))
    BY <1>2, <1>0, HeadSays DEF RecvSeed, Got, Sides
  <2>3. mSeed' = HashingSeed'
    BY <2>1, <2>2 DEF Body, HashingSeed
  <2>4. QED
    BY <1>0, <2>1, <2>3 DEF SenderInv
<1>3. CASE SendVole
  <2>1. UNCHANGED <<recvPos, cBegin, encoded, mSeed, mW>> /\ pc["S"] = "vole" /\ recvPos = 0
        /\ mB' = [j \in Cols |-> XOR(a(j), Mul(c(j)))]
        /\ pc'["S"] = IF mMalicious THEN "recvW" ELSE "chunks"
    BY <1>3, <1>0 DEF SendVole, recverVars, maskVars, Goto, TypeInv, SpanInv
  <2>2. mSeed' = HashingSeed'
    BY <1>0, <2>1 DEF SenderInv, HashingSeed
  <2>3. mMalicious' => pc'["S"] = "recvW"
    BY <1>0, <2>1 DEF params
  <2>4. Tagged'
    BY <1>0, <2>1, TaggedFacts DEF Tagged
  <2>5. ASSUME NEW j \in Cols'
        PROVE  mB'[j] = XOR(a(j), Mul(IF j < recvPos THEN Enc(j) ELSE c(j)))'
    <3>1. j \in Nat /\ ~ (j < recvPos') /\ mB'[j] = XOR(a(j), Mul(c(j)))
      BY <1>0, <2>1, <2>5
    <3>2. QED
      BY <3>1 DEF XOR, Mul, a, c
  <2>6. QED
    BY <1>0, <2>1, <2>2, <2>3, <2>4, <2>5 DEF SenderInv
<1>4. CASE RecvW
  <2>1. UNCHANGED <<recvPos, cBegin, encoded, mSeed, mB>> /\ pc["S"] = "recvW"
        /\ mW' = XOR(Received("S"), ws) /\ pc'["S"] = "chunks"
    BY <1>4, <1>0 DEF RecvW, recverVars, maskVars, Goto
  <2>2. Got("S") = 2 /\ Body("S", Got("S"), Received("S"))
    BY <1>4, <1>0, HeadSays DEF RecvW, Got, Sides
  <2>3. mW' = XOR(wr, ws)' /\ mSeed' = HashingSeed'
    BY <1>0, <2>1, <2>2 DEF Body, XOR, wr, ws, SenderInv, HashingSeed
  <2>4. Tagged'
    BY <1>0, <2>1 DEF Tagged, SenderInv
  <2>5. ASSUME NEW j \in Cols', FewChunks'
        PROVE  mB'[j] = XOR(a(j), Mul(IF j < recvPos THEN Enc(j) ELSE c(j)))'
    <3>1. mB[j] = XOR(a(j), Mul(IF j < recvPos THEN Enc(j) ELSE c(j)))
      BY <1>0, <2>1, <2>5 DEF SenderInv
    <3>2. Enc(j)' = Enc(j)
      BY <1>0, <2>1, <2>5, EncKept
    <3>3. QED
      BY <2>1, <3>1, <3>2 DEF XOR, Mul, a, c
  <2>6. QED
    BY <1>0, <2>1, <2>3, <2>4, <2>5 DEF SenderInv
<1>5. CASE RecvChunk
  <2> DEFINE l == Lesser(size - recvPos, Chunk)
  <2>0. size \in Nat /\ Chunk \in Nat \ {0} /\ recvPos \in Nat /\ cBegin \in Nat
        /\ DOMAIN mB = Cols /\ recvPos < size
    BY <1>5, ParamFacts DEF RecvChunk, TypeInv, SpanInv, ArrayInv, IInv
  <2>1. l \in Nat \ {0} /\ l <= size - recvPos
    BY <2>0 DEF Lesser
  <2>2. PICK b : b = Received("S")
    OBVIOUS
  <2>3. UNCHANGED <<cBegin, encoded, mSeed, mW>> /\ pc["S"] = "chunks"
        /\ mB' = [j \in Cols |-> IF j \in recvPos .. recvPos + l - 1
                                 THEN XOR(mB[j], Mul(b[j - recvPos])) ELSE mB[j]]
        /\ recvPos' = recvPos + l
    BY <1>5, <2>2 DEF RecvChunk, recverVars, maskVars
  <2>4. pc'["S"] \in {"chunks", "evaluate"}
    BY <1>5, <1>0 DEF RecvChunk, Goto
  <2>5. Got("S") = 3 + recvPos /\ Body("S", Got("S"), b)
    BY <1>5, <2>2, <1>0, HeadSays DEF RecvChunk, Got, Sides
  <2>6. /\ recvPos + l <= cBegin
        /\ FewChunks => \A i \in 0 .. l - 1 : b[i] = XOR(Enc(recvPos + i), c(recvPos + i))
    <3>2. PICK s : s = 3 + recvPos
      OBVIOUS
    <3>3. s >= 3 /\ s - 3 = recvPos /\ Body("S", s, b)
      <4>1. s >= 3 /\ s - 3 = recvPos
        BY <2>0, <3>2
      <4>2. Got("S") = s
        BY <2>5, <3>2
      <4>3. Body("S", s, b)
        BY <2>5, <4>2
      <4>4. QED
        BY <4>1, <4>3
    <3>4. /\ s - 3 + Lesser(size - (s - 3), Chunk) <= cBegin
          /\ FewChunks => b = [i \in 0 .. Lesser(size - (s - 3), Chunk) - 1 |->
                                 XOR(Enc(s - 3 + i), c(s - 3 + i))]
      BY <3>3 DEF Body
    <3>5. Lesser(size - (s - 3), Chunk) = l
      BY <3>3
    <3>6. QED
      BY <3>3, <3>4, <3>5
  <2> HIDE DEF l
  <2>7. recvPos' <= cBegin'
    BY <2>3, <2>6
  <2>8. Tagged'
    <3>1. \A j \in Cols : mB'[j] = mB[j] \/ mB'[j] = XOR(mB[j], Mul(b[j - recvPos]))
      BY <2>3
    <3>2. \A i, x, y : <<"a", i>> \in XOR(x, Mul(y)) <=> <<"a", i>> \in x
      BY DEF XOR, Mul
    <3>3. Tagged
      BY <1>0, <2>3 DEF SenderInv
    <3>4. \A i, j \in Cols : <<"a", i>> \in mB'[j] <=> <<"a", i>> \in mB[j]
      BY <3>1, <3>2
    <3>5. QED
      BY <1>0, <3>3, <3>4 DEF Tagged
  <2>9. ASSUME NEW j \in Cols', FewChunks'
        PROVE  mB'[j] = XOR(a(j), Mul(IF j < recvPos THEN Enc(j) ELSE c(j)))'
    <3>1. j \in Nat /\ j \in Cols /\ FewChunks
      BY <1>0, <2>9
    <3>2. mB[j] = XOR(a(j), Mul(IF j < recvPos THEN Enc(j) ELSE c(j)))
      BY <1>0, <2>3, <3>1 DEF SenderInv
    <3>3. Enc(j)' = Enc(j)
      BY <1>0, <2>3, <3>1, EncKept
    <3>4. mB'[j] = XOR(a(j), Mul(IF j < recvPos + l THEN Enc(j) ELSE c(j)))
      <4>1. CASE j \in recvPos .. recvPos + l - 1
        <5>1. j - recvPos \in 0 .. l - 1 /\ recvPos + (j - recvPos) = j /\ j < recvPos + l
              /\ ~ (j < recvPos)
          BY <2>0, <2>1, <3>1, <4>1
        <5>2. b[j - recvPos] = XOR(Enc(j), c(j))
          BY <2>6, <3>1, <5>1
        <5>3. mB'[j] = XOR(XOR(a(j), Mul(c(j))), Mul(XOR(Enc(j), c(j))))
          BY <2>3, <3>1, <3>2, <4>1, <5>1, <5>2
        <5>4. QED
          BY <5>1, <5>3, ChunkAdded
      <4>2. CASE j \notin recvPos .. recvPos + l - 1
        <5>1. j < recvPos <=> j < recvPos + l
          BY <2>0, <2>1, <3>1, <4>2
        <5>2. mB'[j] = mB[j]
          BY <2>3, <3>1, <4>2
        <5>3. QED
          BY <3>2, <5>1, <5>2
      <4>3. QED
        BY <4>1, <4>2
    <3>5. QED
      BY <2>3, <3>3, <3>4 DEF XOR, Mul, a, c
  <2>10. mSeed' = HashingSeed' /\ (mMalicious' => mW' = XOR(wr, ws)')
    BY <1>0, <2>3 DEF SenderInv, HashingSeed, XOR, wr, ws, params
  <2>11. QED
    BY <2>4, <2>7, <2>8, <2>9, <2>10 DEF SenderInv
<1>6. CASE RecvInit
  <2>1. UNCHANGED <<recvPos, mSeed, mB, mW>> /\ encoded' = encoded
    BY <1>6 DEF RecvInit, senderVars, recverVars
  <2>2. pc' = pc \/ \E l : pc' = [pc EXCEPT !["R"] = l]
    BY <1>6 DEF RecvInit, Goto, Fail
  <2>3. QED
    BY <1>0, <2>1, <2>2, SenderKept
<1>7. CASE RecvHws
  <2>1. UNCHANGED <<recvPos, mSeed, mB, mW>> /\ encoded' = encoded
    BY <1>7 DEF RecvHws, senderVars, recverVars
  <2>2. pc' = pc \/ \E l : pc' = [pc EXCEPT !["R"] = l]
    BY <1>7 DEF RecvHws, Goto, Fail
  <2>3. QED
    BY <1>0, <2>1, <2>2, SenderKept
<1>8. CASE Solve
  <2>1. UNCHANGED <<recvPos, mSeed, mB, mW>>
    BY <1>8 DEF Solve, senderVars
  <2>2. pc'["S"] = pc["S"]
    BY <1>8, <1>0 DEF Solve, Goto
  <2>3. recvPos = 0
    <3>1. cBegin = 0 /\ recvPos \in Nat /\ recvPos <= cBegin
      BY <1>8, ParamFacts DEF Solve, IInv, TypeInv, SpanInv, SenderInv
    <3>2. QED
      BY <3>1
  <2>4. QED
    BY <1>0, <2>1, <2>2, <2>3, SenderKept
<1>9. CASE EncodeFails
  <2>1. UNCHANGED <<recvPos, mSeed, mB, mW>> /\ encoded' = encoded
    BY <1>9 DEF EncodeFails, senderVars, recverVars
  <2>2. pc' = pc \/ \E l : pc' = [pc EXCEPT !["R"] = l]
    BY <1>9 DEF EncodeFails, Goto, Fail
  <2>3. QED
    BY <1>0, <2>1, <2>2, SenderKept
<1>10. CASE SolveThrows
  <2>1. UNCHANGED <<recvPos, mSeed, mB, mW>> /\ encoded' = encoded
    BY <1>10 DEF SolveThrows, senderVars, recverVars
  <2>2. pc' = pc \/ \E l : pc' = [pc EXCEPT !["R"] = l]
    BY <1>10 DEF SolveThrows, Goto, Fail
  <2>3. QED
    BY <1>0, <2>1, <2>2, SenderKept
<1>11. CASE RecvVole
  <2>1. UNCHANGED <<recvPos, mSeed, mB, mW>> /\ encoded' = encoded
    BY <1>11 DEF RecvVole, senderVars, recverVars
  <2>2. pc' = pc \/ \E l : pc' = [pc EXCEPT !["R"] = l]
    BY <1>11 DEF RecvVole, Goto, Fail
  <2>3. QED
    BY <1>0, <2>1, <2>2, SenderKept
<1>12. CASE MaskChunk
  <2>1. UNCHANGED <<recvPos, mSeed, mB, mW>> /\ encoded' = encoded
    BY <1>12 DEF MaskChunk, senderVars, recverVars
  <2>2. pc' = pc \/ \E l : pc' = [pc EXCEPT !["R"] = l]
    BY <1>12 DEF MaskChunk, Goto, Fail
  <2>3. QED
    BY <1>0, <2>1, <2>2, SenderKept
<1>13. CASE SendingEnds
  <2>1. UNCHANGED <<recvPos, mSeed, mB, mW>> /\ encoded' = encoded
    BY <1>13 DEF SendingEnds, senderVars, recverVars
  <2>2. pc' = pc \/ \E l : pc' = [pc EXCEPT !["R"] = l]
    BY <1>13 DEF SendingEnds, Goto, Fail
  <2>3. QED
    BY <1>0, <2>1, <2>2, SenderKept
<1>14. CASE Decode
  <2>1. UNCHANGED <<recvPos, mSeed, mB, mW>> /\ encoded' = encoded
    BY <1>14 DEF Decode, senderVars, recverVars
  <2>2. pc' = pc \/ \E l : pc' = [pc EXCEPT !["R"] = l]
    BY <1>14 DEF Decode, Goto, Fail
  <2>3. QED
    BY <1>0, <2>1, <2>2, SenderKept
<1>15. CASE RecvWs
  <2>1. UNCHANGED <<recvPos, mSeed, mB, mW>> /\ encoded' = encoded
    BY <1>15 DEF RecvWs, senderVars, recverVars
  <2>2. pc' = pc \/ \E l : pc' = [pc EXCEPT !["R"] = l]
    BY <1>15 DEF RecvWs, Goto, Fail
  <2>3. QED
    BY <1>0, <2>1, <2>2, SenderKept
<1>16. CASE \E X \in Sides : VoleSend(X)
  <2>1. UNCHANGED <<recvPos, mSeed, mB, mW>> /\ encoded' = encoded
    BY <1>16 DEF VoleSend, senderVars, recverVars
  <2>2. pc' = pc \/ \E l : pc' = [pc EXCEPT !["R"] = l]
    BY <1>16 DEF VoleSend, Goto, Fail
  <2>3. QED
    BY <1>0, <2>1, <2>2, SenderKept
<1>17. CASE \E X \in Sides : VoleRecv(X)
  <2>1. UNCHANGED <<recvPos, mSeed, mB, mW>> /\ encoded' = encoded
    BY <1>17 DEF VoleRecv, senderVars, recverVars
  <2>2. pc' = pc \/ \E l : pc' = [pc EXCEPT !["R"] = l]
    BY <1>17 DEF VoleRecv, Goto, Fail
  <2>3. QED
    BY <1>0, <2>1, <2>2, SenderKept
<1>18. CASE \E X \in Sides : RecvFails(X)
  <2>1. UNCHANGED <<recvPos, mSeed, mB, mW>> /\ encoded' = encoded
    BY <1>18 DEF RecvFails, senderVars, recverVars
  <2>2. PICK X \in Sides : RecvFails(X)
    BY <1>18
  <2>3. pc'["S"] = pc["S"] \/ pc'["S"] \in {"failed", "recvSize", "oprf"}
    BY <1>0, <2>2 DEF RecvFails, Goto, Fail
  <2>4. QED
    BY <1>0, <2>1, <2>3, SenderKept
<1>19. CASE \E X \in Sides : SendFails(X)
  <2>1. UNCHANGED <<recvPos, mSeed, mB, mW>> /\ encoded' = encoded
    BY <1>19 DEF SendFails, senderVars, recverVars
  <2>2. PICK X \in Sides : SendFails(X)
    BY <1>19
  <2>3. pc'["S"] = pc["S"] \/ pc'["S"] \in {"failed", "recvSize", "oprf"}
    BY <1>0, <2>2 DEF SendFails, Goto, Fail
  <2>4. QED
    BY <1>0, <2>1, <2>3, SenderKept
<1>20. CASE SendHashes
  <2>1. UNCHANGED <<recvPos, mSeed, mB, mW>> /\ encoded' = encoded
    BY <1>20 DEF SendHashes, senderVars, recverVars
  <2>2. pc["S"] \in {"evaluate", "sending"} /\ pc'["S"] \in {"sending", "done"}
    BY <1>20, <1>0 DEF SendHashes, Goto, Fail
  <2>3. QED
    BY <1>0, <2>1, <2>2, SenderKept
<1>21. CASE SenderSendingEnds
  <2>1. UNCHANGED <<recvPos, mSeed, mB, mW>> /\ encoded' = encoded
    BY <1>21 DEF SenderSendingEnds, senderVars, recverVars
  <2>2. pc["S"] \in {"evaluate", "sending"} /\ pc'["S"] \in {"sending", "done"}
    BY <1>21, <1>0 DEF SenderSendingEnds, Goto, Fail
  <2>3. QED
    BY <1>0, <2>1, <2>2, SenderKept
<1>22. CASE RecverGoesOn
  <2>1. UNCHANGED <<recvPos, mSeed, mB, mW>> /\ encoded' = encoded
    BY <1>22 DEF RecverGoesOn, senderVars, recverVars
  <2>2. pc' = pc \/ \E l : pc' = [pc EXCEPT !["R"] = l]
    BY <1>22 DEF RecverGoesOn, Goto, Fail
  <2>3. QED
    BY <1>0, <2>1, <2>2, SenderKept
<1>23. CASE RecvHashes
  <2>1. UNCHANGED <<recvPos, mSeed, mB, mW>> /\ encoded' = encoded
    BY <1>23 DEF RecvHashes, senderVars, recverVars
  <2>2. pc' = pc \/ \E l : pc' = [pc EXCEPT !["R"] = l]
    BY <1>23 DEF RecvHashes, Goto, Fail
  <2>3. QED
    BY <1>0, <2>1, <2>2, SenderKept
<1>24. CASE SendPSeed
  <2>1. UNCHANGED <<recvPos, mSeed, mB, mW>> /\ encoded' = encoded
    BY <1>24 DEF SendPSeed, senderVars, recverVars
  <2>2. pc'["S"] = "oprf"
    BY <1>24, <1>0 DEF SendPSeed, Goto, Fail
  <2>3. QED
    BY <1>0, <2>1, <2>2, SenderKept
<1>25. CASE RecvPSeed
  <2>1. UNCHANGED <<recvPos, mSeed, mB, mW>> /\ encoded' = encoded
    BY <1>25 DEF RecvPSeed, senderVars, recverVars
  <2>2. pc' = pc \/ \E l : pc' = [pc EXCEPT !["R"] = l]
    BY <1>25 DEF RecvPSeed, Goto, Fail
  <2>3. QED
    BY <1>0, <2>1, <2>2, SenderKept
<1>26. CASE SendP
  <2>1. UNCHANGED <<recvPos, mSeed, mB, mW>> /\ encoded' = encoded
    BY <1>26 DEF SendP, senderVars, recverVars
  <2>2. pc["S"] \in {"evaluate", "sending"} /\ pc'["S"] \in {"sending", "done"}
    BY <1>26, <1>0 DEF SendP, Goto, Fail
  <2>3. QED
    BY <1>0, <2>1, <2>2, SenderKept
<1>27. CASE SolveProgramThrows
  <2>1. UNCHANGED <<recvPos, mSeed, mB, mW>> /\ encoded' = encoded
    BY <1>27 DEF SolveProgramThrows, senderVars, recverVars
  <2>2. pc'["S"] = "failed"
    BY <1>27, <1>0 DEF SolveProgramThrows, Goto, Fail
  <2>3. QED
    BY <1>0, <2>1, <2>2, SenderKept
<1>28. CASE RecvP
  <2>1. UNCHANGED <<recvPos, mSeed, mB, mW>> /\ encoded' = encoded
    BY <1>28 DEF RecvP, senderVars, recverVars
  <2>2. pc' = pc \/ \E l : pc' = [pc EXCEPT !["R"] = l]
    BY <1>28 DEF RecvP, Goto, Fail
  <2>3. QED
    BY <1>0, <2>1, <2>2, SenderKept
<1>29. CASE Expand
  <2>1. UNCHANGED <<recvPos, mSeed, mB, mW>> /\ encoded' = encoded
    BY <1>29 DEF Expand, senderVars, recverVars
  <2>2. pc' = pc \/ \E l : pc' = [pc EXCEPT !["R"] = l]
    BY <1>29 DEF Expand, Goto, Fail
  <2>3. QED
    BY <1>0, <2>1, <2>2, SenderKept
<1>30. CASE AddDecoded
  <2>1. UNCHANGED <<recvPos, mSeed, mB, mW>> /\ encoded' = encoded
    BY <1>30 DEF AddDecoded, senderVars, recverVars
  <2>2. pc' = pc \/ \E l : pc' = [pc EXCEPT !["R"] = l]
    BY <1>30 DEF AddDecoded, Goto, Fail
  <2>3. QED
    BY <1>0, <2>1, <2>2, SenderKept
<1>31. CASE \E X \in Sides : SendSize(X)
  <2>1. UNCHANGED <<recvPos, mSeed, mB, mW>> /\ encoded' = encoded
    BY <1>31 DEF SendSize, senderVars, recverVars
  <2>2. PICK X \in Sides : SendSize(X)
    BY <1>31
  <2>3. pc'["S"] = pc["S"] \/ pc'["S"] \in {"failed", "recvSize", "oprf"}
    BY <1>0, <2>2 DEF SendSize, Goto, Fail
  <2>4. QED
    BY <1>0, <2>1, <2>3, SenderKept
<1>32. CASE \E X \in Sides : OwnSizeWrong(X)
  <2>1. UNCHANGED <<recvPos, mSeed, mB, mW>> /\ encoded' = encoded
    BY <1>32 DEF OwnSizeWrong, Checked, senderVars, recverVars
  <2>2. PICK X \in Sides : OwnSizeWrong(X)
    BY <1>32
  <2>3. pc'["S"] = pc["S"] \/ pc'["S"] \in {"failed", "recvSize", "oprf"}
    BY <1>0, <2>2 DEF OwnSizeWrong, Checked, Goto, Fail
  <2>4. QED
    BY <1>0, <2>1, <2>3, SenderKept
<1>33. CASE \E X \in Sides : RecvSize(X)
  <2>1. UNCHANGED <<recvPos, mSeed, mB, mW>> /\ encoded' = encoded
    BY <1>33 DEF RecvSize, senderVars, recverVars
  <2>2. PICK X \in Sides : RecvSize(X)
    BY <1>33
  <2>3. pc'["S"] = pc["S"] \/ pc'["S"] \in {"failed", "recvSize", "oprf"}
    BY <1>0, <2>2 DEF RecvSize, Goto, Fail
  <2>4. QED
    BY <1>0, <2>1, <2>3, SenderKept
<1>34. CASE \E X \in Sides : PeerSizeWrong(X)
  <2>1. UNCHANGED <<recvPos, mSeed, mB, mW>> /\ encoded' = encoded
    BY <1>34 DEF PeerSizeWrong, senderVars, recverVars
  <2>2. PICK X \in Sides : PeerSizeWrong(X)
    BY <1>34
  <2>3. pc'["S"] = pc["S"] \/ pc'["S"] \in {"failed", "recvSize", "oprf"}
    BY <1>0, <2>2 DEF PeerSizeWrong, Goto, Fail
  <2>4. QED
    BY <1>0, <2>1, <2>3, SenderKept
<1>35. CASE \E X \in Sides : Closes(X)
  <2>1. UNCHANGED <<recvPos, mSeed, mB, mW>> /\ encoded' = encoded
    BY <1>35 DEF Closes, senderVars, recverVars
  <2>2. pc' = pc \/ \E l : pc' = [pc EXCEPT !["R"] = l]
    BY <1>35 DEF Closes, Goto, Fail
  <2>3. QED
    BY <1>0, <2>1, <2>2, SenderKept
<1>36. CASE \E X \in Sides : Dies(X)
  <2>1. UNCHANGED <<recvPos, mSeed, mB, mW>> /\ encoded' = encoded
    BY <1>36 DEF Dies, senderVars, recverVars
  <2>2. PICK X \in Sides : Dies(X)
    BY <1>36
  <2>3. pc'["S"] = pc["S"] \/ pc'["S"] \in {"failed", "recvSize", "oprf"}
    BY <1>0, <2>2 DEF Dies, Goto, Fail
  <2>4. QED
    BY <1>0, <2>1, <2>3, SenderKept
<1>37. QED
  BY <1>1, <1>2, <1>3, <1>4, <1>5, <1>6, <1>7, <1>8, <1>9, <1>10, <1>11, <1>12, <1>13,
      <1>14, <1>15, <1>16, <1>17, <1>18, <1>19, <1>20, <1>21, <1>22, <1>23, <1>24, <1>25,
      <1>26, <1>27, <1>28, <1>29, <1>30, <1>31, <1>32, <1>33, <1>34, <1>35, <1>36 DEF Next,
      Progress, OprfStep, CallerStep

\* A step that leaves the encoding alone.
LEMMA UnmaskedKept ==
  ASSUME TypeInv, UnmaskedInv, Next, UNCHANGED <<p, pBegin, moved, cBegin, encoded>>,
         pc'["R"] \in {"vole", "mask", "sending"} => pc["R"] \in {"vole", "mask", "sending"}
  PROVE  UnmaskedInv'
<1>1. UNCHANGED params /\ Cols' = Cols /\ FewChunks' = FewChunks
  BY ConstantStep DEF params, Cols, FewChunks
<1>2. \A j \in Cols : Enc(j)' = Enc(j)
  BY <1>1, EncKept
<1>3. QED
  BY <1>1, <1>2 DEF UnmaskedInv, params

\* What is still to be masked is as it was encoded.
LEMMA UnmaskedStep ==
  ASSUME IInv, Next, TypeInv'
  PROVE  UnmaskedInv'
<1>0. /\ TypeInv /\ UnmaskedInv /\ UNCHANGED params /\ Cols' = Cols
      /\ FewChunks' = FewChunks /\ Cols \subseteq Nat /\ "S" \in DOMAIN pc /\ "R" \in DOMAIN
          pc
      /\ pc = [X \in Sides |-> pc[X]] /\ "S" # "R" /\ UNCHANGED caller /\ caller \in Callers
  BY ConstantStep, ParamFacts, SidesFacts DEF IInv, params, Cols, FewChunks, TypeInv, PcInv,
      ParamInv
<1>1. CASE SendInit
  <2>1. UNCHANGED <<p, pBegin, moved, cBegin, encoded>>
    BY <1>1 DEF SendInit, recverVars, maskVars, callerVars
  <2>2. pc'["R"] = pc["R"]
    BY <1>1, <1>0 DEF SendInit, Goto, Fail
  <2>3. QED
    BY <1>0, <2>1, <2>2, UnmaskedKept
<1>2. CASE RecvSeed
  <2>1. UNCHANGED <<p, pBegin, moved, cBegin, encoded>>
    BY <1>2 DEF RecvSeed, recverVars, maskVars, callerVars
  <2>2. pc'["R"] = pc["R"]
    BY <1>2, <1>0 DEF RecvSeed, Goto, Fail
  <2>3. QED
    BY <1>0, <2>1, <2>2, UnmaskedKept
<1>3. CASE SendVole
  <2>1. UNCHANGED <<p, pBegin, moved, cBegin, encoded>>
    BY <1>3 DEF SendVole, recverVars, maskVars, callerVars
  <2>2. pc'["R"] = pc["R"]
    BY <1>3, <1>0 DEF SendVole, Goto, Fail
  <2>3. QED
    BY <1>0, <2>1, <2>2, UnmaskedKept
<1>4. CASE RecvW
  <2>1. UNCHANGED <<p, pBegin, moved, cBegin, encoded>>
    BY <1>4 DEF RecvW, recverVars, maskVars, callerVars
  <2>2. pc'["R"] = pc["R"]
    BY <1>4, <1>0 DEF RecvW, Goto, Fail
  <2>3. QED
    BY <1>0, <2>1, <2>2, UnmaskedKept
<1>5. CASE RecvChunk
  <2>1. UNCHANGED <<p, pBegin, moved, cBegin, encoded>>
    BY <1>5 DEF RecvChunk, recverVars, maskVars, callerVars
  <2>2. pc'["R"] = pc["R"]
    BY <1>5, <1>0 DEF RecvChunk, Goto, Fail
  <2>3. QED
    BY <1>0, <2>1, <2>2, UnmaskedKept
<1>6. CASE RecvInit
  <2>1. UNCHANGED <<p, pBegin, moved, cBegin, encoded>>
    BY <1>6 DEF RecvInit, recverVars, maskVars, callerVars
  <2>2. pc'["R"] = pc["R"] \/ pc'["R"] \in {"recvHws", "solve"}
    BY <1>6, <1>0 DEF RecvInit, Goto, Fail
  <2>3. QED
    BY <1>0, <2>1, <2>2, UnmaskedKept
<1>7. CASE RecvHws
  <2>1. UNCHANGED <<p, pBegin, moved, cBegin, encoded>>
    BY <1>7 DEF RecvHws, recverVars, maskVars, callerVars
  <2>2. pc'["R"] = pc["R"] \/ pc'["R"] \in {"solve"}
    BY <1>7, <1>0 DEF RecvHws, Goto, Fail
  <2>3. QED
    BY <1>0, <2>1, <2>2, UnmaskedKept
<1>8. CASE Solve
  <2>1. /\ p' = Encoding /\ encoded' = TRUE /\ UNCHANGED <<pBegin, moved, cBegin>>
        /\ pc["R"] = "solve"
    BY <1>8 DEF Solve
  <2>2. cBegin = 0 /\ pBegin = 0 /\ ~ moved
    BY <1>0, <2>1 DEF TypeInv, SpanInv
  <2>3. \A j \in Cols : p'[j] = Enc(j)'
    <3>1. Encoding' = Encoding
      BY <1>0 DEF Encoding, params, Cols, h
    <3>2. QED
      BY <2>1, <3>1 DEF Enc
  <2>4. QED
    BY <1>0, <2>1, <2>2, <2>3 DEF UnmaskedInv
<1>9. CASE EncodeFails
  <2>1. /\ p' = [j \in Cols |-> {}] /\ UNCHANGED <<encoded, pBegin, moved, cBegin>>
        /\ pc["R"] = "solve"
    BY <1>9 DEF EncodeFails
  <2>2. cBegin = 0 /\ pBegin = 0 /\ ~ moved /\ ~ encoded
    BY <1>0, <2>1 DEF TypeInv, SpanInv
  <2>3. \A j \in Cols : p'[j] = Enc(j)'
    BY <2>1, <2>2 DEF Enc
  <2>4. QED
    BY <1>0, <2>1, <2>2, <2>3 DEF UnmaskedInv
<1>10. CASE SolveThrows
  <2>1. UNCHANGED <<p, pBegin, moved, cBegin, encoded>>
    BY <1>10 DEF SolveThrows, recverVars, maskVars, callerVars
  <2>2. pc'["R"] = pc["R"] \/ pc'["R"] \in {"failed"}
    BY <1>10, <1>0 DEF SolveThrows, Goto, Fail
  <2>3. QED
    BY <1>0, <2>1, <2>2, UnmaskedKept
<1>11. CASE RecvVole
  <2>1. UNCHANGED <<p, pBegin, moved, cBegin, encoded>> /\ pc["R"] \in {"vole", "mask",
      "sending"}
    BY <1>11 DEF RecvVole, recverVars, maskVars
  <2>2. QED
    BY <1>0, <2>1, UnmaskedKept
<1>12. CASE MaskChunk
  <2>1. /\ UNCHANGED <<encoded, params>>
        /\ FewChunks /\ cBegin' < size =>
             pBegin' = cBegin' /\ ~ moved' /\ \A j \in Cols : j >= cBegin' => p'[j] = Enc(j)
    BY <1>12, <1>0, MaskStep DEF MaskChunk
  <2>2. \A j \in Cols : Enc(j)' = Enc(j)
    BY <2>1, EncKept
  <2>3. QED
    BY <1>0, <2>1, <2>2 DEF UnmaskedInv, params
<1>13. CASE SendingEnds
  <2>1. UNCHANGED <<p, pBegin, moved, cBegin, encoded>> /\ pc["R"] \in {"vole", "mask",
      "sending"}
    BY <1>13 DEF SendingEnds, recverVars, maskVars
  <2>2. QED
    BY <1>0, <2>1, UnmaskedKept
<1>14. CASE Decode
  <2>1. UNCHANGED <<p, pBegin, moved, cBegin, encoded>>
    BY <1>14 DEF Decode, recverVars, maskVars, callerVars
  <2>2. pc'["R"] = pc["R"] \/ pc'["R"] \in {"recvWs", "returned"}
    BY <1>14, <1>0 DEF Decode, Goto, Fail
  <2>3. QED
    BY <1>0, <2>1, <2>2, UnmaskedKept
<1>15. CASE RecvWs
  <2>1. UNCHANGED <<p, pBegin, moved, cBegin, encoded>>
    BY <1>15 DEF RecvWs, recverVars, maskVars, callerVars
  <2>2. pc'["R"] = pc["R"] \/ pc'["R"] \in {"returned", "failed"}
    BY <1>15, <1>0 DEF RecvWs, Goto, Fail
  <2>3. QED
    BY <1>0, <2>1, <2>2, UnmaskedKept
<1>16. CASE \E X \in Sides : VoleSend(X)
  <2>1. UNCHANGED <<p, pBegin, moved, cBegin, encoded>>
    BY <1>16 DEF VoleSend, recverVars, maskVars, callerVars
  <2>2. pc'["R"] = pc["R"]
    BY <1>16, <1>0 DEF VoleSend, Goto, Fail
  <2>3. QED
    BY <1>0, <2>1, <2>2, UnmaskedKept
<1>17. CASE \E X \in Sides : VoleRecv(X)
  <2>1. UNCHANGED <<p, pBegin, moved, cBegin, encoded>>
    BY <1>17 DEF VoleRecv, recverVars, maskVars, callerVars
  <2>2. pc'["R"] = pc["R"]
    BY <1>17, <1>0 DEF VoleRecv, Goto, Fail
  <2>3. QED
    BY <1>0, <2>1, <2>2, UnmaskedKept
<1>18. CASE \E X \in Sides : RecvFails(X)
  <2>1. UNCHANGED <<p, pBegin, moved, cBegin, encoded>>
    BY <1>18 DEF RecvFails, recverVars, maskVars, callerVars
  <2>2. PICK X \in Sides : RecvFails(X)
    BY <1>18
  <2>3. pc'["R"] = pc["R"] \/ pc'["R"] \in {"failed"}
    BY <1>0, <2>2 DEF RecvFails, Goto, Fail
  <2>4. QED
    BY <1>0, <2>1, <2>3, UnmaskedKept
<1>19. CASE \E X \in Sides : SendFails(X)
  <2>1. UNCHANGED <<p, pBegin, moved, cBegin, encoded>>
    BY <1>19 DEF SendFails, recverVars, maskVars, callerVars
  <2>2. PICK X \in Sides : SendFails(X)
    BY <1>19
  <2>3. pc'["R"] = pc["R"] \/ pc'["R"] \in {"failed"}
    BY <1>0, <2>2 DEF SendFails, Goto, Fail
  <2>4. QED
    BY <1>0, <2>1, <2>3, UnmaskedKept
<1>20. CASE SendHashes
  <2>1. UNCHANGED <<p, pBegin, moved, cBegin, encoded>>
    BY <1>20 DEF SendHashes, recverVars, maskVars, callerVars
  <2>2. pc'["R"] = pc["R"]
    BY <1>20, <1>0 DEF SendHashes, Goto, Fail
  <2>3. QED
    BY <1>0, <2>1, <2>2, UnmaskedKept
<1>21. CASE SenderSendingEnds
  <2>1. UNCHANGED <<p, pBegin, moved, cBegin, encoded>>
    BY <1>21 DEF SenderSendingEnds, recverVars, maskVars, callerVars
  <2>2. pc'["R"] = pc["R"]
    BY <1>21, <1>0 DEF SenderSendingEnds, Goto, Fail
  <2>3. QED
    BY <1>0, <2>1, <2>2, UnmaskedKept
<1>22. CASE RecverGoesOn
  <2>1. UNCHANGED <<p, pBegin, moved, cBegin, encoded>>
    BY <1>22 DEF RecverGoesOn, recverVars, maskVars, callerVars
  <2>2. pc'["R"] = pc["R"] \/ pc'["R"] \in {"recvHashes", "recvP"}
    BY <1>22, <1>0 DEF RecverGoesOn, Goto, Fail
  <2>3. QED
    BY <1>0, <2>1, <2>2, UnmaskedKept
<1>23. CASE RecvHashes
  <2>1. UNCHANGED <<p, pBegin, moved, cBegin, encoded>>
    BY <1>23 DEF RecvHashes, recverVars, maskVars, callerVars
  <2>2. pc'["R"] = pc["R"] \/ pc'["R"] \in {"done"}
    BY <1>23, <1>0 DEF RecvHashes, Goto, Fail
  <2>3. QED
    BY <1>0, <2>1, <2>2, UnmaskedKept
<1>24. CASE SendPSeed
  <2>1. UNCHANGED <<p, pBegin, moved, cBegin, encoded>>
    BY <1>24 DEF SendPSeed, recverVars, maskVars, callerVars
  <2>2. pc'["R"] = pc["R"]
    BY <1>24, <1>0 DEF SendPSeed, Goto, Fail
  <2>3. QED
    BY <1>0, <2>1, <2>2, UnmaskedKept
<1>25. CASE RecvPSeed
  <2>1. UNCHANGED <<p, pBegin, moved, cBegin, encoded>>
    BY <1>25 DEF RecvPSeed, recverVars, maskVars, callerVars
  <2>2. pc'["R"] = pc["R"] \/ pc'["R"] \in {"oprf"}
    BY <1>25, <1>0 DEF RecvPSeed, Goto, Fail
  <2>3. QED
    BY <1>0, <2>1, <2>2, UnmaskedKept
<1>26. CASE SendP
  <2>1. UNCHANGED <<p, pBegin, moved, cBegin, encoded>>
    BY <1>26 DEF SendP, recverVars, maskVars, callerVars
  <2>2. pc'["R"] = pc["R"]
    BY <1>26, <1>0 DEF SendP, Goto, Fail
  <2>3. QED
    BY <1>0, <2>1, <2>2, UnmaskedKept
<1>27. CASE SolveProgramThrows
  <2>1. UNCHANGED <<p, pBegin, moved, cBegin, encoded>>
    BY <1>27 DEF SolveProgramThrows, recverVars, maskVars, callerVars
  <2>2. pc'["R"] = pc["R"]
    BY <1>27, <1>0 DEF SolveProgramThrows, Goto, Fail
  <2>3. QED
    BY <1>0, <2>1, <2>2, UnmaskedKept
<1>28. CASE RecvP
  <2>1. UNCHANGED <<p, pBegin, moved, cBegin, encoded>>
    BY <1>28 DEF RecvP, recverVars, maskVars, callerVars
  <2>2. pc'["R"] = pc["R"] \/ pc'["R"] \in {"expand"}
    BY <1>28, <1>0 DEF RecvP, Goto, Fail
  <2>3. QED
    BY <1>0, <2>1, <2>2, UnmaskedKept
<1>29. CASE Expand
  <2>1. UNCHANGED <<p, pBegin, moved, cBegin, encoded>>
    BY <1>29 DEF Expand, recverVars, maskVars, callerVars
  <2>2. pc'["R"] = pc["R"]
    BY <1>29, <1>0 DEF Expand, Goto, Fail
  <2>3. QED
    BY <1>0, <2>1, <2>2, UnmaskedKept
<1>30. CASE AddDecoded
  <2>1. UNCHANGED <<p, pBegin, moved, cBegin, encoded>>
    BY <1>30 DEF AddDecoded, recverVars, maskVars, callerVars
  <2>2. pc'["R"] = pc["R"] \/ pc'["R"] \in {"done"}
    BY <1>30, <1>0 DEF AddDecoded, Goto, Fail
  <2>3. QED
    BY <1>0, <2>1, <2>2, UnmaskedKept
<1>31. CASE \E X \in Sides : SendSize(X)
  <2>1. UNCHANGED <<p, pBegin, moved, cBegin, encoded>>
    BY <1>31 DEF SendSize, recverVars, maskVars, callerVars
  <2>2. PICK X \in Sides : SendSize(X)
    BY <1>31
  <2>3. pc'["R"] = pc["R"] \/ pc'["R"] \in {"recvSize"}
    BY <1>0, <2>2 DEF SendSize, Goto, Fail
  <2>4. QED
    BY <1>0, <2>1, <2>3, UnmaskedKept
<1>32. CASE \E X \in Sides : OwnSizeWrong(X)
  <2>1. UNCHANGED <<p, pBegin, moved, cBegin, encoded>>
    BY <1>32 DEF OwnSizeWrong, Checked, recverVars, maskVars, callerVars
  <2>2. PICK X \in Sides : OwnSizeWrong(X)
    BY <1>32
  <2>3. pc'["R"] = pc["R"] \/ pc'["R"] \in {"failed"}
    BY <1>0, <2>2 DEF OwnSizeWrong, Checked, Goto, Fail
  <2>4. QED
    BY <1>0, <2>1, <2>3, UnmaskedKept
<1>33. CASE \E X \in Sides : RecvSize(X)
  <2>1. UNCHANGED <<p, pBegin, moved, cBegin, encoded>>
    BY <1>33 DEF RecvSize, recverVars, maskVars, callerVars
  <2>2. PICK X \in Sides : RecvSize(X)
    BY <1>33
  <2>3. pc'["R"] = pc["R"] \/ pc'["R"] \in {"oprf"}
    BY <1>0, <2>2 DEF RecvSize, Goto, Fail
  <2>4. QED
    BY <1>0, <2>1, <2>3, UnmaskedKept
<1>34. CASE \E X \in Sides : PeerSizeWrong(X)
  <2>1. UNCHANGED <<p, pBegin, moved, cBegin, encoded>>
    BY <1>34 DEF PeerSizeWrong, recverVars, maskVars, callerVars
  <2>2. PICK X \in Sides : PeerSizeWrong(X)
    BY <1>34
  <2>3. pc'["R"] = pc["R"] \/ pc'["R"] \in {"failed"}
    BY <1>0, <2>2 DEF PeerSizeWrong, Goto, Fail
  <2>4. QED
    BY <1>0, <2>1, <2>3, UnmaskedKept
<1>35. CASE \E X \in Sides : Closes(X)
  <2>1. UNCHANGED <<p, pBegin, moved, cBegin, encoded>>
    BY <1>35 DEF Closes, recverVars, maskVars, callerVars
  <2>2. pc'["R"] = pc["R"]
    BY <1>35, <1>0 DEF Closes, Goto, Fail
  <2>3. QED
    BY <1>0, <2>1, <2>2, UnmaskedKept
<1>36. CASE \E X \in Sides : Dies(X)
  <2>1. UNCHANGED <<p, pBegin, moved, cBegin, encoded>>
    BY <1>36 DEF Dies, recverVars, maskVars, callerVars
  <2>2. PICK X \in Sides : Dies(X)
    BY <1>36
  <2>3. pc'["R"] = pc["R"] \/ pc'["R"] \in {"failed"}
    BY <1>0, <2>2 DEF Dies, Goto, Fail
  <2>4. QED
    BY <1>0, <2>1, <2>3, UnmaskedKept
<1>37. QED
  BY <1>1, <1>2, <1>3, <1>4, <1>5, <1>6, <1>7, <1>8, <1>9, <1>10, <1>11, <1>12, <1>13,
      <1>14, <1>15, <1>16, <1>17, <1>18, <1>19, <1>20, <1>21, <1>22, <1>23, <1>24, <1>25,
      <1>26, <1>27, <1>28, <1>29, <1>30, <1>31, <1>32, <1>33, <1>34, <1>35, <1>36 DEF Next,
      Progress, OprfStep, CallerStep

\* A step that leaves the outputs alone.
LEMMA OutputKept ==
  ASSUME TypeInv, OutputInv, Next, UNCHANGED <<outputs, oprfOutput>>,
         \/ pc'["R"] = pc["R"]
         \/ pc'["R"] \in RecverPcs \ {"recvWs", "returned", "recvHashes", "recvP", "expand",
                                      "done"}
         \/ pc'["R"] \in {"expand", "done"} /\ pc["R"] \in {"recvHashes", "recvP", "expand"}
  PROVE  OutputInv'
<1>1. UNCHANGED params
  BY ConstantStep
<1>2. /\ [v \in values |-> Decoded(v)]' = [v \in values |-> Decoded(v)]
      /\ [v \in values |-> Finish(Decoded(v), XOR(ws, wr), v)]'
           = [v \in values |-> Finish(Decoded(v), XOR(ws, wr), v)]
  BY <1>1 DEF params, Decoded, XorOver, Cols, a, Finish, XOR, ws, wr, Hv, H
<1>3. UNCHANGED outputs =>
        [k \in 0 .. n - 1 |-> outputs[Value(k)]]' = [k \in 0 .. n - 1 |-> outputs[Value(k)]]
  BY <1>1 DEF params, Value, n
<1>4. QED
  BY <1>2, <1>3 DEF OutputInv, RecverPcs

\* The receiver's outputs are the hashes of its decoded rows.
LEMMA OutputStep ==
  ASSUME IInv, Next, TypeInv'
  PROVE  OutputInv'
<1>0. /\ TypeInv /\ OutputInv /\ UNCHANGED params /\ Cols' = Cols
      /\ FewChunks' = FewChunks /\ Cols \subseteq Nat /\ "S" \in DOMAIN pc /\ "R" \in DOMAIN
          pc
      /\ pc = [X \in Sides |-> pc[X]] /\ "S" # "R" /\ UNCHANGED caller /\ caller \in Callers
  BY ConstantStep, ParamFacts, SidesFacts DEF IInv, params, Cols, FewChunks, TypeInv, PcInv,
      ParamInv
<1>00. /\ [v \in values |-> Decoded(v)]' = [v \in values |-> Decoded(v)]
      /\ [v \in values |-> Finish(Decoded(v), XOR(ws, wr), v)]'
           = [v \in values |-> Finish(Decoded(v), XOR(ws, wr), v)]
  BY <1>0 DEF params, Decoded, XorOver, Cols, a, Finish, XOR, ws, wr, Hv, H
<1>1. CASE SendInit /\ UNCHANGED callerVars
  <2>1. UNCHANGED <<outputs, oprfOutput>>
    BY <1>1 DEF SendInit, recverVars, maskVars, callerVars
  <2>2. pc'["R"] = pc["R"]
    BY <1>1, <1>0 DEF SendInit, Goto, Fail
  <2>3. QED
    BY <1>0, <2>1, <2>2, OutputKept DEF RecverPcs
<1>2. CASE RecvSeed /\ UNCHANGED callerVars
  <2>1. UNCHANGED <<outputs, oprfOutput>>
    BY <1>2 DEF RecvSeed, recverVars, maskVars, callerVars
  <2>2. pc'["R"] = pc["R"]
    BY <1>2, <1>0 DEF RecvSeed, Goto, Fail
  <2>3. QED
    BY <1>0, <2>1, <2>2, OutputKept DEF RecverPcs
<1>3. CASE SendVole /\ UNCHANGED callerVars
  <2>1. UNCHANGED <<outputs, oprfOutput>>
    BY <1>3 DEF SendVole, recverVars, maskVars, callerVars
  <2>2. pc'["R"] = pc["R"]
    BY <1>3, <1>0 DEF SendVole, Goto, Fail
  <2>3. QED
    BY <1>0, <2>1, <2>2, OutputKept DEF RecverPcs
<1>4. CASE RecvW /\ UNCHANGED callerVars
  <2>1. UNCHANGED <<outputs, oprfOutput>>
    BY <1>4 DEF RecvW, recverVars, maskVars, callerVars
  <2>2. pc'["R"] = pc["R"]
    BY <1>4, <1>0 DEF RecvW, Goto, Fail
  <2>3. QED
    BY <1>0, <2>1, <2>2, OutputKept DEF RecverPcs
<1>5. CASE RecvChunk /\ UNCHANGED callerVars
  <2>1. UNCHANGED <<outputs, oprfOutput>>
    BY <1>5 DEF RecvChunk, recverVars, maskVars, callerVars
  <2>2. pc'["R"] = pc["R"]
    BY <1>5, <1>0 DEF RecvChunk, Goto, Fail
  <2>3. QED
    BY <1>0, <2>1, <2>2, OutputKept DEF RecverPcs
<1>6. CASE RecvInit /\ UNCHANGED callerVars
  <2>1. UNCHANGED <<outputs, oprfOutput>>
    BY <1>6 DEF RecvInit, recverVars, maskVars, callerVars
  <2>2. pc'["R"] = pc["R"] \/ pc'["R"] \in {"recvHws", "solve"}
    BY <1>6, <1>0 DEF RecvInit, Goto, Fail
  <2>3. QED
    BY <1>0, <2>1, <2>2, OutputKept DEF RecverPcs
<1>7. CASE RecvHws /\ UNCHANGED callerVars
  <2>1. UNCHANGED <<outputs, oprfOutput>>
    BY <1>7 DEF RecvHws, recverVars, maskVars, callerVars
  <2>2. pc'["R"] = pc["R"] \/ pc'["R"] \in {"solve"}
    BY <1>7, <1>0 DEF RecvHws, Goto, Fail
  <2>3. QED
    BY <1>0, <2>1, <2>2, OutputKept DEF RecverPcs
<1>8. CASE Solve /\ UNCHANGED callerVars
  <2>1. UNCHANGED <<outputs, oprfOutput>>
    BY <1>8 DEF Solve, recverVars, maskVars, callerVars
  <2>2. pc'["R"] = pc["R"] \/ pc'["R"] \in {"vole"}
    BY <1>8, <1>0 DEF Solve, Goto, Fail
  <2>3. QED
    BY <1>0, <2>1, <2>2, OutputKept DEF RecverPcs
<1>9. CASE EncodeFails /\ UNCHANGED callerVars
  <2>1. UNCHANGED <<outputs, oprfOutput>>
    BY <1>9 DEF EncodeFails, recverVars, maskVars, callerVars
  <2>2. pc'["R"] = pc["R"] \/ pc'["R"] \in {"vole"}
    BY <1>9, <1>0 DEF EncodeFails, Goto, Fail
  <2>3. QED
    BY <1>0, <2>1, <2>2, OutputKept DEF RecverPcs
<1>10. CASE SolveThrows /\ UNCHANGED callerVars
  <2>1. UNCHANGED <<outputs, oprfOutput>>
    BY <1>10 DEF SolveThrows, recverVars, maskVars, callerVars
  <2>2. pc'["R"] = pc["R"] \/ pc'["R"] \in {"failed"}
    BY <1>10, <1>0 DEF SolveThrows, Goto, Fail
  <2>3. QED
    BY <1>0, <2>1, <2>2, OutputKept DEF RecverPcs
<1>11. CASE RecvVole /\ UNCHANGED callerVars
  <2>1. UNCHANGED <<outputs, oprfOutput>>
    BY <1>11 DEF RecvVole, recverVars, maskVars, callerVars
  <2>2. pc'["R"] = pc["R"] \/ pc'["R"] \in {"mask"}
    BY <1>11, <1>0 DEF RecvVole, Goto, Fail
  <2>3. QED
    BY <1>0, <2>1, <2>2, OutputKept DEF RecverPcs
<1>12. CASE MaskChunk /\ UNCHANGED callerVars
  <2>1. UNCHANGED <<outputs, oprfOutput>> /\ (Goto("R", "mask") \/ Goto("R", "sending"))
    BY <1>12 DEF MaskChunk, callerVars
  <2>2. pc'["R"] \in {"mask", "sending"}
    BY <1>0, <2>1 DEF Goto
  <2>3. QED
    BY <1>0, <2>1, <2>2, OutputKept DEF RecverPcs
<1>13. CASE SendingEnds /\ UNCHANGED callerVars
  <2>1. UNCHANGED <<outputs, oprfOutput>>
    BY <1>13 DEF SendingEnds, recverVars, maskVars, callerVars
  <2>2. pc'["R"] = pc["R"] \/ pc'["R"] \in {"mask"}
    BY <1>13, <1>0 DEF SendingEnds, Goto, Fail
  <2>3. QED
    BY <1>0, <2>1, <2>2, OutputKept DEF RecverPcs
<1>14. CASE Decode /\ UNCHANGED callerVars
  <2>1. /\ outputs' = [v \in values |-> IF mMalicious THEN Decoded(v) ELSE H(Decoded(v))]
        /\ pc'["R"] = IF mMalicious THEN "recvWs" ELSE "returned"
    BY <1>14, <1>0 DEF Decode, Goto
  <2>2. CASE mMalicious
    BY <1>0, <2>1, <2>2, <1>00 DEF OutputInv
  <2>3. CASE ~ mMalicious
    <3>1. outputs' = [v \in values |-> Finish(Decoded(v), XOR(ws, wr), v)]
      BY <2>1, <2>3 DEF Finish
    <3>2. QED
      BY <1>0, <2>1, <2>3, <3>1, <1>00 DEF OutputInv
  <2>4. QED
    BY <2>2, <2>3
<1>15. CASE RecvWs /\ UNCHANGED callerVars
  <2>1. CASE H(Received("R")) # Hws
    <3>1. UNCHANGED <<outputs, oprfOutput>> /\ pc'["R"] = "failed"
      BY <1>15, <2>1, <1>0 DEF RecvWs, Fail, Goto, callerVars
    <3>2. QED
      BY <1>0, <3>1, OutputKept DEF RecverPcs
  <2>2. CASE H(Received("R")) = Hws
    <3>1. /\ outputs' = [v \in values |-> Finish(outputs[v], XOR(Received("R"), wr), v)]
          /\ pc["R"] = "recvWs" /\ pc'["R"] = "returned"
      BY <1>15, <2>2, <1>0 DEF RecvWs, Goto
    <3>2. mMalicious /\ outputs = [v \in values |-> Decoded(v)]
      BY <1>0, <3>1 DEF OutputInv, TypeInv, PcInv
    <3>3. Got("R") = 2 /\ Body("R", Got("R"), Received("R"))
      BY <1>15, <1>0, <3>1, <3>2, HeadSays DEF RecvWs, Got, Sides
    <3>4. Received("R") = ws
      BY <1>0, <3>3 DEF Body
    <3>5. outputs' = [v \in values |-> Finish(Decoded(v), XOR(ws, wr), v)]
      BY <3>1, <3>2, <3>4
    <3>6. QED
      BY <3>1, <3>5, <1>00 DEF OutputInv
  <2>3. QED
    BY <2>1, <2>2
<1>16. CASE (\E X \in Sides : VoleSend(X)) /\ UNCHANGED callerVars
  <2>1. UNCHANGED <<outputs, oprfOutput>>
    BY <1>16 DEF VoleSend, recverVars, maskVars, callerVars
  <2>2. pc'["R"] = pc["R"]
    BY <1>16, <1>0 DEF VoleSend, Goto, Fail
  <2>3. QED
    BY <1>0, <2>1, <2>2, OutputKept DEF RecverPcs
<1>17. CASE (\E X \in Sides : VoleRecv(X)) /\ UNCHANGED callerVars
  <2>1. UNCHANGED <<outputs, oprfOutput>>
    BY <1>17 DEF VoleRecv, recverVars, maskVars, callerVars
  <2>2. pc'["R"] = pc["R"]
    BY <1>17, <1>0 DEF VoleRecv, Goto, Fail
  <2>3. QED
    BY <1>0, <2>1, <2>2, OutputKept DEF RecverPcs
<1>18. CASE (\E X \in Sides : RecvFails(X)) /\ UNCHANGED callerVars
  <2>1. UNCHANGED <<outputs, oprfOutput>>
    BY <1>18 DEF RecvFails, recverVars, maskVars, callerVars
  <2>2. PICK X \in Sides : RecvFails(X)
    BY <1>18
  <2>3. pc'["R"] = pc["R"] \/ pc'["R"] \in {"failed"}
    BY <1>0, <2>2 DEF RecvFails, Goto, Fail
  <2>4. QED
    BY <1>0, <2>1, <2>3, OutputKept DEF RecverPcs
<1>19. CASE (\E X \in Sides : SendFails(X)) /\ UNCHANGED callerVars
  <2>1. UNCHANGED <<outputs, oprfOutput>>
    BY <1>19 DEF SendFails, recverVars, maskVars, callerVars
  <2>2. PICK X \in Sides : SendFails(X)
    BY <1>19
  <2>3. pc'["R"] = pc["R"] \/ pc'["R"] \in {"failed"}
    BY <1>0, <2>2 DEF SendFails, Goto, Fail
  <2>4. QED
    BY <1>0, <2>1, <2>3, OutputKept DEF RecverPcs
<1>20. CASE SendHashes
  <2>1. UNCHANGED <<outputs, oprfOutput>>
    BY <1>20 DEF SendHashes, recverVars, maskVars, callerVars
  <2>2. pc'["R"] = pc["R"]
    BY <1>20, <1>0 DEF SendHashes, Goto, Fail
  <2>3. QED
    BY <1>0, <2>1, <2>2, OutputKept DEF RecverPcs
<1>21. CASE SenderSendingEnds
  <2>1. UNCHANGED <<outputs, oprfOutput>>
    BY <1>21 DEF SenderSendingEnds, recverVars, maskVars, callerVars
  <2>2. pc'["R"] = pc["R"]
    BY <1>21, <1>0 DEF SenderSendingEnds, Goto, Fail
  <2>3. QED
    BY <1>0, <2>1, <2>2, OutputKept DEF RecverPcs
<1>22. CASE RecverGoesOn
  <2>1. /\ pc["R"] = "returned" /\ oprfOutput' = [k \in 0 .. n - 1 |-> outputs[Value(k)]]
        /\ UNCHANGED outputs
    BY <1>22 DEF RecverGoesOn, recverVars
  <2>2. pc'["R"] \in {"recvHashes", "recvP"}
    BY <1>22, <1>0 DEF RecverGoesOn, Goto
  <2>3. outputs = [v \in values |-> Finish(Decoded(v), XOR(ws, wr), v)]
    BY <1>0, <2>1 DEF OutputInv
  <2>4. [k \in 0 .. n - 1 |-> outputs[Value(k)]]' = [k \in 0 .. n - 1 |-> outputs[Value(k)]]
    BY <1>0, <2>1 DEF params, Value, n
  <2>5. QED
    BY <2>1, <2>2, <2>3, <2>4, <1>00 DEF OutputInv
<1>23. CASE RecvHashes
  <2>1. UNCHANGED <<outputs, oprfOutput>> /\ pc["R"] \in {"recvHashes", "recvP", "expand"}
    BY <1>23 DEF RecvHashes, recverVars
  <2>2. pc'["R"] \in {"expand", "done"}
    BY <1>23, <1>0 DEF RecvHashes, Goto
  <2>3. QED
    BY <1>0, <2>1, <2>2, OutputKept
<1>24. CASE SendPSeed
  <2>1. UNCHANGED <<outputs, oprfOutput>>
    BY <1>24 DEF SendPSeed, recverVars, maskVars, callerVars
  <2>2. pc'["R"] = pc["R"]
    BY <1>24, <1>0 DEF SendPSeed, Goto, Fail
  <2>3. QED
    BY <1>0, <2>1, <2>2, OutputKept DEF RecverPcs
<1>25. CASE RecvPSeed
  <2>1. UNCHANGED <<outputs, oprfOutput>>
    BY <1>25 DEF RecvPSeed, recverVars, maskVars, callerVars
  <2>2. pc'["R"] = pc["R"] \/ pc'["R"] \in {"oprf"}
    BY <1>25, <1>0 DEF RecvPSeed, Goto, Fail
  <2>3. QED
    BY <1>0, <2>1, <2>2, OutputKept DEF RecverPcs
<1>26. CASE SendP
  <2>1. UNCHANGED <<outputs, oprfOutput>>
    BY <1>26 DEF SendP, recverVars, maskVars, callerVars
  <2>2. pc'["R"] = pc["R"]
    BY <1>26, <1>0 DEF SendP, Goto, Fail
  <2>3. QED
    BY <1>0, <2>1, <2>2, OutputKept DEF RecverPcs
<1>27. CASE SolveProgramThrows
  <2>1. UNCHANGED <<outputs, oprfOutput>>
    BY <1>27 DEF SolveProgramThrows, recverVars, maskVars, callerVars
  <2>2. pc'["R"] = pc["R"]
    BY <1>27, <1>0 DEF SolveProgramThrows, Goto, Fail
  <2>3. QED
    BY <1>0, <2>1, <2>2, OutputKept DEF RecverPcs
<1>28. CASE RecvP
  <2>1. UNCHANGED <<outputs, oprfOutput>> /\ pc["R"] \in {"recvHashes", "recvP", "expand"}
    BY <1>28 DEF RecvP, recverVars
  <2>2. pc'["R"] \in {"expand", "done"}
    BY <1>28, <1>0 DEF RecvP, Goto
  <2>3. QED
    BY <1>0, <2>1, <2>2, OutputKept
<1>29. CASE Expand
  <2>1. UNCHANGED <<outputs, oprfOutput>>
    BY <1>29 DEF Expand, recverVars, maskVars, callerVars
  <2>2. pc'["R"] = pc["R"]
    BY <1>29, <1>0 DEF Expand, Goto, Fail
  <2>3. QED
    BY <1>0, <2>1, <2>2, OutputKept DEF RecverPcs
<1>30. CASE AddDecoded
  <2>1. UNCHANGED <<outputs, oprfOutput>> /\ pc["R"] \in {"recvHashes", "recvP", "expand"}
    BY <1>30 DEF AddDecoded, recverVars
  <2>2. pc'["R"] \in {"expand", "done"}
    BY <1>30, <1>0 DEF AddDecoded, Goto
  <2>3. QED
    BY <1>0, <2>1, <2>2, OutputKept
<1>31. CASE \E X \in Sides : SendSize(X)
  <2>1. UNCHANGED <<outputs, oprfOutput>>
    BY <1>31 DEF SendSize, recverVars, maskVars, callerVars
  <2>2. PICK X \in Sides : SendSize(X)
    BY <1>31
  <2>3. pc'["R"] = pc["R"] \/ pc'["R"] \in {"recvSize"}
    BY <1>0, <2>2 DEF SendSize, Goto, Fail
  <2>4. QED
    BY <1>0, <2>1, <2>3, OutputKept DEF RecverPcs
<1>32. CASE \E X \in Sides : OwnSizeWrong(X)
  <2>1. UNCHANGED <<outputs, oprfOutput>>
    BY <1>32 DEF OwnSizeWrong, Checked, recverVars, maskVars, callerVars
  <2>2. PICK X \in Sides : OwnSizeWrong(X)
    BY <1>32
  <2>3. pc'["R"] = pc["R"] \/ pc'["R"] \in {"failed"}
    BY <1>0, <2>2 DEF OwnSizeWrong, Checked, Goto, Fail
  <2>4. QED
    BY <1>0, <2>1, <2>3, OutputKept DEF RecverPcs
<1>33. CASE \E X \in Sides : RecvSize(X)
  <2>1. UNCHANGED <<outputs, oprfOutput>>
    BY <1>33 DEF RecvSize, recverVars, maskVars, callerVars
  <2>2. PICK X \in Sides : RecvSize(X)
    BY <1>33
  <2>3. pc'["R"] = pc["R"] \/ pc'["R"] \in {"oprf"}
    BY <1>0, <2>2 DEF RecvSize, Goto, Fail
  <2>4. QED
    BY <1>0, <2>1, <2>3, OutputKept DEF RecverPcs
<1>34. CASE \E X \in Sides : PeerSizeWrong(X)
  <2>1. UNCHANGED <<outputs, oprfOutput>>
    BY <1>34 DEF PeerSizeWrong, recverVars, maskVars, callerVars
  <2>2. PICK X \in Sides : PeerSizeWrong(X)
    BY <1>34
  <2>3. pc'["R"] = pc["R"] \/ pc'["R"] \in {"failed"}
    BY <1>0, <2>2 DEF PeerSizeWrong, Goto, Fail
  <2>4. QED
    BY <1>0, <2>1, <2>3, OutputKept DEF RecverPcs
<1>35. CASE \E X \in Sides : Closes(X)
  <2>1. UNCHANGED <<outputs, oprfOutput>>
    BY <1>35 DEF Closes, recverVars, maskVars, callerVars
  <2>2. pc'["R"] = pc["R"]
    BY <1>35, <1>0 DEF Closes, Goto, Fail
  <2>3. QED
    BY <1>0, <2>1, <2>2, OutputKept DEF RecverPcs
<1>36. CASE \E X \in Sides : Dies(X)
  <2>1. UNCHANGED <<outputs, oprfOutput>>
    BY <1>36 DEF Dies, recverVars, maskVars, callerVars
  <2>2. PICK X \in Sides : Dies(X)
    BY <1>36
  <2>3. pc'["R"] = pc["R"] \/ pc'["R"] \in {"failed"}
    BY <1>0, <2>2 DEF Dies, Goto, Fail
  <2>4. QED
    BY <1>0, <2>1, <2>3, OutputKept DEF RecverPcs
<1>37. QED
  BY <1>1, <1>2, <1>3, <1>4, <1>5, <1>6, <1>7, <1>8, <1>9, <1>10, <1>11, <1>12, <1>13,
      <1>14, <1>15, <1>16, <1>17, <1>18, <1>19, <1>20, <1>21, <1>22, <1>23, <1>24, <1>25,
      <1>26, <1>27, <1>28, <1>29, <1>30, <1>31, <1>32, <1>33, <1>34, <1>35, <1>36 DEF Next,
      Progress, OprfStep, CallerStep

-----------------------------------------------------------------------------
(* The invariant. *)

\* It holds at the start: nothing is on its way, and each side is about to
\* receive what the other is about to send.
LEMMA InitIInv == Init => IInv
<1> SUFFICES ASSUME Init PROVE IInv
  OBVIOUS
<1>1. TypeInv
  BY InitTypeInv
<1>2. /\ \A X \in Sides : inbox[X] = << >> /\ vole[X] = 0 /\ Peer(X) \in Sides
      /\ recvPos = 0 /\ cBegin = 0 /\ Len(script) \in Nat
      /\ \/ pc["S"] = "size" /\ pc["R"] = "size"
         \/ pc["S"] = "sendPSeed" /\ pc["R"] = "recvPSeed"
  BY <1>1, ParamFacts, SidesFacts DEF Init, OprfInit, TypeInv
<1>3. VoleInv
  <2>1. ASSUME NEW X \in Sides
        PROVE  \E g : VoleTrail(X, inbox[X], g, vole[X], vole[Peer(X)])
    <3> DEFINE g == [k \in 1 .. 0 |-> 0]
    <3>1. VoleTrail(X, << >>, g, 0, 0)
      BY DEF VoleTrail
    <3>2. QED
      BY <1>2, <3>1
  <2>2. \A X \in Sides : \A j \in 1 .. Len(script) : ~ (j < vole[X])
    BY <1>2
  <2>3. QED
    BY <2>1, <2>2 DEF VoleInv
<1>4. QueueInv
  <2>1. ASSUME NEW X \in Sides PROVE \E f : Trails(X, f)
    <3>1. PICK s \in Nat : s = Got(X)
      BY <1>2 DEF Got, Sides
    <3>2. s = SentBy(Peer(X))
      BY <1>2, <3>1 DEF Got, SentBy, Sides, Peer
    <3> DEFINE f == [k \in 0 .. 0 |-> s]
    <3>3. f[0] = s /\ f \in [0 .. 0 -> Nat]
      OBVIOUS
    <3> HIDE DEF f
    <3>4. IsTrail(X, << >>, f) /\ Contents(X, << >>, f)
      BY <3>3 DEF IsTrail, Contents
    <3>5. f[Len(<< >>)] = s
      BY <3>3
    <3>6. Trails(X, f)
      BY <1>2, <3>1, <3>2, <3>3, <3>4, <3>5 DEF Trails
    <3>7. QED
      BY <3>6
  <2>2. QED
    BY <2>1 DEF QueueInv
<1>5. UnmaskedInv /\ SenderInv /\ OutputInv
  BY <1>2 DEF UnmaskedInv, SenderInv, OutputInv
<1>6. QED
  BY <1>1, <1>3, <1>4, <1>5 DEF IInv

\* A step in which nothing happens.
LEMMA StutteringStep ==
  ASSUME IInv, UNCHANGED vars
  PROVE  IInv'
<1>1. UNCHANGED <<params, inbox, open, pc, vole, mSeed, mB, recvPos, mW, Hws, encoded, p, pBegin,
                  pSize, moved, cBegin, outputs, caller, theirs, sizesAgree, m, mIntersection,
                  oprfOutput, okvs, mem, expanded>>
  BY DEF vars, senderVars, recverVars, maskVars, callerVars
<1>2. UNCHANGED <<mOKVSType, mMalicious, size, script, values>> /\ Cols' = Cols
      /\ FewChunks' = FewChunks
  BY <1>1 DEF params, Cols, FewChunks
<1>3. TypeInv'
  BY <1>1, <1>2 DEF IInv, TypeInv, InboxInv, ParamInv, PcInv, CursorInv, SpanInv, ArrayInv,
      VoleDone, Cols, n, Bytes
<1>4. VoleInv'
  BY <1>1, <1>2 DEF IInv, VoleInv, VoleTrail
<1>5. \A j \in Cols : Enc(j)' = Enc(j)
  BY <1>1, EncKept
<1>6. ASSUME NEW X, NEW s, NEW b, Body(X, s, b) PROVE Body(X, s, b)'
  <2>1. CASE X = "S"
    <3>1. \A j : Enc(j)' = Enc(j)
      BY <1>1, <1>2 DEF Enc, Encoding, Cols, h
    <3>2. QED
      BY <1>1, <1>2, <1>6, <2>1, <3>1 DEF Body, HashingSeed, wr, c, Lesser, XOR
  <2>2. CASE X # "S"
    <3>1. Ready => Ready'
      BY <1>1, ReadyKept
    <3>2. \A v : Eval(v)' = Eval(v) /\ Programmed(v)' = Programmed(v)
      BY <1>1, EvalKept, ProgrammedKept
    <3>3. QED
      BY <1>1, <1>6, <2>2, <3>1, <3>2 DEF Body, ws
  <2>3. QED
    BY <2>1, <2>2
<1>7. QueueInv'
  <2>1. ASSUME NEW X, NEW f, Trails(X, f) PROVE Trails(X, f)'
    <3>1. IsTrail(X, inbox[X], f)'
      BY <1>1, <1>2, <2>1 DEF Trails, IsTrail, Due, Following, Lesser
    <3>2. Contents(X, inbox[X], f)'
      BY <1>1, <1>6, <2>1 DEF Trails, Contents
    <3>3. Got(X)' = Got(X) /\ SentBy(Peer(X))' = SentBy(Peer(X))
      BY <1>1, <1>2 DEF Got, SentBy
    <3>4. QED
      BY <1>1, <2>1, <3>1, <3>2, <3>3 DEF Trails
  <2>2. QED
    BY <1>1, <2>1 DEF IInv, QueueInv
<1>8. UnmaskedInv' /\ SenderInv'
  BY <1>1, <1>2, <1>5 DEF IInv, UnmaskedInv, SenderInv, HashingSeed, XOR, wr, ws, Tagged, a, c, Mul
<1>9. OutputInv'
  <2>1. /\ [v \in values |-> Decoded(v)]' = [v \in values |-> Decoded(v)]
        /\ [v \in values |-> Finish(Decoded(v), XOR(ws, wr), v)]'
             = [v \in values |-> Finish(Decoded(v), XOR(ws, wr), v)]
    BY <1>2 DEF Decoded, XorOver, a, Finish, XOR, ws, wr, Hv, H
  <2>2. [k \in 0 .. n - 1 |-> outputs[Value(k)]]' = [k \in 0 .. n - 1 |-> outputs[Value(k)]]
    BY <1>1, <1>2 DEF Value, n
  <2>3. QED
    BY <1>1, <2>1, <2>2 DEF IInv, OutputInv
<1>10. QED
  BY <1>3, <1>4, <1>7, <1>8, <1>9 DEF IInv

\* The invariant holds in every state of every run.
THEOREM IInvHolds == Spec => []IInv
<1>1. IInv /\ [Next]_vars => IInv'
  <2> SUFFICES ASSUME IInv, [Next]_vars PROVE IInv'
    OBVIOUS
  <2>1. CASE Next
    <3>1. TypeInv'
      <4>1. ParamInv'
        BY <2>1, ConstantStep DEF IInv, TypeInv, ParamInv, params
      <4>2. QED
        BY <2>1, <4>1, PcStep, CursorStep, SpanStep, ArrayStep, InboxStep DEF IInv, TypeInv
    <3>2. QED
      BY <2>1, <3>1, VoleStep, QueueStep, UnmaskedStep, SenderStep, OutputStep DEF IInv
  <2>2. CASE UNCHANGED vars
    BY <2>2, StutteringStep
  <2>3. QED
    BY <2>1, <2>2
<1>2. QED
  BY <1>1, InitIInv, PTL DEF Spec

\* A side that is done has read all that was sent to it: the next message of
\* the main slot would have a number past the last one, the next of the VOLE a
\* place past the end of its script.
THEOREM DrainedAtEndHolds == Spec => []DrainedAtEnd
<1>1. IInv => DrainedAtEnd
  <2> SUFFICES ASSUME IInv, NEW X \in Sides, pc[X] = "done", inbox[X] # << >>
               PROVE  FALSE
    BY DEF DrainedAtEnd
  <2>1. /\ size \in Nat /\ Len(script) \in Nat /\ vole[X] = Len(script) + 1
        /\ IsSeq(inbox[X]) /\ pc[X] # "failed"
    <3>1. TypeInv /\ "done" # "failed"
      BY DEF IInv
    <3>2. CASE X = "S"
      BY <3>1, <3>2, ParamFacts DEF TypeInv, CursorInv, SpanInv, InboxInv, VoleDone
    <3>3. CASE X = "R"
      <4>1. VoleDone("R") /\ size \in Nat /\ Len(script) \in Nat /\ IsSeq(inbox["R"])
        BY <3>1, <3>3, ParamFacts DEF TypeInv, CursorInv, InboxInv
      <4>2. QED
        BY <3>1, <3>3, <4>1 DEF VoleDone
    <3>4. QED
      BY <3>2, <3>3 DEF Sides
  <2>2. 1 \in 1 .. Len(inbox[X])
    BY <2>1, SequenceFacts
  <2>3. CASE inbox[X][1][1] = "main"
    <3>1. PICK f : Trails(X, f)
      BY <2>1 DEF IInv, QueueInv
    <3>2. Due(X, f[1 - 1]) /\ f[1 - 1] = Got(X)
      BY <2>2, <2>3, <3>1 DEF Trails, IsTrail
    <3>3. QED
      BY <2>1, <3>2 DEF Due, Got, Sides
  <2>4. CASE inbox[X][1][1] = "vole"
    <3>1. PICK g : VoleTrail(X, inbox[X], g, vole[X], vole[Peer(X)])
      BY <2>1 DEF IInv, VoleInv
    <3>2. g[1] >= vole[X] /\ g[1] <= Len(script) /\ g[1] \in Nat
      BY <2>2, <2>4, <3>1 DEF VoleTrail
    <3>3. QED
      BY <2>1, <3>2
  <2>5. inbox[X][1][1] \in {"main", "vole"}
    <3>1. PICK f : Trails(X, f)
      BY <2>1 DEF IInv, QueueInv
    <3>2. QED
      BY <2>2, <3>1 DEF Trails, IsTrail
  <2>6. QED
    BY <2>3, <2>4, <2>5
<1>2. QED
  BY <1>1, IInvHolds, PTL

-----------------------------------------------------------------------------
(* The function the two sides compute. *)

\* An atom that one block has alone is in the sum of the blocks if that one is.
LEMMA XorOverAlone ==
  ASSUME NEW f, NEW T, NEW s, NEW i, \A j \in T : s \in f[j] => j = i
  PROVE  s \in XorOver(f, T) <=> i \in T /\ s \in f[i]
<1>1. CASE i \in T /\ s \in f[i]
  <2>1. {j \in T : s \in f[j]} = {i}
    BY <1>1
  <2>2. Cardinality({j \in T : s \in f[j]}) = 1
    BY <2>1, FS_Singleton
  <2>3. s \in UNION {f[j] : j \in T} /\ 1 % 2 = 1
    BY <1>1
  <2>4. QED
    BY <1>1, <2>2, <2>3 DEF XorOver
<1>2. CASE ~ (i \in T /\ s \in f[i])
  <2>1. {j \in T : s \in f[j]} = {}
    BY <1>2
  <2>2. Cardinality({j \in T : s \in f[j]}) = 0 /\ 0 % 2 = 0
    BY <2>1, FS_EmptySet
  <2>3. QED
    BY <1>2, <2>2 DEF XorOver
<1>3. QED
  BY <1>1, <1>2

\* The columns of a value, and the one it has alone.
LEMMA RowFacts ==
  ASSUME TypeInv, NEW v \in Items
  PROVE  /\ Row(size, v) \subseteq Cols /\ Own(size, v) \in Row(size, v)
         /\ \A w \in Items : Own(size, v) \in Row(size, w) => v = w
<1>1. size \in Sizes
  BY DEF TypeInv, ParamInv
<1>2. QED
  BY <1>1, RowAssumption DEF Cols

\* The receiver decodes the blocks a of the columns of a value.
LEMMA DecodedAtoms ==
  ASSUME TypeInv, NEW v \in Items
  PROVE  Decoded(v) = {<<"a", j>> : j \in Row(size, v)}
<1> DEFINE A == [j \in Cols |-> a(j)]
           R == Row(size, v)
<1>1. R \subseteq Cols
  BY RowFacts
<1>2. \A j \in R : A[j] = {<<"a", j>>}
  BY <1>1 DEF a
<1>3. \A s \in XorOver(A, R) : \E j \in R : s \in A[j]
  BY DEF XorOver
<1> HIDE DEF A, R
<1>4. \A i \in R : <<"a", i>> \in XorOver(A, R)
  <2> TAKE i \in R
  <2>1. \A j \in R : <<"a", i>> \in A[j] => j = i
    BY <1>2
  <2>2. <<"a", i>> \in A[i]
    BY <1>2
  <2>3. QED
    BY <2>1, <2>2, XorOverAlone
<1>5. XorOver(A, R) = {<<"a", j>> : j \in R}
  BY <1>2, <1>3, <1>4
<1>6. QED
  BY <1>5 DEF Decoded, A, R

\* What the sender hashes for a value when it is ready.
SenderRow(v) == XOR(XorOver(mB, Row(size, v)), Mul(h(v)))

\* The blocks a in it are those of the columns of the value.
LEMMA SenderRowTags ==
  ASSUME TypeInv, Tagged, NEW v \in Items, NEW i \in Cols
  PROVE  <<"a", i>> \in SenderRow(v) <=> i \in Row(size, v)
<1>1. Row(size, v) \subseteq Cols
  BY RowFacts
<1>2. \A j \in Row(size, v) : <<"a", i>> \in mB[j] => j = i
  BY <1>1 DEF Tagged
<1>3. <<"a", i>> \in XorOver(mB, Row(size, v)) <=> i \in Row(size, v) /\ <<"a", i>> \in mB[i]
  BY <1>2, XorOverAlone
<1>4. <<"a", i>> \in mB[i]
  BY DEF Tagged
<1>5. <<"a", i>> \notin Mul(h(v))
  BY DEF Mul
<1>6. QED
  BY <1>3, <1>4, <1>5 DEF SenderRow, XOR

\* So the rows of the two sides for two different values differ.
LEMMA RowsDiffer ==
  ASSUME TypeInv, Tagged, NEW v \in Items, NEW w \in Items, Decoded(v) = SenderRow(w)
  PROVE  v = w
<1>1. Own(size, v) \in Row(size, v) /\ Own(size, v) \in Cols
  BY RowFacts
<1>2. <<"a", Own(size, v)>> \in SenderRow(w)
  BY <1>1, DecodedAtoms
<1>3. Own(size, v) \in Row(size, w)
  BY <1>1, <1>2, SenderRowTags
<1>4. QED
  BY <1>3, RowFacts

\* The encoding of a value's hash is in its own column only.
LEMMA EncAtoms ==
  ASSUME TypeInv, NEW v \in Items, NEW j \in Cols
  PROVE  <<"h", v>> \in Enc(j) <=> encoded /\ v \in values /\ Own(size, v) = j
<1>1. encoded => Enc(j) = UNION {h(w) : w \in {w \in values : Own(size, w) = j}}
  BY DEF Enc, Encoding
<1>2. ~ encoded => Enc(j) = {}
  BY DEF Enc
<1>3. <<"h", v>> \in UNION {h(w) : w \in {w \in values : Own(size, w) = j}}
        <=> v \in values /\ Own(size, v) = j
  BY DEF h
<1>4. QED
  BY <1>1, <1>2, <1>3

\* Every atom of the encoding is the hash of one of the receiver's values.
LEMMA EncHashes ==
  ASSUME TypeInv, NEW j \in Cols, NEW s \in Enc(j)
  PROVE  \E v \in values : s = <<"h", v>>
<1>1. encoded /\ s \in UNION {h(w) : w \in {w \in values : Own(size, w) = j}}
  BY DEF Enc, Encoding
<1>2. QED
  BY <1>1 DEF h

\* The rows of the two sides for a value of the receiver agree if it could
\* encode its values: the encoding takes away what the sender adds.
LEMMA RowsAgree ==
  ASSUME TypeInv, Tagged, \A j \in Cols : mB[j] = XOR(a(j), Mul(Enc(j))), NEW v \in values
  PROVE  Decoded(v) = SenderRow(v) <=> encoded
<1> DEFINE R == Row(size, v)
           D == <<"D", <<"h", v>>>>
<1>1. v \in Items /\ values \subseteq Items
  BY ParamFacts DEF TypeInv
<1>2. R \subseteq Cols /\ Own(size, v) \in R
  BY <1>1, RowFacts
<1>3. \A j \in R : \A s : <<"D", s>> \in mB[j] <=> s \in Enc(j)
  BY <1>2 DEF XOR, a, Mul
<1> HIDE DEF R
<1>4. D \in XorOver(mB, R) <=> encoded
  <2>1. \A j \in R : D \in mB[j] <=> encoded /\ Own(size, v) = j
    BY <1>1, <1>2, <1>3, EncAtoms
  <2>2. D \in XorOver(mB, R) <=> Own(size, v) \in R /\ D \in mB[Own(size, v)]
    <3> HIDE DEF D
    <3>1. \A j \in R : D \in mB[j] => j = Own(size, v)
      BY <2>1
    <3>2. QED
      BY <3>1, XorOverAlone
  <2>3. QED
    BY <1>2, <2>1, <2>2
<1>5. D \notin Decoded(v)
  BY <1>1, DecodedAtoms
<1>6. Mul(h(v)) = {D}
  BY DEF Mul, h
<1>7. CASE ~ encoded
  BY <1>4, <1>5, <1>6, <1>7 DEF SenderRow, XOR, R
<1>8. CASE encoded
  <2>1. ASSUME NEW s PROVE s \in SenderRow(v) <=> s \in Decoded(v)
    <3>1. CASE s = D
      BY <1>4, <1>5, <1>6, <1>8, <3>1 DEF SenderRow, XOR, R
    <3>2. CASE \E i \in Cols : s = <<"a", i>>
      <4>1. PICK i \in Cols : s = <<"a", i>>
        BY <3>2
      <4>2. s \in SenderRow(v) <=> i \in Row(size, v)
        BY <1>1, <4>1, SenderRowTags
      <4>3. s \in Decoded(v) <=> i \in Row(size, v)
        BY <1>1, <4>1, DecodedAtoms
      <4>4. QED
        BY <4>2, <4>3
    <3>3. CASE s # D /\ ~ \E i \in Cols : s = <<"a", i>>
      <4>1. s \notin Decoded(v)
        BY <1>1, <1>2, <3>3, DecodedAtoms DEF R
      <4>2. s \notin XorOver(mB, R)
        <5> SUFFICES ASSUME s \in XorOver(mB, R) PROVE FALSE
          OBVIOUS
        <5>1. PICK j \in R : s \in mB[j]
          BY DEF XorOver
        <5>2. s \in Mul(Enc(j))
          <6>1. mB[j] = XOR(a(j), Mul(Enc(j))) /\ s \notin a(j)
            BY <1>2, <3>3 DEF a
          <6>2. QED
            BY <5>1, <6>1 DEF XOR
        <5>3. PICK x \in Enc(j) : s = <<"D", x>>
          BY <5>2 DEF Mul
        <5>4. PICK w \in values : x = <<"h", w>>
          BY <1>2, EncHashes
        <5>5. Own(size, w) = j
          BY <1>1, <1>2, <5>4, EncAtoms
        <5>6. w = v
          BY <1>1, <5>5, RowFacts DEF R
        <5>7. QED
          BY <3>3, <5>3, <5>4, <5>6
      <4>3. QED
        BY <1>6, <3>3, <4>1, <4>2 DEF SenderRow, XOR, R
    <3>4. QED
      BY <3>1, <3>2, <3>3
  <2>2. QED
    BY <1>8, <2>1
<1>9. QED
  BY <1>7, <1>8

\* The last step of F loses nothing.
LEMMA FinishInjective ==
  ASSUME NEW x, NEW y, NEW u, NEW v, NEW w
  PROVE  /\ Finish(x, u, v) = Finish(y, u, w) => x = y /\ (mMalicious => v = w)
         /\ x = y /\ v = w => Finish(x, u, v) = Finish(y, u, w)
<1>1. XOR(x, u) = XOR(y, u) => x = y
  <2> SUFFICES ASSUME XOR(x, u) = XOR(y, u), NEW s PROVE s \in x <=> s \in y
    OBVIOUS
  <2>1. QED
    BY DEF XOR
<1>2. CASE mMalicious
  <2>1. ASSUME NEW k, NEW l, Hv(k, v) = Hv(l, w) PROVE k = l /\ v = w
    <3>1. <<"H", k, v>> \in Hv(l, w)
      BY <2>1 DEF Hv
    <3>2. <<"H", k, v>> = <<"H", l, w>>
      BY <3>1 DEF Hv
    <3>3. QED
      BY <3>2
  <2>2. QED
    BY <1>1, <1>2, <2>1 DEF Finish
<1>3. CASE ~ mMalicious
  <2>1. ASSUME H(x) = H(y) PROVE x = y
    <3>1. <<"H", x>> \in H(y)
      BY <2>1 DEF H
    <3>2. QED
      BY <3>1 DEF H
  <2>2. QED
    BY <1>3, <2>1 DEF Finish
<1>4. QED
  BY <1>2, <1>3

\* The receiver's output for one of its values is F of no other value, and F of
\* that one if it could encode its values.
LEMMA OutputIsEval ==
  ASSUME TypeInv, Ready, NEW v \in values, NEW w \in Items
  PROVE  LET out == Finish(Decoded(v), XOR(ws, wr), v)
         IN  /\ out = Eval(w) => v = w
             /\ FewChunks => (out = Eval(w) <=> encoded /\ v = w)
<1>1. v \in Items
  BY ParamFacts DEF TypeInv
<1>2. XOR(wr, ws) = XOR(ws, wr)
  BY DEF XOR
<1>3. Eval(w) = Finish(SenderRow(w), XOR(ws, wr), w)
  <2>1. Eval(w) = Finish(SenderRow(w), mW, w)
    BY DEF Eval, SenderRow, Ready
  <2>2. QED
    BY <1>2, <2>1 DEF Ready, Finish
<1>4. Finish(Decoded(v), XOR(ws, wr), v) = Eval(w) => v = w /\ Decoded(v) = SenderRow(w)
  BY <1>1, <1>3, FinishInjective, RowsDiffer DEF Ready
<1>5. v = w /\ Decoded(v) = SenderRow(w) => Finish(Decoded(v), XOR(ws, wr), v) = Eval(w)
  BY <1>3, FinishInjective
<1>6. FewChunks => (Decoded(v) = SenderRow(v) <=> encoded)
  BY RowsAgree DEF Ready
<1>7. QED
  BY <1>4, <1>5, <1>6

\* Both sides compute the same function, and the receiver holds F of nothing
\* but the values it could encode.
THEOREM SameFunctionHolds == Spec => []SameFunction
<1>1. IInv => SameFunction
  <2> SUFFICES ASSUME IInv, pc["S"] \in {"evaluate", "sending", "done"},
                      pc["R"] \in {"returned", "done"}, FewChunks,
                      NEW v \in values, NEW w \in Items
               PROVE  (outputs[v] = Eval(w)) <=> (encoded /\ v = w)
    BY DEF SameFunction
  <2>1. TypeInv /\ Ready
    BY ReadyAtEnd DEF IInv
  <2>2. outputs[v] = Finish(Decoded(v), XOR(ws, wr), v)
    BY DEF IInv, OutputInv
  <2>3. QED
    BY <2>1, <2>2, OutputIsEval
<1>2. QED
  BY <1>1, IInvHolds, PTL

-----------------------------------------------------------------------------
(* The intersection. *)

\* What the receiver has found when it is done.
MeetInv ==
  caller = "psi" /\ pc["R"] = "done" =>
    Ready /\ mIntersection = {v \in values : outputs[v] \in {Eval(w) : w \in theirs}}

\* The receiver of the intersection is done only with the hashes it took, and
\* changes nothing afterwards.
LEMMA MeetKinds ==
  ASSUME TypeInv, Next, caller = "psi", pc'["R"] = "done"
  PROVE  \/ RecvHashes
         \/ pc["R"] = "done" /\ UNCHANGED <<outputs, mIntersection>>
<1>0. /\ pc = [X \in Sides |-> pc[X]] /\ "S" \in Sides /\ "R" \in Sides /\ "S" # "R"
      /\ pc["R"] \notin {"recvP", "expand", "recvPSeed"}
  BY SidesFacts DEF TypeInv, PcInv
<1>1. CASE SendInit /\ UNCHANGED callerVars
  BY <1>1, <1>0 DEF SendInit, Goto, Fail, recverVars, maskVars, callerVars
<1>2. CASE RecvSeed /\ UNCHANGED callerVars
  BY <1>2, <1>0 DEF RecvSeed, Goto, Fail, recverVars, maskVars, callerVars
<1>3. CASE SendVole /\ UNCHANGED callerVars
  BY <1>3, <1>0 DEF SendVole, Goto, Fail, recverVars, maskVars, callerVars
<1>4. CASE RecvW /\ UNCHANGED callerVars
  BY <1>4, <1>0 DEF RecvW, Goto, Fail, recverVars, maskVars, callerVars
<1>5. CASE RecvChunk /\ UNCHANGED callerVars
  BY <1>5, <1>0 DEF RecvChunk, Goto, Fail, recverVars, maskVars, callerVars
<1>6. CASE RecvInit /\ UNCHANGED callerVars
  BY <1>6, <1>0 DEF RecvInit, Goto, Fail, recverVars, maskVars, callerVars
<1>7. CASE RecvHws /\ UNCHANGED callerVars
  BY <1>7, <1>0 DEF RecvHws, Goto, Fail, recverVars, maskVars, callerVars
<1>8. CASE Solve /\ UNCHANGED callerVars
  BY <1>8, <1>0 DEF Solve, Goto, Fail, recverVars, maskVars, callerVars
<1>9. CASE EncodeFails /\ UNCHANGED callerVars
  BY <1>9, <1>0 DEF EncodeFails, Goto, Fail, recverVars, maskVars, callerVars
<1>10. CASE SolveThrows /\ UNCHANGED callerVars
  BY <1>10, <1>0 DEF SolveThrows, Goto, Fail, recverVars, maskVars, callerVars
<1>11. CASE RecvVole /\ UNCHANGED callerVars
  BY <1>11, <1>0 DEF RecvVole, Goto, Fail, recverVars, maskVars, callerVars
<1>12. CASE MaskChunk /\ UNCHANGED callerVars
  BY <1>12, <1>0 DEF MaskChunk, Goto, Fail, recverVars, maskVars, callerVars
<1>13. CASE SendingEnds /\ UNCHANGED callerVars
  BY <1>13, <1>0 DEF SendingEnds, Goto, Fail, recverVars, maskVars, callerVars
<1>14. CASE Decode /\ UNCHANGED callerVars
  <2>1. pc'["R"] # "done"
    BY <1>14, <1>0 DEF Decode, Goto
  <2>2. QED
    BY <2>1
<1>15. CASE RecvWs /\ UNCHANGED callerVars
  <2>1. pc'["R"] # "done"
    BY <1>15, <1>0 DEF RecvWs, Goto, Fail
  <2>2. QED
    BY <2>1
<1>16. CASE (\E X \in Sides : VoleSend(X)) /\ UNCHANGED callerVars
  BY <1>16, <1>0 DEF VoleSend, Goto, Fail, recverVars, maskVars, callerVars
<1>17. CASE (\E X \in Sides : VoleRecv(X)) /\ UNCHANGED callerVars
  BY <1>17, <1>0 DEF VoleRecv, Goto, Fail, recverVars, maskVars, callerVars
<1>18. CASE (\E X \in Sides : RecvFails(X)) /\ UNCHANGED callerVars
  <2>1. UNCHANGED <<outputs, mIntersection>>
    BY <1>18 DEF RecvFails, recverVars, callerVars
  <2>2. PICK X \in Sides : RecvFails(X)
    BY <1>18
  <2>3. pc'["R"] = pc["R"] \/ pc'["R"] # "done"
    BY <1>0, <2>2 DEF RecvFails, Goto, Fail
  <2>4. QED
    BY <2>1, <2>3
<1>19. CASE (\E X \in Sides : SendFails(X)) /\ UNCHANGED callerVars
  <2>1. UNCHANGED <<outputs, mIntersection>>
    BY <1>19 DEF SendFails, recverVars, callerVars
  <2>2. PICK X \in Sides : SendFails(X)
    BY <1>19
  <2>3. pc'["R"] = pc["R"] \/ pc'["R"] # "done"
    BY <1>0, <2>2 DEF SendFails, Goto, Fail
  <2>4. QED
    BY <2>1, <2>3
<1>20. CASE SendHashes
  BY <1>20, <1>0 DEF SendHashes, Goto, Fail, recverVars, maskVars, callerVars
<1>21. CASE SenderSendingEnds
  BY <1>21, <1>0 DEF SenderSendingEnds, Goto, Fail, recverVars, maskVars, callerVars
<1>22. CASE RecverGoesOn
  BY <1>22, <1>0 DEF RecverGoesOn, Goto, Fail, recverVars, maskVars, callerVars
<1>23. CASE RecvHashes
  BY <1>23
<1>24. CASE SendPSeed
  BY <1>24, <1>0 DEF SendPSeed, Goto, Fail, recverVars, maskVars, callerVars
<1>25. CASE RecvPSeed
  BY <1>25, <1>0 DEF RecvPSeed, Goto, Fail, recverVars, maskVars, callerVars
<1>26. CASE SendP
  BY <1>26, <1>0 DEF SendP, Goto, Fail, recverVars, maskVars, callerVars
<1>27. CASE SolveProgramThrows
  BY <1>27, <1>0 DEF SolveProgramThrows, Goto, Fail, recverVars, maskVars, callerVars
<1>28. CASE RecvP
  BY <1>28, <1>0 DEF RecvP, Goto, Fail, recverVars, maskVars, callerVars
<1>29. CASE Expand
  BY <1>29, <1>0 DEF Expand, Goto, Fail, recverVars, maskVars, callerVars
<1>30. CASE AddDecoded
  BY <1>30, <1>0 DEF AddDecoded, Goto, Fail, recverVars, maskVars, callerVars
<1>31. CASE \E X \in Sides : SendSize(X)
  <2>1. UNCHANGED <<outputs, mIntersection>>
    BY <1>31 DEF SendSize, recverVars, callerVars
  <2>2. PICK X \in Sides : SendSize(X)
    BY <1>31
  <2>3. pc'["R"] = pc["R"] \/ pc'["R"] # "done"
    BY <1>0, <2>2 DEF SendSize, Goto, Fail
  <2>4. QED
    BY <2>1, <2>3
<1>32. CASE \E X \in Sides : OwnSizeWrong(X)
  <2>1. UNCHANGED <<outputs, mIntersection>>
    BY <1>32 DEF OwnSizeWrong, Checked, recverVars, callerVars
  <2>2. PICK X \in Sides : OwnSizeWrong(X)
    BY <1>32
  <2>3. pc'["R"] = pc["R"] \/ pc'["R"] # "done"
    BY <1>0, <2>2 DEF OwnSizeWrong, Checked, Goto, Fail
  <2>4. QED
    BY <2>1, <2>3
<1>33. CASE \E X \in Sides : RecvSize(X)
  <2>1. UNCHANGED <<outputs, mIntersection>>
    BY <1>33 DEF RecvSize, recverVars, callerVars
  <2>2. PICK X \in Sides : RecvSize(X)
    BY <1>33
  <2>3. pc'["R"] = pc["R"] \/ pc'["R"] # "done"
    BY <1>0, <2>2 DEF RecvSize, Goto, Fail
  <2>4. QED
    BY <2>1, <2>3
<1>34. CASE \E X \in Sides : PeerSizeWrong(X)
  <2>1. UNCHANGED <<outputs, mIntersection>>
    BY <1>34 DEF PeerSizeWrong, recverVars, callerVars
  <2>2. PICK X \in Sides : PeerSizeWrong(X)
    BY <1>34
  <2>3. pc'["R"] = pc["R"] \/ pc'["R"] # "done"
    BY <1>0, <2>2 DEF PeerSizeWrong, Goto, Fail
  <2>4. QED
    BY <2>1, <2>3
<1>35. CASE \E X \in Sides : Closes(X)
  BY <1>35, <1>0 DEF Closes, Goto, Fail, recverVars, maskVars, callerVars
<1>36. CASE \E X \in Sides : Dies(X)
  <2>1. UNCHANGED <<outputs, mIntersection>>
    BY <1>36 DEF Dies, recverVars, callerVars
  <2>2. PICK X \in Sides : Dies(X)
    BY <1>36
  <2>3. pc'["R"] = pc["R"] \/ pc'["R"] # "done"
    BY <1>0, <2>2 DEF Dies, Goto, Fail
  <2>4. QED
    BY <2>1, <2>3
<1>37. QED
  BY <1>1, <1>2, <1>3, <1>4, <1>5, <1>6, <1>7, <1>8, <1>9, <1>10, <1>11, <1>12, <1>13,
      <1>14, <1>15, <1>16, <1>17, <1>18, <1>19, <1>20, <1>21, <1>22, <1>23, <1>24, <1>25,
      <1>26, <1>27, <1>28, <1>29, <1>30, <1>31, <1>32, <1>33, <1>34, <1>35, <1>36 DEF Next,
      Progress, OprfStep, CallerStep

\* What the receiver has found stays right: the message it takes holds F of the sender's
\* values, and by then the sender no longer changes.
LEMMA MeetStep ==
  ASSUME IInv, MeetInv, Next
  PROVE  MeetInv'
<1> SUFFICES ASSUME caller' = "psi", pc'["R"] = "done"
             PROVE  /\ Ready'
                    /\ mIntersection' = {v \in values : outputs[v] \in {Eval(w) : w \in theirs}}'
  BY DEF MeetInv
<1>0. TypeInv /\ SenderInv /\ UNCHANGED <<params, caller, theirs, values>>
  BY ConstantStep DEF IInv, params
<1>1. Ready /\ UNCHANGED outputs
      /\ mIntersection' = {v \in values : outputs[v] \in {Eval(w) : w \in theirs}}
  <2>1. CASE RecvHashes
    <3>1. /\ pc["R"] = "recvHashes" /\ CanRecv("R", "main") /\ UNCHANGED outputs
          /\ mIntersection' = {v \in values : outputs[v] \in Received("R")}
      BY <2>1 DEF RecvHashes, recverVars
    <3>2. Got("R") = 3 /\ Body("R", Got("R"), Received("R"))
      BY <3>1, HeadSays DEF Got, Sides
    <3>3. Ready /\ Received("R") = {Eval(v) : v \in theirs}
      BY <1>0, <3>2 DEF Body
    <3>4. QED
      BY <3>1, <3>3
  <2>2. CASE pc["R"] = "done" /\ UNCHANGED <<outputs, mIntersection>>
    BY <1>0, <2>2 DEF MeetInv
  <2>3. QED
    BY <1>0, <2>1, <2>2, MeetKinds
<1>2. UNCHANGED <<recvPos, mSeed, mB, mW, encoded>>
  BY <1>0, <1>1, PlaceKept
<1>3. Ready' /\ \A v : Eval(v)' = Eval(v)
  BY <1>0, <1>1, <1>2, ReadyKept, EvalKept
<1>4. {Eval(w) : w \in theirs}' = {Eval(w) : w \in theirs}
  BY <1>0, <1>3
<1>5. QED
  BY <1>0, <1>1, <1>3, <1>4

\* The receiver never reports a value that is not in both sets, and reports all
\* that are unless its encoder failed.
THEOREM IntersectionCorrectHolds == Spec => []IntersectionCorrect
<1>1. Init => MeetInv
  BY DEF Init, MeetInv, Sides
<1>2. IInv /\ MeetInv /\ [Next]_vars => MeetInv'
  <2> SUFFICES ASSUME IInv, MeetInv, [Next]_vars PROVE MeetInv'
    OBVIOUS
  <2>1. CASE Next
    BY <2>1, MeetStep
  <2>2. CASE UNCHANGED vars
    <3>1. UNCHANGED <<params, values, recvPos, mSeed, mB, mW, encoded, caller, pc, theirs, outputs,
                      mIntersection>>
      BY <2>2 DEF vars, params, senderVars, recverVars, callerVars
    <3>2. (Ready => Ready') /\ \A v : Eval(v)' = Eval(v)
      BY <3>1, ReadyKept, EvalKept
    <3>3. {Eval(w) : w \in theirs}' = {Eval(w) : w \in theirs}
      BY <3>1, <3>2
    <3>4. QED
      BY <3>1, <3>2, <3>3 DEF MeetInv
  <2>3. QED
    BY <2>1, <2>2
<1>3. IInv /\ MeetInv => IntersectionCorrect
  <2> SUFFICES ASSUME IInv, MeetInv, caller = "psi", pc["R"] = "done"
               PROVE  /\ mIntersection \subseteq values \cap theirs
                      /\ encoded /\ FewChunks => mIntersection = values \cap theirs
    BY DEF IntersectionCorrect
  <2>1. TypeInv /\ Ready /\ theirs \subseteq Items /\ values \subseteq Items
        /\ mIntersection = {v \in values : outputs[v] \in {Eval(w) : w \in theirs}}
    BY ParamFacts DEF IInv, MeetInv, TypeInv
  <2>2. \A v \in values : outputs[v] = Finish(Decoded(v), XOR(ws, wr), v)
    BY DEF IInv, OutputInv
  <2>3. \A v \in values, w \in Items :
          /\ outputs[v] = Eval(w) => v = w
          /\ FewChunks => (outputs[v] = Eval(w) <=> encoded /\ v = w)
    BY <2>1, <2>2, OutputIsEval
  <2>4. QED
    BY <2>1, <2>3
<1>4. QED
  BY <1>1, <1>2, <1>3, IInvHolds, PTL DEF Spec

-----------------------------------------------------------------------------
(* The bytes the receiver gets. *)

\* The quotient is the only number with these bounds.
LEMMA Quotient ==
  ASSUME NEW x \in Nat, NEW d \in Nat \ {0}, NEW q \in Nat
  PROVE  /\ q <= x \div d <=> d * q <= x
         /\ x \div d < q <=> x < d * q
<1> DEFINE y == x \div d
           r == x % d
<1>1. y \in Nat /\ r \in 0 .. d - 1 /\ x = d * y + r
  BY Division
<1> HIDE DEF y, r
<1>2. ASSUME q <= y
      PROVE  d * q <= x
  <2>1. d * q <= d * y /\ d * q \in Nat /\ d * y \in Nat
    BY <1>1, <1>2
  <2>2. QED
    BY <2>1, <1>1
<1>3. ASSUME y < q
      PROVE  x < d * q
  <2>1. d * (y + 1) <= d * q /\ d * (y + 1) = d * y + d /\ d * q \in Nat /\ d * y \in Nat
    BY <1>1, <1>3
  <2>2. QED
    BY <2>1, <1>1
<1>4. q <= y \/ y < q
  BY <1>1
<1>5. d * q \in Nat
  OBVIOUS
<1>6. QED
  BY <1>1, <1>2, <1>3, <1>4, <1>5 DEF y

\* A multiple and a remainder determine the quotient.
LEMMA QuotientIs ==
  ASSUME NEW d \in Nat \ {0}, NEW k \in Nat, NEW b \in 0 .. d - 1, NEW x, x = d * k + b
  PROVE  x \in Nat /\ x \div d = k /\ x % d = b
<1> DEFINE y == d * k
<1>1. y \in Nat /\ d * (k + 1) = y + d /\ x = y + b /\ k + 1 \in Nat
  OBVIOUS
<1> HIDE DEF y
<1>2. x \in Nat /\ y <= x /\ x < y + d
  BY <1>1
<1>3. k <= x \div d /\ x \div d < k + 1
  <2>1. k <= x \div d <=> y <= x
    BY <1>2, Quotient DEF y
  <2>2. x \div d < k + 1 <=> x < d * (k + 1)
    BY <1>1, <1>2, Quotient
  <2>3. QED
    BY <1>1, <1>2, <2>1, <2>2
<1>4. x \div d \in Nat /\ x % d \in 0 .. d - 1 /\ x = d * (x \div d) + (x % d)
  BY <1>2, Division
<1>5. x \div d = k
  BY <1>3, <1>4
<1>6. x = y + (x % d)
  BY <1>4, <1>5 DEF y
<1>7. QED
  BY <1>1, <1>2, <1>4, <1>5, <1>6

\* The widths, and where the bytes of a value are.
LEMMA WidthFacts ==
  ASSUME TypeInv
  PROVE  /\ n \in Nat /\ m \in Nat \ {0} /\ BlockSize \in Nat \ {0}
         /\ n * m \in Nat /\ offset \in 0 .. BlockSize - 1
         /\ \A q \in Bytes : /\ q \in Nat /\ q \div m \in 0 .. n - 1 /\ q % m \in 0 .. m - 1
                             /\ q = m * (q \div m) + (q % m)
<1>1. n \in Nat /\ m \in Nat \ {0} /\ BlockSize \in Nat \ {0}
  BY ParamFacts, WidthAssumption DEF TypeInv, ParamInv
<1>2. n * m \in Nat /\ n * m = m * n
  BY <1>1
<1>3. offset \in 0 .. BlockSize - 1
  BY <1>1, <1>2, Division DEF offset
<1>4. ASSUME NEW q \in Bytes
      PROVE  /\ q \in Nat /\ q \div m \in 0 .. n - 1 /\ q % m \in 0 .. m - 1
             /\ q = m * (q \div m) + (q % m)
  <2>1. q \in Nat /\ q < m * n
    BY <1>2, <1>4 DEF Bytes
  <2>2. q \div m \in Nat /\ q % m \in 0 .. m - 1 /\ q = m * (q \div m) + (q % m)
    BY <1>1, <2>1, Division
  <2>3. q \div m < n
    BY <1>1, <2>1, Quotient
  <2>4. QED
    BY <1>1, <2>1, <2>2, <2>3
<1>5. QED
  BY <1>1, <1>2, <1>3, <1>4

\* The values can be counted: each position has one.
LEMMA ValueFacts ==
  ASSUME TypeInv, NEW k \in 0 .. n - 1
  PROVE  Value(k) \in values
<1> DEFINE Below(v) == {w \in values : w < v}
           rank == [v \in values |-> Cardinality(Below(v))]
           T == 0 .. n - 1
<1>1. values \subseteq Nat /\ IsFiniteSet(values) /\ n \in Nat /\ n = Cardinality(values)
  BY ParamFacts DEF TypeInv, n
<1>2. ASSUME NEW v \in values
      PROVE  IsFiniteSet(Below(v)) /\ Cardinality(Below(v)) \in T
  <2>1. IsFiniteSet(values \ {v}) /\ Cardinality(values \ {v}) = n - 1
    BY <1>1, FS_RemoveElement
  <2>2. v \in Nat /\ Below(v) \in SUBSET (values \ {v})
    BY <1>1
  <2>3. IsFiniteSet(Below(v)) /\ Cardinality(Below(v)) <= n - 1
    BY <2>1, <2>2, FS_Subset
  <2>4. Cardinality(Below(v)) \in Nat
    BY <2>3, FS_CardinalityType
  <2>5. QED
    BY <1>1, <2>3, <2>4
<1>3. ASSUME NEW u \in values, NEW v \in values, u < v
      PROVE  Cardinality(Below(u)) # Cardinality(Below(v))
  <2>1. u \in Nat /\ v \in Nat
    BY <1>1
  <2>2. Below(u) \in SUBSET Below(v)
    <3>1. \A w \in values : w \in Nat
      BY <1>1
    <3>2. SUFFICES ASSUME NEW w \in values, w < u PROVE w < v
      BY DEF Below
    <3>3. QED
      BY <1>3, <2>1, <3>1, <3>2
  <2>3. u \in Below(v) /\ u \notin Below(u)
    BY <1>3, <2>1
  <2>4. Below(u) # Below(v)
    BY <2>3
  <2>5. QED
    BY <1>2, <2>2, <2>4, FS_Subset
<1> HIDE DEF Below
<1>4. rank \in Injection(values, T)
  <2>1. rank \in [values -> T]
    BY <1>2
  <2>2. ASSUME NEW u \in values, NEW v \in values, rank[u] = rank[v] PROVE u = v
    <3>1. u \in Nat /\ v \in Nat
      BY <1>1
    <3>2. ~ (u < v) /\ ~ (v < u)
      BY <1>3, <2>2
    <3>3. QED
      BY <3>1, <3>2
  <2>3. QED
    BY <2>1, <2>2 DEF Injection, IsInjective
<1>5. IsFiniteSet(T) /\ Cardinality(T) = n
  <2>1. 0 \in Int /\ n - 1 \in Int
    BY <1>1
  <2>2. QED
    BY <1>1, <2>1, FS_Interval
<1>6. rank \in Surjection(values, T)
  BY <1>1, <1>4, <1>5, FS_Injection
<1>7. \E v \in values : rank[v] = k
  BY <1>6 DEF Surjection, Range
<1>8. \E v \in values : Cardinality({w \in values : w < v}) = k
  BY <1>7 DEF Below
<1>9. QED
  BY <1>8 DEF Value

\* The widths for which no block lies where an earlier value is expanded to.
Fits == m <= BlockSize \/ m >= 2 * BlockSize \/ (n * m) % BlockSize = 0

\* The block of the k-th value is in the output, and ends not before the bytes
\* that earlier values are expanded to.
LEMMA Layout ==
  ASSUME TypeInv, Fits, m >= BlockSize, NEW k \in 0 .. n - 1, NEW b \in 0 .. BlockSize - 1
  PROVE  /\ BlockAt(k) \in Int
         /\ BlockAt(k) + b \in Bytes
         /\ BlockAt(k) + b >= BlockAt(0) /\ BlockAt(k) + b < BlockAt(n)
         /\ ((BlockAt(k) + b) - BlockAt(0)) \div BlockSize = k
         /\ (BlockAt(k) + b) \div m >= k
         /\ m = BlockSize => BlockAt(k) = m * k
<1> DEFINE B == BlockSize
           all == n * m
           left == B * (n - k)
           whole == B * n
           before == B * k
           mine == m * k
           gap == (n - k) * (m - B)
<1>1. n \in Nat /\ m \in Nat \ {0} /\ B \in Nat \ {0} /\ all \in Nat /\ offset \in 0 .. B - 1
      /\ k \in Nat /\ k < n
  BY WidthFacts
<1>2. /\ left \in Nat /\ whole \in Nat /\ before \in Nat /\ mine \in Nat
      /\ left + before = whole /\ left >= B /\ gap = all - mine - left
  BY <1>1
<1>3. m = B => all = B * n + 0 /\ mine = before /\ all = whole
  BY <1>1
<1>4. m = B => offset = 0
  <2> SUFFICES ASSUME m = B PROVE offset = 0
    OBVIOUS
  <2>1. 0 \in 0 .. B - 1 /\ all = B * n + 0
    BY <1>1, <1>3
  <2>2. all % B = 0
    BY <1>1, <2>1, QuotientIs
  <2>3. QED
    BY <2>2 DEF offset
<1>5. gap >= offset
  <2>1. n - k \in Nat /\ n - k >= 1 /\ m - B \in Nat
    BY <1>1
  <2>2. gap \in Nat /\ gap >= m - B
    BY <2>1
  <2>3. CASE m >= 2 * B
    BY <1>1, <2>2, <2>3
  <2>4. CASE m <= B
    BY <1>1, <1>4, <2>2, <2>4
  <2>5. CASE offset = 0
    BY <2>2, <2>5
  <2>6. QED
    BY <2>3, <2>4, <2>5 DEF Fits, offset
<1>6. BlockAt(k) = all - offset - left /\ BlockAt(0) = all - offset - whole
      /\ BlockAt(n) = all - offset
  <2>1. n - 0 = n /\ n - n = 0 /\ B * 0 = 0
    BY <1>1
  <2>2. BlockAt(n) = all - offset - B * 0
    BY <2>1 DEF BlockAt
  <2>3. QED
    BY <1>1, <2>1, <2>2 DEF BlockAt
<1>7. before \div B = k /\ (before + b) \div B = k /\ before + b \in Nat
  <2>1. 0 \in 0 .. B - 1 /\ before = B * k + 0 /\ before + b = B * k + b
    BY <1>1
  <2>2. QED
    BY <1>1, <2>1, QuotientIs
<1>8. Bytes = 0 .. all - 1
  BY DEF Bytes
<1>9. k <= (BlockAt(k) + b) \div m <=> mine <= BlockAt(k) + b
  <2>1. BlockAt(k) + b \in Nat
    <3> HIDE DEF all, left, whole, before, mine, gap
    <3>1. QED
      BY <1>1, <1>2, <1>5, <1>6
  <2>2. QED
    BY <1>1, <2>1, Quotient
<1> HIDE DEF all, left, whole, before, mine, gap
<1>10. BlockAt(k) \in Int /\ mine <= BlockAt(k) /\ BlockAt(k) + b < all
       /\ BlockAt(k) + b < BlockAt(n) /\ BlockAt(k) + b >= BlockAt(0)
  BY <1>1, <1>2, <1>5, <1>6
<1>11. (BlockAt(k) + b) - BlockAt(0) = before + b
  BY <1>1, <1>2, <1>6
<1>12. m = B => BlockAt(k) = mine
  BY <1>1, <1>2, <1>3, <1>4, <1>6
<1>13. mine <= BlockAt(k) + b /\ BlockAt(k) + b \in 0 .. all - 1
  BY <1>1, <1>2, <1>10
<1>14. BlockAt(k) + b \in Bytes
  BY <1>8, <1>13
<1>15. (BlockAt(k) + b) \div m \in Nat
  BY <1>14, WidthFacts
<1>16. QED
  BY <1>1, <1>7, <1>9, <1>10, <1>11, <1>12, <1>13, <1>14, <1>15 DEF mine

\* A byte that is expanded, a block that is still intact, a byte of the result.
Expanded(q) == mem[q] = <<Masks(oprfOutput[q \div m]), q % m>>
Intact(k) == \A b \in 0 .. BlockSize - 1 : mem[BlockAt(k) + b] = <<Raw(oprfOutput[k]), b>>
Added(q) == mem[q] = <<XOR(Masks(outputs[Value(q \div m)]), okvs[Value(q \div m)]), q % m>>

\* What the receiver of the programmable function has in its memory.
MemInv ==
  caller = "opprf" /\ pc["R"] \in {"expand", "done"} =>
    /\ Ready /\ okvs = [v \in Items |-> Programmed(v)]
    /\ Fits /\ pc["R"] = "expand" =>
         /\ \A q \in Bytes : q \div m < expanded => Expanded(q)
         /\ m >= BlockSize => \A k \in expanded .. n - 1 : Intact(k)
    /\ Fits /\ pc["R"] = "done" => \A q \in Bytes : Added(q)

\* Only three actions change what is in the receiver's memory.
LEMMA MemKinds ==
  ASSUME TypeInv, Next, caller = "opprf", pc'["R"] \in {"expand", "done"}
  PROVE  \/ RecvP \/ Expand \/ AddDecoded
         \/ pc'["R"] = pc["R"] /\ UNCHANGED <<outputs, oprfOutput, okvs, mem, expanded>>
<1>0. /\ pc = [X \in Sides |-> pc[X]] /\ "S" \in Sides /\ "R" \in Sides /\ "S" # "R"
      /\ pc["R"] # "recvHashes"
  BY SidesFacts DEF TypeInv, PcInv
<1>1. CASE SendInit /\ UNCHANGED callerVars
  BY <1>1, <1>0 DEF SendInit, Goto, Fail, recverVars, maskVars, callerVars
<1>2. CASE RecvSeed /\ UNCHANGED callerVars
  BY <1>2, <1>0 DEF RecvSeed, Goto, Fail, recverVars, maskVars, callerVars
<1>3. CASE SendVole /\ UNCHANGED callerVars
  BY <1>3, <1>0 DEF SendVole, Goto, Fail, recverVars, maskVars, callerVars
<1>4. CASE RecvW /\ UNCHANGED callerVars
  BY <1>4, <1>0 DEF RecvW, Goto, Fail, recverVars, maskVars, callerVars
<1>5. CASE RecvChunk /\ UNCHANGED callerVars
  BY <1>5, <1>0 DEF RecvChunk, Goto, Fail, recverVars, maskVars, callerVars
<1>6. CASE RecvInit /\ UNCHANGED callerVars
  BY <1>6, <1>0 DEF RecvInit, Goto, Fail, recverVars, maskVars, callerVars
<1>7. CASE RecvHws /\ UNCHANGED callerVars
  BY <1>7, <1>0 DEF RecvHws, Goto, Fail, recverVars, maskVars, callerVars
<1>8. CASE Solve /\ UNCHANGED callerVars
  BY <1>8, <1>0 DEF Solve, Goto, Fail, recverVars, maskVars, callerVars
<1>9. CASE EncodeFails /\ UNCHANGED callerVars
  BY <1>9, <1>0 DEF EncodeFails, Goto, Fail, recverVars, maskVars, callerVars
<1>10. CASE SolveThrows /\ UNCHANGED callerVars
  BY <1>10, <1>0 DEF SolveThrows, Goto, Fail, recverVars, maskVars, callerVars
<1>11. CASE RecvVole /\ UNCHANGED callerVars
  BY <1>11, <1>0 DEF RecvVole, Goto, Fail, recverVars, maskVars, callerVars
<1>12. CASE MaskChunk /\ UNCHANGED callerVars
  BY <1>12, <1>0 DEF MaskChunk, Goto, Fail, recverVars, maskVars, callerVars
<1>13. CASE SendingEnds /\ UNCHANGED callerVars
  BY <1>13, <1>0 DEF SendingEnds, Goto, Fail, recverVars, maskVars, callerVars
<1>14. CASE Decode /\ UNCHANGED callerVars
  <2>1. pc'["R"] \notin {"expand", "done"}
    BY <1>14, <1>0 DEF Decode, Goto, Fail
  <2>2. QED
    BY <2>1
<1>15. CASE RecvWs /\ UNCHANGED callerVars
  <2>1. pc'["R"] \notin {"expand", "done"}
    BY <1>15, <1>0 DEF RecvWs, Goto, Fail
  <2>2. QED
    BY <2>1
<1>16. CASE (\E X \in Sides : VoleSend(X)) /\ UNCHANGED callerVars
  BY <1>16, <1>0 DEF VoleSend, Goto, Fail, recverVars, maskVars, callerVars
<1>17. CASE (\E X \in Sides : VoleRecv(X)) /\ UNCHANGED callerVars
  BY <1>17, <1>0 DEF VoleRecv, Goto, Fail, recverVars, maskVars, callerVars
<1>18. CASE (\E X \in Sides : RecvFails(X)) /\ UNCHANGED callerVars
  <2>1. UNCHANGED <<outputs, oprfOutput, okvs, mem, expanded>>
    BY <1>18 DEF RecvFails, recverVars, callerVars
  <2>2. PICK X \in Sides : RecvFails(X)
    BY <1>18
  <2>3. pc'["R"] = pc["R"] \/ pc'["R"] \notin {"expand", "done"}
    BY <1>0, <2>2 DEF RecvFails, Goto, Fail
  <2>4. QED
    BY <2>1, <2>3
<1>19. CASE (\E X \in Sides : SendFails(X)) /\ UNCHANGED callerVars
  <2>1. UNCHANGED <<outputs, oprfOutput, okvs, mem, expanded>>
    BY <1>19 DEF SendFails, recverVars, callerVars
  <2>2. PICK X \in Sides : SendFails(X)
    BY <1>19
  <2>3. pc'["R"] = pc["R"] \/ pc'["R"] \notin {"expand", "done"}
    BY <1>0, <2>2 DEF SendFails, Goto, Fail
  <2>4. QED
    BY <2>1, <2>3
<1>20. CASE SendHashes
  BY <1>20, <1>0 DEF SendHashes, Goto, Fail, recverVars, maskVars, callerVars
<1>21. CASE SenderSendingEnds
  BY <1>21, <1>0 DEF SenderSendingEnds, Goto, Fail, recverVars, maskVars, callerVars
<1>22. CASE RecverGoesOn
  <2>1. pc'["R"] \notin {"expand", "done"}
    BY <1>22, <1>0 DEF RecverGoesOn, Goto, Fail
  <2>2. QED
    BY <2>1
<1>23. CASE RecvHashes
  BY <1>23, <1>0 DEF RecvHashes, Goto, Fail, recverVars, maskVars, callerVars
<1>24. CASE SendPSeed
  BY <1>24, <1>0 DEF SendPSeed, Goto, Fail, recverVars, maskVars, callerVars
<1>25. CASE RecvPSeed
  BY <1>25, <1>0 DEF RecvPSeed, Goto, Fail, recverVars, maskVars, callerVars
<1>26. CASE SendP
  BY <1>26, <1>0 DEF SendP, Goto, Fail, recverVars, maskVars, callerVars
<1>27. CASE SolveProgramThrows
  BY <1>27, <1>0 DEF SolveProgramThrows, Goto, Fail, recverVars, maskVars, callerVars
<1>28. CASE RecvP
  BY <1>28
<1>29. CASE Expand
  BY <1>29
<1>30. CASE AddDecoded
  BY <1>30
<1>31. CASE \E X \in Sides : SendSize(X)
  <2>1. UNCHANGED <<outputs, oprfOutput, okvs, mem, expanded>>
    BY <1>31 DEF SendSize, recverVars, callerVars
  <2>2. PICK X \in Sides : SendSize(X)
    BY <1>31
  <2>3. pc'["R"] = pc["R"] \/ pc'["R"] \notin {"expand", "done"}
    BY <1>0, <2>2 DEF SendSize, Goto, Fail
  <2>4. QED
    BY <2>1, <2>3
<1>32. CASE \E X \in Sides : OwnSizeWrong(X)
  <2>1. UNCHANGED <<outputs, oprfOutput, okvs, mem, expanded>>
    BY <1>32 DEF OwnSizeWrong, Checked, recverVars, callerVars
  <2>2. PICK X \in Sides : OwnSizeWrong(X)
    BY <1>32
  <2>3. pc'["R"] = pc["R"] \/ pc'["R"] \notin {"expand", "done"}
    BY <1>0, <2>2 DEF OwnSizeWrong, Checked, Goto, Fail
  <2>4. QED
    BY <2>1, <2>3
<1>33. CASE \E X \in Sides : RecvSize(X)
  <2>1. UNCHANGED <<outputs, oprfOutput, okvs, mem, expanded>>
    BY <1>33 DEF RecvSize, recverVars, callerVars
  <2>2. PICK X \in Sides : RecvSize(X)
    BY <1>33
  <2>3. pc'["R"] = pc["R"] \/ pc'["R"] \notin {"expand", "done"}
    BY <1>0, <2>2 DEF RecvSize, Goto, Fail
  <2>4. QED
    BY <2>1, <2>3
<1>34. CASE \E X \in Sides : PeerSizeWrong(X)
  <2>1. UNCHANGED <<outputs, oprfOutput, okvs, mem, expanded>>
    BY <1>34 DEF PeerSizeWrong, recverVars, callerVars
  <2>2. PICK X \in Sides : PeerSizeWrong(X)
    BY <1>34
  <2>3. pc'["R"] = pc["R"] \/ pc'["R"] \notin {"expand", "done"}
    BY <1>0, <2>2 DEF PeerSizeWrong, Goto, Fail
  <2>4. QED
    BY <2>1, <2>3
<1>35. CASE \E X \in Sides : Closes(X)
  BY <1>35, <1>0 DEF Closes, Goto, Fail, recverVars, maskVars, callerVars
<1>36. CASE \E X \in Sides : Dies(X)
  <2>1. UNCHANGED <<outputs, oprfOutput, okvs, mem, expanded>>
    BY <1>36 DEF Dies, recverVars, callerVars
  <2>2. PICK X \in Sides : Dies(X)
    BY <1>36
  <2>3. pc'["R"] = pc["R"] \/ pc'["R"] \notin {"expand", "done"}
    BY <1>0, <2>2 DEF Dies, Goto, Fail
  <2>4. QED
    BY <2>1, <2>3
<1>37. QED
  BY <1>1, <1>2, <1>3, <1>4, <1>5, <1>6, <1>7, <1>8, <1>9, <1>10, <1>11, <1>12, <1>13,
      <1>14, <1>15, <1>16, <1>17, <1>18, <1>19, <1>20, <1>21, <1>22, <1>23, <1>24, <1>25,
      <1>26, <1>27, <1>28, <1>29, <1>30, <1>31, <1>32, <1>33, <1>34, <1>35, <1>36 DEF Next,
      Progress, OprfStep, CallerStep

\* The layout of the memory does not change.
LEMMA LayoutKept ==
  ASSUME UNCHANGED <<values, m>>
  PROVE  /\ n' = n /\ Bytes' = Bytes /\ Fits' = Fits
         /\ \A k : BlockAt(k)' = BlockAt(k) /\ Value(k)' = Value(k)
         /\ \A f : Masks(f)' = Masks(f)
BY DEF n, Bytes, Fits, BlockAt, offset, Value, Masks, Raw

\* The blocks of F are put at the end of the output.
LEMMA RecvPStep ==
  ASSUME TypeInv, RecvP, UNCHANGED <<values, m>>, Fits
  PROVE  /\ \A q \in Bytes : q \div m < expanded' => Expanded(q)'
         /\ m >= BlockSize => \A k \in 0 .. n - 1 : Intact(k)'
<1>0. /\ n' = n /\ Bytes' = Bytes /\ m' = m /\ oprfOutput' = oprfOutput
      /\ \A k : BlockAt(k)' = BlockAt(k)
      /\ \A f : Masks(f)' = Masks(f)
  BY LayoutKept DEF RecvP
<1>1. /\ expanded' = IF m = BlockSize THEN n ELSE 0
      /\ mem' = [q \in Bytes |->
           IF m >= BlockSize /\ q >= BlockAt(0) /\ q < BlockAt(n)
           THEN <<Raw(oprfOutput[(q - BlockAt(0)) \div BlockSize]),
                  q - BlockAt((q - BlockAt(0)) \div BlockSize)>>
           ELSE <<Junk, 0>>]
  BY DEF RecvP
<1>2. ASSUME m >= BlockSize, NEW k \in 0 .. n - 1, NEW b \in 0 .. BlockSize - 1
      PROVE  mem'[BlockAt(k) + b] = <<Raw(oprfOutput[k]), b>>
  <2> DEFINE q == BlockAt(k) + b
  <2>1. /\ q \in Bytes /\ q >= BlockAt(0) /\ q < BlockAt(n)
        /\ (q - BlockAt(0)) \div BlockSize = k /\ BlockAt(k) \in Int
    BY <1>2, Layout
  <2>2. q - BlockAt(k) = b
    BY <2>1, WidthFacts
  <2> HIDE DEF q
  <2>3. mem'[q] = <<Raw(oprfOutput[k]), q - BlockAt(k)>>
    BY <1>1, <1>2, <2>1
  <2>4. QED
    BY <2>2, <2>3 DEF q
<1>3. m >= BlockSize => \A k \in 0 .. n - 1 : Intact(k)'
  BY <1>0, <1>2 DEF Intact, Raw
<1>4. ASSUME NEW q \in Bytes, q \div m < expanded'
      PROVE  Expanded(q)'
  <2>1. /\ q \in Nat /\ q \div m \in 0 .. n - 1 /\ q % m \in 0 .. m - 1
        /\ q = m * (q \div m) + (q % m) /\ m \in Nat
    BY <1>4, WidthFacts
  <2>2. m = BlockSize
    BY <1>1, <1>4, <2>1
  <2>8. PICK k \in 0 .. n - 1, b \in 0 .. BlockSize - 1 : k = q \div m /\ b = q % m
    BY <2>1, <2>2
  <2>9. m >= BlockSize
    BY <2>1, <2>2
  <2>3. BlockAt(q \div m) = m * (q \div m)
    BY <2>2, <2>8, <2>9, Layout
  <2>4. mem'[BlockAt(q \div m) + (q % m)] = <<Raw(oprfOutput[q \div m]), q % m>>
    BY <1>2, <2>8, <2>9
  <2>5. mem'[q] = <<Raw(oprfOutput[q \div m]), q % m>>
    BY <2>1, <2>3, <2>4
  <2>6. Masks(oprfOutput[q \div m]) = Raw(oprfOutput[q \div m])
    BY <2>1, <2>2 DEF Masks
  <2>7. QED
    BY <1>0, <2>5, <2>6 DEF Expanded
<1>5. QED
  BY <1>3, <1>4

\* Expanding one value finds its block, and leaves those of the later ones.
LEMMA ExpandStep ==
  ASSUME TypeInv, Expand, UNCHANGED <<values, m>>, Fits,
         \A q \in Bytes : q \div m < expanded => Expanded(q),
         m >= BlockSize => \A k \in expanded .. n - 1 : Intact(k)
  PROVE  /\ \A q \in Bytes : q \div m < expanded' => Expanded(q)'
         /\ m >= BlockSize => \A k \in expanded' .. n - 1 : Intact(k)'
<1>0. /\ n' = n /\ Bytes' = Bytes /\ m' = m /\ oprfOutput' = oprfOutput
      /\ \A k : BlockAt(k)' = BlockAt(k)
      /\ \A f : Masks(f)' = Masks(f)
  BY LayoutKept DEF Expand
<1>1. /\ expanded' = expanded + 1 /\ expanded < n
      /\ mem' = [q \in Bytes |-> IF q \div m = expanded
                                 THEN <<OprfOutput(expanded), q % m>> ELSE mem[q]]
  BY DEF Expand
<1>2. n \in Nat /\ expanded \in 0 .. n - 1 /\ m \in Nat /\ BlockSize \in Nat
  BY <1>1, WidthFacts DEF TypeInv, ArrayInv
<1>3. OprfOutput(expanded) = Masks(oprfOutput[expanded])
  <2>1. CASE m < BlockSize
    BY <2>1 DEF OprfOutput
  <2>2. CASE m >= BlockSize
    <3>1. Intact(expanded)
      BY <1>2, <2>2
    <3>2. QED
      BY <3>1 DEF OprfOutput, Intact
  <2>3. QED
    BY <1>2, <2>1, <2>2
<1>4. ASSUME NEW q \in Bytes, q \div m < expanded'
      PROVE  Expanded(q)'
  <2>1. q \div m \in Nat
    BY <1>4, WidthFacts
  <2>2. CASE q \div m = expanded
    BY <1>0, <1>1, <1>3, <2>2 DEF Expanded
  <2>3. CASE q \div m # expanded
    <3>1. q \div m < expanded
      BY <1>1, <1>2, <1>4, <2>1, <2>3
    <3>2. mem[q] = <<Masks(oprfOutput[q \div m]), q % m>>
      BY <3>1 DEF Expanded
    <3>3. QED
      BY <1>0, <1>1, <2>3, <3>2 DEF Expanded
  <2>4. QED
    BY <2>2, <2>3
<1>5. ASSUME m >= BlockSize, NEW k \in expanded' .. n - 1, NEW b \in 0 .. BlockSize - 1
      PROVE  mem'[BlockAt(k) + b] = <<Raw(oprfOutput[k]), b>>
  <2>1. k \in 0 .. n - 1 /\ k \in expanded .. n - 1 /\ k > expanded
    BY <1>1, <1>2, <1>5
  <2>2. PICK q \in Bytes : q = BlockAt(k) + b
    BY <1>5, <2>1, Layout
  <2>3. q \div m >= k /\ q \div m \in Nat
    BY <1>5, <2>1, <2>2, Layout, WidthFacts
  <2>4. q \div m # expanded
    BY <1>2, <2>1, <2>3
  <2>5. mem'[q] = mem[q]
    BY <1>1, <2>4
  <2>6. mem[BlockAt(k) + b] = <<Raw(oprfOutput[k]), b>>
    BY <1>5, <2>1 DEF Intact
  <2>7. QED
    BY <2>2, <2>5, <2>6
<1>6. QED
  BY <1>0, <1>4, <1>5 DEF Intact, Raw

\* What was decoded is added.
LEMMA AddStep ==
  ASSUME TypeInv, OutputInv, AddDecoded, UNCHANGED <<values, m, outputs>>,
         \A q \in Bytes : q \div m < expanded => Expanded(q)
  PROVE  \A q \in Bytes : Added(q)'
<1>0. /\ n' = n /\ Bytes' = Bytes /\ m' = m /\ okvs' = okvs
      /\ \A k : Value(k)' = Value(k)
      /\ \A f : Masks(f)' = Masks(f)
  BY LayoutKept DEF AddDecoded
<1>1. /\ expanded = n /\ pc["R"] = "expand"
      /\ mem' = [q \in Bytes |-> <<XOR(mem[q][1], okvs[Value(q \div m)]), mem[q][2]>>]
  BY DEF AddDecoded
<1>2. ASSUME NEW q \in Bytes PROVE Added(q)'
  <2>1. q \div m \in 0 .. n - 1 /\ n \in Nat
    BY <1>2, WidthFacts
  <2>2. q \div m < expanded
    BY <1>1, <2>1
  <2>3. mem[q] = <<Masks(oprfOutput[q \div m]), q % m>>
    BY <2>2 DEF Expanded
  <2>4. oprfOutput[q \div m] = outputs[Value(q \div m)]
    BY <1>1, <2>1 DEF OutputInv
  <2>5. mem'[q] = <<XOR(Masks(outputs[Value(q \div m)]), okvs[Value(q \div m)]), q % m>>
    BY <1>1, <2>3, <2>4
  <2>6. QED
    BY <1>0, <2>5 DEF Added, XOR
<1>3. QED
  BY <1>2

\* What the receiver of the programmable function has in its memory stays right.
LEMMA MemStep ==
  ASSUME IInv, MemInv, Next
  PROVE  MemInv'
<1> SUFFICES ASSUME caller' = "opprf", pc'["R"] \in {"expand", "done"}
             PROVE  /\ Ready' /\ okvs' = [v \in Items |-> Programmed(v)]'
                    /\ Fits' /\ pc'["R"] = "expand" =>
                         /\ \A q \in Bytes' : (q \div m < expanded)' => Expanded(q)'
                         /\ m' >= BlockSize => \A k \in (expanded .. n - 1)' : Intact(k)'
                    /\ Fits' /\ pc'["R"] = "done" => \A q \in Bytes' : Added(q)'
  BY DEF MemInv
<1>0. /\ TypeInv /\ SenderInv /\ OutputInv /\ UNCHANGED <<params, caller, theirs, values, m>>
      /\ pc = [X \in Sides |-> pc[X]] /\ "R" \in Sides
  BY ConstantStep, SidesFacts DEF IInv, params, TypeInv, PcInv
<1>00. n' = n /\ Bytes' = Bytes /\ Fits' = Fits
  BY <1>0, LayoutKept
<1>1. Ready /\ okvs' = [v \in Items |-> Programmed(v)]
  <2>1. CASE RecvP
    <3>1. pc["R"] = "recvP" /\ CanRecv("R", "main") /\ okvs' = Received("R")
      BY <2>1 DEF RecvP
    <3>2. Got("R") = 3 /\ Body("R", Got("R"), Received("R"))
      BY <3>1, <1>0, HeadSays DEF Got
    <3>3. QED
      BY <1>0, <3>1, <3>2 DEF Body
  <2>2. CASE Expand
    BY <1>0, <2>2 DEF Expand, MemInv
  <2>3. CASE AddDecoded
    BY <1>0, <2>3 DEF AddDecoded, MemInv
  <2>4. CASE pc'["R"] = pc["R"] /\ UNCHANGED <<outputs, oprfOutput, okvs, mem, expanded>>
    BY <1>0, <2>4 DEF MemInv
  <2>5. QED
    BY <1>0, <2>1, <2>2, <2>3, <2>4, MemKinds
<1>2. UNCHANGED <<recvPos, mSeed, mB, mW, encoded>>
  BY <1>0, <1>1, PlaceKept
<1>3. Ready' /\ \A v : Programmed(v)' = Programmed(v)
  BY <1>0, <1>1, <1>2, ReadyKept, ProgrammedKept
<1>4. okvs' = [v \in Items |-> Programmed(v)]'
  BY <1>1, <1>3
<1>5. ASSUME Fits
      PROVE  /\ pc'["R"] = "expand" =>
                  /\ \A q \in Bytes : q \div m < expanded' => Expanded(q)'
                  /\ m >= BlockSize => \A k \in expanded' .. n - 1 : Intact(k)'
             /\ pc'["R"] = "done" => \A q \in Bytes : Added(q)'
  <2>1. CASE RecvP
    <3>1. pc'["R"] = "expand" /\ expanded' = IF m = BlockSize THEN n ELSE 0
      BY <1>0, <2>1 DEF RecvP, Goto
    <3>2. \A k \in expanded' .. n - 1 : k \in 0 .. n - 1
      BY <1>0, <3>1, WidthFacts
    <3>3. QED
      BY <1>0, <1>5, <2>1, <3>1, <3>2, RecvPStep
  <2>2. CASE Expand
    <3>1. pc["R"] = "expand" /\ pc'["R"] = "expand"
      BY <2>2 DEF Expand
    <3>2. /\ \A q \in Bytes : q \div m < expanded => Expanded(q)
          /\ m >= BlockSize => \A k \in expanded .. n - 1 : Intact(k)
      BY <1>0, <1>5, <3>1 DEF MemInv
    <3>3. QED
      BY <1>0, <1>5, <2>2, <3>1, <3>2, ExpandStep
  <2>3. CASE AddDecoded
    <3>1. pc["R"] = "expand" /\ pc'["R"] = "done" /\ UNCHANGED outputs
      BY <1>0, <2>3 DEF AddDecoded, Goto, recverVars
    <3>2. \A q \in Bytes : q \div m < expanded => Expanded(q)
      BY <1>0, <1>5, <3>1 DEF MemInv
    <3>3. QED
      BY <1>0, <2>3, <3>1, <3>2, AddStep
  <2>4. CASE pc'["R"] = pc["R"] /\ UNCHANGED <<outputs, oprfOutput, okvs, mem, expanded>>
    <3>1. \A q, k : Expanded(q)' = Expanded(q) /\ Intact(k)' = Intact(k) /\ Added(q)' = Added(q)
      BY <1>0, <2>4, LayoutKept DEF Expanded, Intact, Added, XOR, Raw
    <3>2. QED
      BY <1>0, <1>5, <2>4, <3>1 DEF MemInv
  <2>5. QED
    BY <1>0, <2>1, <2>2, <2>3, <2>4, MemKinds
<1>6. QED
  BY <1>0, <1>00, <1>3, <1>4, <1>5

\* Every m the tests use, and every other one for which no value of F lies where
\* an earlier one is expanded to, gives the receiver what was programmed.
THEOREM ProgramsHolds == Spec => []Programs
<1>1. Init => MemInv
  BY DEF Init, MemInv, Sides
<1>2. IInv /\ MemInv /\ [Next]_vars => MemInv'
  <2> SUFFICES ASSUME IInv, MemInv, [Next]_vars PROVE MemInv'
    OBVIOUS
  <2>1. CASE Next
    BY <2>1, MemStep
  <2>2. CASE UNCHANGED vars
    <3>1. UNCHANGED <<params, values, recvPos, mSeed, mB, mW, encoded, caller, pc, theirs, outputs,
                      m, okvs, mem, expanded, oprfOutput>>
      BY <2>2 DEF vars, params, senderVars, recverVars, callerVars
    <3>2. (Ready => Ready') /\ \A v : Programmed(v)' = Programmed(v)
      BY <3>1, ReadyKept, ProgrammedKept
    <3>3. n' = n /\ Bytes' = Bytes /\ Fits' = Fits
      BY <3>1, LayoutKept
    <3>4. \A q, k : Expanded(q)' = Expanded(q) /\ Intact(k)' = Intact(k) /\ Added(q)' = Added(q)
      BY <3>1, LayoutKept DEF Expanded, Intact, Added, XOR, Raw
    <3>5. [v \in Items |-> Programmed(v)]' = [v \in Items |-> Programmed(v)]
      BY <3>2
    <3>6. QED
      BY <3>1, <3>2, <3>3, <3>4, <3>5 DEF MemInv
  <2>3. QED
    BY <2>1, <2>2
<1>3. IInv /\ MemInv => Programs
  <2> SUFFICES ASSUME IInv, MemInv, caller = "opprf", pc["R"] = "done", encoded, FewChunks,
                      m <= BlockSize \/ m >= 2 * BlockSize \/ (n * m) % BlockSize = 0,
                      NEW q \in Bytes, NEW v, v = Value(q \div m)
               PROVE  /\ mem[q] = <<SenderEval(v), q % m>>
                      /\ v \in theirs => SenderEval(v) = val(v)
    BY DEF Programs, ProgrammedBytes
  <2>1. TypeInv /\ Ready /\ okvs = [w \in Items |-> Programmed(w)] /\ Added(q)
    BY DEF IInv, MemInv, Fits
  <2>2. v \in values /\ v \in Items
    BY <2>1, WidthFacts, ValueFacts, ParamFacts DEF TypeInv
  <2>3. outputs[v] = Eval(v)
    <3>1. outputs[v] = Finish(Decoded(v), XOR(ws, wr), v)
      BY <2>2 DEF IInv, OutputInv
    <3>2. QED
      BY <2>1, <2>2, <3>1, OutputIsEval
  <2>4. mem[q] = <<XOR(Masks(Eval(v)), Programmed(v)), q % m>>
    BY <2>1, <2>2, <2>3 DEF Added
  <2>5. SenderEval(v) = XOR(Programmed(v), Masks(Eval(v)))
    BY DEF SenderEval, OprfEval, InPlace
  <2>6. XOR(Masks(Eval(v)), Programmed(v)) = XOR(Programmed(v), Masks(Eval(v)))
    BY DEF XOR
  <2>7. ASSUME v \in theirs PROVE SenderEval(v) = val(v)
    <3>1. Programmed(v) = XOR(val(v), Masks(Eval(v)))
      BY <2>7 DEF Programmed, OprfEval, InPlace
    <3>2. \A x, y : XOR(XOR(x, y), y) = x
      BY DEF XOR
    <3>3. QED
      BY <2>5, <3>1, <3>2
  <2>8. QED
    BY <2>4, <2>5, <2>6, <2>7
<1>4. QED
  BY <1>1, <1>2, <1>3, IInvHolds, PTL DEF Spec

=============================================================================
