------------------------------- MODULE RsOprf -------------------------------
(***************************************************************************)
(* The oblivious function of volePSI/RsOprf.cpp: the receiver learns       *)
(* F(v) for its values, the sender can compute F of anything (eval).       *)
(*                                                                         *)
(* The receiver encodes its values into an OKVS p whose row of v decodes   *)
(* to h(v).  A VOLE on a fork of the socket gives the sender mD and b, the *)
(* receiver a and c, with a + b = c * mD.  The receiver masks p with c and *)
(* sends it in chunks, the sender adds mD times what it gets to its b.     *)
(* Then F(v) is the hash of the row of v decoded from a (receiver), and    *)
(* from b with mD * h(v) added (sender).                                   *)
(*                                                                         *)
(* A block is a set of atoms, + is the symmetric difference, and mD times  *)
(* a block tags its atoms with "D".  A hash is injective.                  *)
(* The socket is a queue per direction which carries the messages of both  *)
(* slots, the main one and the fork: a slot can only receive the message   *)
(* at the head.  What the VOLE sends is external and given by a script.    *)
(* The module has no specification of its own: the callers, in TwoParty,   *)
(* say how send and receive are reached and what follows them.             *)
(***************************************************************************)
EXTENDS Integers, FiniteSets, Sequences, FiniteSetsExt

CONSTANTS
  Items,         \* the values, natural numbers
  ReceiverSets,  \* the sets of the receiver considered
  Sizes,         \* the sizes of the OKVS considered
  Types,         \* a subset of {"GCT", "RBMatrix"}
  Chunk,         \* blocks sent at once, 2^28 in the code
  Lanes,         \* blocks XORed per turn of an unrolled loop, 8 in the code
  VoleScripts,   \* who sends the messages of the VOLE: sequences of "S" and "R"
  Row(_, _),     \* Row(size, v): the columns of v
  Own(_, _)      \* Own(size, v): a column of v that no other item has

ASSUME ChunkAssumption == Lanes \in Nat \ {0} /\ Chunk \in Nat \ {0} /\ Chunk % Lanes = 0
ASSUME ItemAssumption == Items \subseteq Nat /\ IsFiniteSet(Items)
ASSUME ScriptAssumption == Sizes \subseteq Nat /\ VoleScripts \subseteq Seq({"S", "R"})
ASSUME ReceiverAssumption == ReceiverSets \subseteq (SUBSET Items) \ {{}}
ASSUME RowAssumption ==
  \A n \in Sizes, v \in Items :
    /\ Row(n, v) \subseteq 0 .. n - 1
    /\ Own(n, v) \in Row(n, v)
    /\ \A w \in Items \ {v} : Own(n, v) \notin Row(n, w)

Sides   == {"S", "R"}
Peer(X) == IF X = "S" THEN "R" ELSE "S"

VARIABLES
  mOKVSType, mMalicious,
  size,         \* of the OKVS, which both sides compute from the receiver's size
  script,       \* the VOLE's messages
  values,       \* the receiver's values
  inbox,        \* what was sent to a side and not yet received
  open,         \* the sides whose end of the socket is open
  pc,           \* where a side is
  vole,         \* the next step of a side's part of the VOLE, 0 before it starts
  mSeed, mB, recvPos, mW,                \* the sender
  Hws, encoded, p, pBegin, pSize, moved, cBegin, outputs   \* the receiver

params     == <<mOKVSType, mMalicious, size, script, values>>
senderVars == <<mSeed, mB, recvPos, mW>>
maskVars   == <<p, pBegin, pSize, moved, cBegin>>
recverVars == <<Hws, encoded, maskVars, outputs>>

-----------------------------------------------------------------------------
(* Blocks. *)

Cols == 0 .. size - 1

XOR(x, y) == (x \ y) \cup (y \ x)
Mul(x)    == {<<"D", s>> : s \in x}
XorOver(f, S) ==
  {s \in UNION {f[j] : j \in S} : Cardinality({j \in S : s \in f[j]}) % 2 = 1}

h(v) == {<<"h", v>>}     \* the hash of a value
a(j) == {<<"a", j>>}     \* the VOLE
c(j) == {<<"c", j>>}
ws   == {<<"ws", 0>>}    \* the coins of the two sides
wr   == {<<"wr", 0>>}
HashingSeed == {<<"seed", 0>>}
Junk == {<<"junk", 0>>}  \* what memory that was given away holds

H(x)  == {<<"H", x>>}    \* the hash of a block, and of a block keyed with a value
Hv(x, v) == {<<"H", x, v>>}

\* The last step of F, without and with the coins.
Finish(x, w, v) == IF mMalicious THEN Hv(XOR(x, w), v) ELSE H(x)

Lesser(m, n) == IF m < n THEN m ELSE n

-----------------------------------------------------------------------------
(* The socket. *)

\* A message: its slot, what it is (which its receiver does not see) and its
\* contents.
CanRecv(X, slot) == X \in open /\ inbox[X] # << >> /\ Head(inbox[X])[1] = slot
Received(X)      == Head(inbox[X])[3]
Taken(X)         == [inbox EXCEPT ![X] = Tail(@)]
Sent(X, kind, body) ==
  [inbox EXCEPT ![Peer(X)] = Append(@, <<"main", kind, body>>)]
Replied(X, kind, body) ==
  [inbox EXCEPT ![X] = Tail(@), ![Peer(X)] = Append(@, <<"main", kind, body>>)]

Goto(X, l) == pc' = [pc EXCEPT ![X] = l]

\* What was on its way from X is lost from some point on.
Breaks(X) ==
  /\ open' = open \ {X}
  /\ \E k \in 0 .. Len(inbox[Peer(X)]) :
       inbox' = [inbox EXCEPT ![Peer(X)] = SubSeq(@, 1, k)]

\* An exception leaves the protocol: the socket is closed.
Fail(X) == Goto(X, "failed") /\ Breaks(X)

\* The receive of a side that has nothing left to receive throws.
Waiting == {"recvSize", "seed", "recvW", "chunks", "recvHws", "recvWs", "recvHashes",
            "recvPSeed", "recvP"}
VoleWaits(X) == vole[X] \in 1 .. Len(script) /\ script[vole[X]] = Peer(X)

RecvFails(X) ==
  /\ X \in open /\ inbox[X] = << >> /\ Peer(X) \notin open
  /\ pc[X] \in Waiting \/ (pc[X] = "vole" /\ VoleWaits(X))
  /\ Fail(X)
  /\ UNCHANGED <<params, vole, senderVars, recverVars>>

\* A message that does not fit the buffers can no longer be delivered.
SendFails(X) ==
  /\ X \in open /\ Peer(X) \notin open
  /\ pc[X] = "sending" /\ inbox[Peer(X)] # << >>
  /\ Fail(X)
  /\ UNCHANGED <<params, vole, senderVars, recverVars>>

VoleSend(X) ==
  /\ X \in open /\ vole[X] \in 1 .. Len(script) /\ script[vole[X]] = X
  /\ inbox' = [inbox EXCEPT ![Peer(X)] = Append(@, <<"vole", "vole", {}>>)]
  /\ vole' = [vole EXCEPT ![X] = @ + 1]
  /\ UNCHANGED <<params, open, pc, senderVars, recverVars>>

VoleRecv(X) ==
  /\ VoleWaits(X) /\ CanRecv(X, "vole")
  /\ inbox' = Taken(X)
  /\ vole' = [vole EXCEPT ![X] = @ + 1]
  /\ UNCHANGED <<params, open, pc, senderVars, recverVars>>

VoleDone(X) == vole[X] = Len(script) + 1

-----------------------------------------------------------------------------
(* RsOprfSender. *)

\* init, then the VOLE starts and runs on by itself.
SendInit ==
  /\ pc["S"] = "oprf"
  /\ inbox' = IF mMalicious THEN Sent("S", "Hws", H(ws)) ELSE inbox
  /\ vole' = [vole EXCEPT !["S"] = 1]
  /\ Goto("S", "seed")
  /\ UNCHANGED <<params, open, senderVars, recverVars>>

RecvSeed ==
  /\ pc["S"] = "seed" /\ CanRecv("S", "main")
  /\ mSeed' = Received("S")
  /\ inbox' = Taken("S")
  /\ Goto("S", "vole")
  /\ UNCHANGED <<params, open, vole, mB, recvPos, mW, recverVars>>

SendVole ==
  /\ pc["S"] = "vole" /\ VoleDone("S")
  /\ mB' = [j \in Cols |-> XOR(a(j), Mul(c(j)))]
  /\ Goto("S", IF mMalicious THEN "recvW" ELSE "chunks")
  /\ UNCHANGED <<params, inbox, open, vole, mSeed, recvPos, mW, recverVars>>

RecvWNoXor_mut ==
  /\ pc["S"] = "recvW" /\ CanRecv("S", "main")
  /\ mW' = Received("S")
  /\ inbox' = Replied("S", "ws", ws)
  /\ Goto("S", "chunks")
  /\ UNCHANGED <<params, open, vole, mSeed, mB, recvPos, recverVars>>

\* The sender opens its coin once it has the receiver's.
RecvW ==
  /\ pc["S"] = "recvW" /\ CanRecv("S", "main")
  /\ mW' = XOR(Received("S"), ws)
  /\ inbox' = Replied("S", "ws", ws)
  /\ Goto("S", "chunks")
  /\ UNCHANGED <<params, open, vole, mSeed, mB, recvPos, recverVars>>

RecvChunk ==
  /\ pc["S"] = "chunks" /\ CanRecv("S", "main")
  /\ LET n == Lesser(size - recvPos, Chunk)
     IN  /\ mB' = [j \in Cols |->
                     IF j \in recvPos .. recvPos + n - 1
                     THEN XOR(mB[j], Mul(Received("S")[j - recvPos])) ELSE mB[j]]
         /\ recvPos' = recvPos + n
  /\ inbox' = Taken("S")
  /\ Goto("S", IF recvPos' = size THEN "evaluate" ELSE "chunks")
  /\ UNCHANGED <<params, open, vole, mSeed, mW, recverVars>>

\* F of v as the sender computes it: the columns of v follow from its seed.
Eval(v) ==
  LET o == XorOver(mB, Row(size, v)) IN
    Finish(XOR(o, IF mSeed = HashingSeed THEN Mul(h(v)) ELSE Junk), mW, v)

-----------------------------------------------------------------------------
(* RsOprfReceiver. *)

\* The seed goes out, the VOLE starts and runs on by itself.
RecvInit ==
  /\ pc["R"] = "oprf"
  /\ IF mMalicious
     THEN Goto("R", "recvHws") /\ UNCHANGED <<inbox, vole>>
     ELSE /\ inbox' = Sent("R", "seed", HashingSeed)
          /\ vole' = [vole EXCEPT !["R"] = 1]
          /\ Goto("R", "solve")
  /\ UNCHANGED <<params, open, senderVars, recverVars>>

RecvHwsVoleFirst_mut ==
  /\ pc["R"] = "recvHws" /\ (vole["R"] = 0 \/ CanRecv("R", "main"))
  /\ IF vole["R"] = 0
     THEN vole' = [vole EXCEPT !["R"] = 1] /\ UNCHANGED <<Hws, inbox, pc>>
     ELSE /\ VoleDone("R")
          /\ Hws' = Received("R")
          /\ inbox' = Replied("R", "seed", HashingSeed)
          /\ Goto("R", "solve")
          /\ UNCHANGED vole
  /\ UNCHANGED <<params, open, senderVars, encoded, maskVars, outputs>>

RecvHws ==
  /\ pc["R"] = "recvHws" /\ CanRecv("R", "main")
  /\ Hws' = Received("R")
  /\ inbox' = Replied("R", "seed", HashingSeed)
  /\ vole' = [vole EXCEPT !["R"] = 1]
  /\ Goto("R", "solve")
  /\ UNCHANGED <<params, open, senderVars, encoded, maskVars, outputs>>

\* An OKVS whose rows of the values decode to their hashes.
Encoding == [j \in Cols |-> UNION {h(v) : v \in {v \in values : Own(size, v) = j}}]

Solve ==
  /\ pc["R"] = "solve"
  /\ p' = Encoding /\ encoded' = TRUE
  /\ pSize' = size
  /\ Goto("R", "vole")
  /\ UNCHANGED <<params, inbox, open, vole, senderVars, Hws, pBegin, moved, cBegin,
                 outputs>>

\* RBOKVS::encode returns FAIL, which is not looked at: the output it zeroed
\* is taken for the encoding.
EncodeFails ==
  /\ pc["R"] = "solve" /\ mOKVSType = "RBMatrix"
  /\ p' = [j \in Cols |-> {}]
  /\ pSize' = size
  /\ Goto("R", "vole")
  /\ UNCHANGED <<params, inbox, open, vole, senderVars, Hws, encoded, pBegin, moved,
                 cBegin, outputs>>

\* Baxos::solve throws, while the VOLE is under way.
SolveThrows ==
  /\ pc["R"] = "solve" /\ mOKVSType = "GCT"
  /\ Fail("R")
  /\ UNCHANGED <<params, vole, senderVars, recverVars>>

RecvVole ==
  /\ pc["R"] = "vole" /\ VoleDone("R")
  /\ inbox' = IF mMalicious THEN Sent("R", "wr", wr) ELSE inbox
  /\ Goto("R", "mask")
  /\ UNCHANGED <<params, open, vole, senderVars, recverVars>>

\* The positions of a chunk the unrolled loop and the loop after it mask.  The
\* latter ends at what is left of p, which is the chunk's end only if p was
\* not cut.
MaskedMain_mut(n, left) == 0 .. (n \div Lanes) * Lanes - 1

Masked(n, left) == 0 .. (n \div Lanes) * Lanes - 1 \cup (n \div Lanes) * Lanes .. left - 1

MaskChunkKeepsSize_mut ==
  /\ pc["R"] = "mask" /\ cBegin < size
  /\ LET n     == Lesser(pSize, Chunk)
         begin == IF pSize # n THEN pBegin + n ELSE pBegin
         left  == pSize
         masked == [j \in Cols |->
                      IF j - pBegin \in Masked(n, left)
                      THEN XOR(p[j], c(j - pBegin + cBegin)) ELSE p[j]]
         first == IF left # n THEN pBegin ELSE begin
     IN  /\ p' = masked
         /\ pBegin' = begin /\ pSize' = left
         /\ moved' = (moved \/ left = n)
         /\ cBegin' = cBegin + n
         /\ inbox' = Sent("R", "chunk", [i \in 0 .. n - 1 |->
                                  IF moved THEN Junk ELSE masked[first + i]])
  /\ \/ Goto("R", "mask")
     \/ Goto("R", "sending")
  /\ UNCHANGED <<params, open, vole, senderVars, Hws, encoded, outputs>>

\* One turn of the loop: a chunk is cut off p, unless it is all of p, masked
\* with c, and sent.  When what is left of p is as large as the chunk, p is
\* sent instead, and its memory goes with the message.
MaskChunk ==
  /\ pc["R"] = "mask" /\ cBegin < size
  /\ LET n     == Lesser(pSize, Chunk)
         begin == IF pSize # n THEN pBegin + n ELSE pBegin
         left  == IF pSize # n THEN pSize - n ELSE pSize
         masked == [j \in Cols |->
                      IF j - pBegin \in Masked(n, left)
                      THEN XOR(p[j], c(j - pBegin + cBegin)) ELSE p[j]]
         first == IF left # n THEN pBegin ELSE begin
     IN  /\ p' = masked
         /\ pBegin' = begin /\ pSize' = left
         /\ moved' = (moved \/ left = n)
         /\ cBegin' = cBegin + n
         /\ inbox' = Sent("R", "chunk", [i \in 0 .. n - 1 |->
                                  IF moved THEN Junk ELSE masked[first + i]])
  /\ \/ Goto("R", "mask")
     \/ Goto("R", "sending")
  /\ UNCHANGED <<params, open, vole, senderVars, Hws, encoded, outputs>>

\* A message that did not fit the buffers has been read.
SendingEnds ==
  /\ pc["R"] = "sending" /\ inbox["S"] = << >>
  /\ Goto("R", "mask")
  /\ UNCHANGED <<params, inbox, open, vole, senderVars, recverVars>>

Decoded(v) == XorOver([j \in Cols |-> a(j)], Row(size, v))

Decode ==
  /\ pc["R"] = "mask" /\ cBegin = size
  /\ outputs' = [v \in values |-> IF mMalicious THEN Decoded(v) ELSE H(Decoded(v))]
  /\ Goto("R", IF mMalicious THEN "recvWs" ELSE "returned")
  /\ UNCHANGED <<params, inbox, open, vole, senderVars, Hws, encoded, maskVars>>

\* The sender's coin must be the one it committed to.
RecvWs ==
  /\ pc["R"] = "recvWs" /\ CanRecv("R", "main")
  /\ IF H(Received("R")) = Hws
     THEN /\ outputs' = [v \in values |-> Finish(outputs[v], XOR(Received("R"), wr), v)]
          /\ inbox' = Taken("R")
          /\ Goto("R", "returned")
          /\ UNCHANGED open
     ELSE Fail("R") /\ UNCHANGED outputs
  /\ UNCHANGED <<params, vole, senderVars, Hws, encoded, maskVars>>

-----------------------------------------------------------------------------

OprfInit ==
  /\ mOKVSType \in Types
  /\ mMalicious \in BOOLEAN
  /\ size \in Sizes
  /\ script \in VoleScripts
  /\ values \in ReceiverSets
  /\ inbox = [X \in Sides |-> << >>]
  /\ open = Sides
  /\ vole = [X \in Sides |-> 0]
  /\ mSeed = {} /\ mB = [j \in Cols |-> {}] /\ recvPos = 0 /\ mW = {}
  /\ Hws = H({})
  /\ encoded = FALSE
  /\ p = [j \in Cols |-> {}] /\ pBegin = 0 /\ pSize = 0 /\ moved = FALSE /\ cBegin = 0
  /\ outputs = << >>

OprfStep ==
  \/ SendInit \/ RecvSeed \/ SendVole \/ RecvW \/ RecvChunk
  \/ RecvInit \/ RecvHws \/ Solve \/ EncodeFails \/ SolveThrows \/ RecvVole
  \/ MaskChunk \/ SendingEnds \/ Decode \/ RecvWs
  \/ \E X \in Sides : VoleSend(X) \/ VoleRecv(X) \/ RecvFails(X) \/ SendFails(X)
=============================================================================
