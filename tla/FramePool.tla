----------------------------- MODULE FramePool -----------------------------
(***************************************************************************)
(* What the frame receiver promises about the shared frame buffers, with   *)
(* no packets, frames or timers in it: a buffer has one owner at a time,   *)
(* it goes round the cycle free -> decoder -> downstream -> returning ->   *)
(* free, and its content changes only in the decoder's hands.  The frame   *)
(* processor that owns a buffer can read it without a lock because of this.*)
(* MercuryFrameDecoder is shown to implement this specification.           *)
(***************************************************************************)
CONSTANT Buffers     \* the buffers of the shared buffer manager

VARIABLES owner,     \* owner[b]: who may touch buffer b
          content    \* content[b]: header and payload of buffer b

vars == <<owner, content>>

Owners == {"free", "decoder", "downstream", "returning"}

\* No buffer's content changes but that of b, which is left open.
Rewrite(b) == content' = [content EXCEPT ![b] = content'[b]]

Pass(b, from, to) == /\ owner[b] = from
                     /\ owner' = [owner EXCEPT ![b] = to]

Init == /\ owner = [b \in Buffers |-> "free"]
        /\ content = [b \in Buffers |-> content[b]]

\* The decoder takes a free buffer for a new frame and initialises it.
Take(b) == Pass(b, "free", "decoder") /\ Rewrite(b)

\* The decoder writes a header field or a packet into a buffer it owns.
Fill(b) == owner[b] = "decoder" /\ Rewrite(b) /\ UNCHANGED owner

\* The decoder hands the finished buffer over, with a last write to it.
HandOver(b) == Pass(b, "decoder", "downstream") /\ Rewrite(b)

\* The frame processor lets go of the buffer; the receiver then reuses it.
Return(b) == Pass(b, "downstream", "returning") /\ UNCHANGED content

Recycle(b) == Pass(b, "returning", "free") /\ UNCHANGED content

Next == \E b \in Buffers :
          Take(b) \/ Fill(b) \/ HandOver(b) \/ Return(b) \/ Recycle(b)

Spec == Init /\ [][Next]_vars
=============================================================================
