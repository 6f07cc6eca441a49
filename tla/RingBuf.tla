-------------------------------- MODULE RingBuf --------------------------------
(***************************************************************************)
(* util/ringbuf.c: a buffer of Size bytes between head and tail, for one   *)
(* thread.                                                                 *)
(*                                                                         *)
(* `unread` is what a reader should still get.  ringbuff_write copies to   *)
(* head, whatever is there, and neither copy turns at the end of the       *)
(* buffer; when head meets tail the buffer counts as empty.  So the code   *)
(* works for one message at a time, written into an empty buffer, that     *)
(* leaves a byte free and ends before the end: `sound` says that every     *)
(* write was of that kind.  A copy past the end ends the run ("overrun").  *)
(***************************************************************************)
EXTENDS Integers, Sequences, FiniteSets

CONSTANTS
    Size,       \* r->size
    Bytes, NewLine

VARIABLES
    buff,       \* Size bytes
    head, tail,
    unread,     \* history: the bytes written and not read or cleared, while sound
    sound,      \* history: one message at a time, inside the buffer
    ran         \* "up", "overrun"

vars == <<buff, head, tail, unread, sound, ran>>

Init ==
    /\ buff = [i \in 0 .. Size - 1 |-> "zero"]
    /\ head = 0 /\ tail = Size
    /\ unread = << >> /\ sound = TRUE /\ ran = "up"

is_empty == head = tail

\* Mutation: without "size +", the difference of two size_t wraps (at 16 here).
UseSize_Wraps == ((tail - head) % 16) % Size
get_use_size == (Size + tail - head) % Size

get_remain == Size - get_use_size

-----------------------------------------------------------------------------
Overrun(size) ==
    /\ head + size > Size
    /\ ran' = "overrun"
    /\ UNCHANGED <<buff, head, tail, unread, sound>>

\* A write that get_remain lets pass; the others return -1 and change nothing.
ringbuff_write(data) ==
    /\ ran = "up" /\ Len(data) <= get_remain
    /\ \/ Overrun(Len(data))
       \/ /\ head + Len(data) <= Size
          /\ buff' = [i \in 0 .. Size - 1 |->
                         IF i \in head .. head + Len(data) - 1 THEN data[i - head + 1] ELSE buff[i]]
          /\ tail' = (tail + Len(data)) % Size
          /\ sound' = (sound /\ unread = << >> /\ Len(data) < Size)
          /\ unread' = IF sound' THEN data ELSE << >>
          /\ UNCHANGED <<head, ran>>

\* r_sz bytes leave the buffer, for a caller with room for them.
Reads(r_sz) ==
    /\ r_sz <= get_use_size
    /\ \/ Overrun(r_sz)
       \/ /\ head + r_sz <= Size
          /\ head' = (head + r_sz) % Size
          /\ unread' = IF sound THEN SubSeq(unread, r_sz + 1, Len(unread)) ELSE << >>
          /\ UNCHANGED <<buff, tail, sound, ran>>

ringbuff_read(r_sz) == ran = "up" /\ Reads(r_sz)

\* How many bytes ringbuffer_readline asks for: up to the first newline, or one
\* more than there are, or than fit, when it meets none.
LineSize(buf_sz) ==
    LET end == IF buf_sz < get_use_size THEN buf_sz ELSE get_use_size
        breaks == {pos \in 0 .. end - 1 : head + pos < Size /\ buff[head + pos] = NewLine}
    IN  1 + IF breaks = {} THEN end ELSE CHOOSE pos \in breaks : \A q \in breaks : pos <= q

ringbuffer_readline(buf_sz) ==
    /\ ran = "up" /\ ~ is_empty /\ buf_sz # 0
    /\ LineSize(buf_sz) <= buf_sz
    /\ Reads(LineSize(buf_sz))

ringbuff_clear ==
    /\ ran = "up"
    /\ tail' = head
    /\ unread' = << >>
    /\ UNCHANGED <<buff, head, sound, ran>>

Data == UNION {[1 .. k -> Bytes] : k \in 1 .. Size}

Next ==
    \/ \E data \in Data : ringbuff_write(data)
    \/ \E r_sz \in 1 .. Size : ringbuff_read(r_sz)
    \/ \E buf_sz \in 1 .. Size : ringbuffer_readline(buf_sz)
    \/ ringbuff_clear

Spec == Init /\ [][Next]_vars

-----------------------------------------------------------------------------
(* Properties.                                                             *)

\* Used for one message at a time inside the buffer, head, tail and the bytes
\* between them are always the unread bytes, in order, through reads of any
\* size, lines, and clears (c:48-101); and a line is the first of the unread
\* ones, if it is complete and fits.
RingOK ==
    sound /\ ran = "up" =>
        /\ get_use_size = Len(unread)
        /\ \A i \in 1 .. Len(unread) : buff[head + i - 1] = unread[i]
        /\ \A buf_sz \in 1 .. Size :
               LineSize(buf_sz) <= buf_sz /\ LineSize(buf_sz) <= get_use_size =>
                   /\ unread[LineSize(buf_sz)] = NewLine
                   /\ \A i \in 1 .. LineSize(buf_sz) - 1 : unread[i] # NewLine
=============================================================================
