---------------------------- MODULE SocketBuffer ----------------------------
(***************************************************************************)
(* The buffer of a connection (util/socket_buffer.h): memory of a capacity *)
(* with a read and a write index.  A unit of what is sent stands for some  *)
(* bytes.                                                                  *)
(***************************************************************************)
EXTENDS Integers, Sequences

CONSTANTS
    BUFFER_MAX_READ,      \* capacity from which memory is given back (8192)
    DEFAULT_BUFFER_SIZE,  \* first capacity (32)
    PrintMin              \* room that _vprintf makes first (64)

ASSUME BufferAssumption ==
    BUFFER_MAX_READ \in Nat /\ DEFAULT_BUFFER_SIZE \in Nat \ {0} /\ PrintMin \in Nat

\* mem is the memory up to the write index.
EmptyBuffer == [mem |-> <<>>, cap |-> 0, read |-> 0]

Content(b) == SubSeq(b.mem, b.read + 1, Len(b.mem))
readable_len(b) == Len(b.mem) - b.read
writeable_len(b) == b.cap - Len(b.mem)

advance_read_index(b, n) == [b EXCEPT !.read = @ + n]

Fitted(b, cap) == [mem |-> Content(b), cap |-> cap, read |-> 0]

\* Memory is given back only if there is room for size.
compact(b, size) ==
    IF writeable_len(b) < size THEN b ELSE Fitted(b, readable_len(b))

\* The capacity is doubled until it is enough.
Doubled(cap, min) ==
    cap * 2 ^ (CHOOSE k \in 0..min : cap * 2 ^ k >= min /\ \A j \in 0..(k - 1) : cap * 2 ^ j < min)

\* Its call of compact comes where there is too little room, and does nothing.
ensure_writeable(b, min) ==
    IF writeable_len(b) >= min THEN b
    ELSE Fitted(b, Doubled(IF b.cap = 0 THEN DEFAULT_BUFFER_SIZE ELSE b.cap,
                           Len(b.mem) + min))

_write(b, s) ==
    LET c == ensure_writeable(b, Len(s)) IN [c EXCEPT !.mem = @ \o s]

\* vsnprintf needs room for a final zero.
_printf(b, s) ==
    LET c == ensure_writeable(b, PrintMin)
        d == IF Len(s) < writeable_len(c) THEN c ELSE ensure_writeable(c, 2 * Len(s))
    IN  [d EXCEPT !.mem = @ \o s]

\* Mutant: what does not fit goes to the start of the memory.
read_fd_Wraps(b, s) ==
    IF Len(s) <= writeable_len(b) THEN [b EXCEPT !.mem = @ \o s]
    ELSE _write(b, SubSeq(s, writeable_len(b) + 1, Len(s)) \o SubSeq(s, 1, writeable_len(b)))

\* readv into the room that there is, and into extrabuf.
read_fd(b, s) ==
    LET room == writeable_len(b)
    IN  IF Len(s) <= room THEN [b EXCEPT !.mem = @ \o s]
        ELSE _write([b EXCEPT !.mem = @ \o SubSeq(s, 1, room)], SubSeq(s, room + 1, Len(s)))

\* "recovery socket buffer" in conn_read and conn_write.
Recover(b) ==
    IF b.cap > BUFFER_MAX_READ /\ readable_len(b) < b.cap \div 2
    THEN compact(b, 2 * readable_len(b)) ELSE b

\* The indexes are in order, and nothing is outside the memory.
IsBuffer(b) == b.read \in 0..Len(b.mem) /\ Len(b.mem) <= b.cap
=============================================================================
