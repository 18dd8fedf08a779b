---- MODULE EspContext ----
(***************************************************************************)
(* Sequence numbers of an ESP SA in userland (libipsec/esp_context.c,        *)
(* esp_packet.c): the sender numbers its packets and stops before the        *)
(* numbers cycle; the receiver keeps those it authenticated in a circular    *)
(* bitmap below the highest one.  Packets are lost, duplicated, reordered,   *)
(* and damaged.  Arithmetic is that of unsigned integers, of which the       *)
(* numbers are.  An SA is used by one thread at a time (IpsecSaMgr).         *)
(***************************************************************************)
EXTENDS Integers, FiniteSets

CONSTANTS
    Modulus,        \* 2^32: sequence numbers and unsigned integers are below
    window_size     \* ESP_DEFAULT_WINDOW_SIZE

ASSUME SizesAssumption ==
    /\ Modulus \in Nat /\ window_size \in 1..Modulus
    /\ Modulus % window_size = 0

Seqnos == 0..(Modulus - 1)

VARIABLES
    sent,           \* last_seqno of the outbound context
    last_seqno,     \* of the inbound context: the highest one authenticated
    seqno_index,    \* its bit in the window
    window,         \* the bits that are set
    accepted        \* history: the numbers of the packets that were delivered

context == <<sent, last_seqno, seqno_index, window, accepted>>

Indices == 0..(window_size - 1)

ContextType ==
    /\ sent \in Seqnos /\ last_seqno \in Seqnos
    /\ seqno_index \in Indices /\ window \subseteq Indices
    /\ accepted \subseteq Seqnos

\* the difference of two unsigned integers
Minus(a, b) == (a - b) % Modulus

\* Mutant: counted from the wrong end.
BitAbove(seqno) == (seqno_index + Minus(last_seqno, seqno)) % window_size

\* the bit of a number in the window
Bit(seqno) == Minus(seqno_index, Minus(last_seqno, seqno)) % window_size

InWindow(seqno) == seqno > 0 /\ window_size > Minus(last_seqno, seqno)

verify_seqno(seqno) ==
    \/ seqno > last_seqno
    \/ InWindow(seqno) /\ Bit(seqno) \notin window

\* the bits cleared when the window is shifted
Passed(shift) == {(seqno_index + i) % window_size : i \in 1..shift}

Smaller(a, b) == IF a < b THEN a ELSE b

set_authenticated_seqno(seqno) ==
    IF seqno > last_seqno
    THEN LET shift == Smaller(seqno - last_seqno, window_size)
             top == (seqno_index + shift) % window_size
         IN /\ last_seqno' = seqno
            /\ seqno_index' = top
            /\ window' = (window \ Passed(shift)) \cup {top}
    ELSE /\ window' = window \cup {Bit(seqno)}
         /\ UNCHANGED <<last_seqno, seqno_index>>

\* encrypt(): no number is used twice
Encrypt ==
    /\ sent # Modulus - 1
    /\ sent' = sent + 1
    /\ UNCHANGED <<last_seqno, seqno_index, window, accepted>>

\* decrypt() of a packet that was sent and is intact; of others nothing is kept
Decrypt(seqno) ==
    /\ seqno \in 1..sent
    /\ verify_seqno(seqno)
    /\ set_authenticated_seqno(seqno)
    /\ accepted' = accepted \cup {seqno}
    /\ UNCHANGED sent

ContextInit ==
    /\ sent = 0 /\ last_seqno = 0 /\ seqno_index = 0
    /\ window = {} /\ accepted = {}

ContextNext == Encrypt \/ \E seqno \in Seqnos : Decrypt(seqno)

ContextSpec == ContextInit /\ [][ContextNext]_context

---------------------------------------------------------------------------
(* Properties                                                               *)

\* The bitmap is an exact record of the window, whatever its index and however far
\* it was shifted: a packet is accepted if it was not accepted before and is fewer
\* than window_size behind the highest number, and every such packet is.
WindowExact ==
    \A seqno \in Seqnos \ {0} :
        verify_seqno(seqno) <=> seqno + window_size > last_seqno /\ seqno \notin accepted

\* verify_seqno() accepts a packet exactly if it is new and in the window, up to
\* the last sequence number, after which none is sent.
WindowSound == ContextType /\ WindowExact
====
