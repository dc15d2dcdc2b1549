----------------------------- MODULE WordMemory -----------------------------
(***************************************************************************)
(* What a Wishbone master may expect of its memory: one request at a time, *)
(* a write is in the memory when it is acknowledged and changes one word,  *)
(* a read is acknowledged with the word of its own address.                *)
(***************************************************************************)
CONSTANTS Addresses, Words

VARIABLES
    memory,
    request,       \* [addr, dat, we, stb]: stb while it is not answered
    reply

MemoryInit == memory \in [Addresses -> Words] /\ ~request.stb

Request ==
    /\ ~request.stb
    /\ \E a \in Addresses, d \in Words, w \in BOOLEAN :
          request' = [addr |-> a, dat |-> d, we |-> w, stb |-> TRUE]
    /\ UNCHANGED <<memory, reply>>

Write ==
    /\ request.stb /\ request.we
    /\ memory' = [memory EXCEPT ![request.addr] = request.dat]
    /\ UNCHANGED <<request, reply>>

Answer ==
    /\ request.stb
    /\ \/ request.we /\ memory[request.addr] = request.dat /\ UNCHANGED reply
       \/ ~request.we /\ reply' = memory[request.addr]
    /\ request' = [request EXCEPT !.stb = FALSE]
    /\ UNCHANGED memory

MemoryNext == Request \/ Write \/ Answer
MemorySpec == MemoryInit /\ [][MemoryNext]_<<memory, request, reply>>

=============================================================================
