----------------------------- MODULE MCSocketPool -----------------------------
(* Small instances of SocketPool.                                          *)
EXTENDS SocketPool, TLC

CONSTANTS c1, c2, c3, board, diagram, r1, u1

\* Two writers of one board and, under the same id and user, one writer of the
\* other namespace: the aliasing that socketKey and dialKey must keep apart.
TwoAndOne ==
  LET key(n) == [namespace |-> n, resource |-> r1, user |-> u1]
  IN  (c1 :> key(board)) @@ (c2 :> key(board)) @@ (c3 :> key(diagram))

\* Two writers of one board.
Two ==
  LET key == [namespace |-> board, resource |-> r1, user |-> u1]
  IN  (c1 :> key) @@ (c2 :> key)

\* Sockets are interchangeable; so are c1 and c2, which write to one key.
SocketSymmetry == Permutations(Socket)

PoolSymmetry == SocketSymmetry \cup Permutations({c1, c2})

\* A view for the socket and token invariants, which mention no packet (TypeOK
\* does; SocketPoolProofs proves that part without the view).  Two
\* states that differ only in packet and outcome have the same steps up to that
\* difference: packet guards AckArrives alone, and where AckArrives may return
\* (wait, connected socket) EmitFails may return as well.
WithoutPackets ==
  <<pool, flight, status, dialVars, expiring, jwt, spent, pc, sock, attempt, tried,
    closing>>
=============================================================================
