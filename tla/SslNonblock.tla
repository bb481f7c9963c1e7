---------------------------- MODULE SslNonblock ----------------------------
(***************************************************************************)
(* The TLS sockets behind the descriptors of the table, as the calls to    *)
(* ssl-nonblock.c see them.  pending[fd] is the number of records that     *)
(* have arrived and are not read; sock[fd] is one of                       *)
(*                                                                         *)
(*   free        no such descriptor                                        *)
(*   connecting  accepted, the TLS handshake is not finished               *)
(*   open        established, the peer is there                            *)
(*   failed      the peer left before the handshake was finished           *)
(*   closed      the peer closed its end: reads reach end-of-file, the     *)
(*               kernel still takes writes                                 *)
(*   refusing    as closed, after a write: the peer's RST is on its way    *)
(*   reset       the RST is in: the next write raises SIGPIPE, which the   *)
(*               server does not handle, and the process dies              *)
(*   aborted     the peer closed with unread data: an RST whose error has  *)
(*               not been reported yet (the next call takes it)            *)
(*   jammed      a write took that error: OpenSSL keeps the failed record  *)
(*               and refuses the next one ("bad write retry")              *)
(***************************************************************************)
EXTENDS ServerState

CONSTANT EofReads  \* what ssl_block_read may return at end-of-file: 0 when
                   \* OpenSSL reports it as a system call error (1.1.1),
                   \* -1 when it is a protocol error (3.x)

ASSUME EofReadsAssumption == EofReads \subseteq {-1, 0} /\ EofReads # {}

VARIABLES sock, pending

AtEof == {"failed", "closed", "refusing", "reset", "aborted", "jammed"}

SockStates == {"free", "connecting", "open"} \cup AtEof

NoSockets == [fd \in Fds |-> "free"]
NoRecords == [fd \in Fds |-> 0]

(* A record, end-of-file or an error is available.                         *)
ssl_has_data(fd) == pending[fd] > 0 \/ sock[fd] \in AtEof

(* The first system call on an aborted connection that finds no record,    *)
(* the peek of ssl_has_data, is handed the pending error.                  *)
AfterEof(fd) ==
  IF sock[fd] = "aborted" THEN [sock EXCEPT ![fd] = "reset"] ELSE sock

(* What ssl_block_write returns, if it does: > 0 written, 0 end-of-file or *)
(* a bare system call error, -1 an error that OpenSSL reports.             *)
ssl_block_write(fd) ==
  IF sock[fd] \in {"open", "closed", "refusing"} THEN 1
  ELSE IF sock[fd] = "jammed" THEN -1 ELSE 0

(* The connections of W whose write does not return.                       *)
Broken(W) == {fd \in W : sock[fd] = "reset"}

(* The sockets after a write to each connection of W.                      *)
AfterWrites(W) ==
  [fd \in Fds |->
     IF fd \notin W THEN sock[fd]
     ELSE IF sock[fd] = "closed" THEN "refusing"
     ELSE IF sock[fd] = "aborted" THEN "jammed" ELSE sock[fd]]

(* The connections of W that a write in slot order really hands a record:  *)
(* it ends at the first broken connection.                                 *)
Written(W) ==
  {fd \in W : /\ ssl_block_write(fd) > 0
              /\ \A b \in Broken(W) : ss_get_fd_loc(fd) < ss_get_fd_loc(b)}
=============================================================================
