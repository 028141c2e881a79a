-------------------------------- MODULE Ftp --------------------------------
(***************************************************************************)
(* The FTP server: lftpd/lftpd.c and lftpd_inet.c, started by              *)
(* audio/app/src/ftp.c.                                                    *)
(*                                                                         *)
(* One thread accepts clients and hands each to one of a few connection    *)
(* threads, without waiting for one to be free.  A connection has a        *)
(* control socket, a listening socket that PASV and EPSV open and later    *)
(* transfers use again, the socket of a transfer, and the file or          *)
(* directory it is about.  All threads share one table of descriptors,     *)
(* where the lowest free one is taken.                                     *)
(*                                                                         *)
(* What is sent and the commands that only change or look at the file      *)
(* system and answer are left out; any send may fail, since the client may *)
(* be gone.                                                                *)
(***************************************************************************)
EXTENDS Integers, FiniteSets

CONSTANTS
  Conn,      \* the connection threads, FTP_MAX_CONN
  MaxFd,     \* the descriptors are 1 .. MaxFd
  FtpFaults  \* what the instance may meet

\* The faults an instance may enable:
\*   pasv  the client of a PASV has no IPv4 address, or it cannot be read
FtpFaultKind == {"pasv"}

ASSUME FtpAssumption ==
  /\ MaxFd \in Nat /\ MaxFd >= 2
  /\ FtpFaults \subseteq FtpFaultKind

VARIABLES
  fdtable,  \* the descriptors that are open
  server,   \* the server thread: its sockets and where it is
  conn      \* the connections

ftpVars == <<fdtable, server, conn>>

Fd       == 1 .. MaxFd
Unopened == -1
FdOr     == Fd \cup {Unopened}
Commands == {"LIST", "NLST", "RETR", "STOR"}

\* lftpd_conn_run()
Unconnected == [at |-> "get", cmd |-> "LIST", file |-> FALSE, socket |-> Unopened,
                data_socket |-> Unopened, transfer |-> Unopened]

FtpTypeOK ==
  /\ fdtable \subseteq Fd
  /\ server \in [at : {"accept", "put", "ended"}, socket : FdOr, client : FdOr]
  /\ conn \in [Conn -> [at : {"get", "greet", "read", "accept", "begin", "open",
                              "move", "close", "leave", "exit"},
                        cmd : Commands, file : BOOLEAN,
                        socket : FdOr, data_socket : FdOr, transfer : FdOr]]

\* lftpd_init()
FtpInit ==
  /\ fdtable = {1}
  /\ server = [at |-> "accept", socket |-> 1, client |-> Unopened]
  /\ conn = [c \in Conn |-> Unconnected]

NewFd  == CHOOSE f \in Fd \ fdtable : \A g \in Fd \ fdtable : f <= g
FdLeft == fdtable # Fd

-----------------------------------------------------------------------------
(***************************************************************************)
(* lftpd_run(), the server thread.                                         *)
(***************************************************************************)

\* An accept that fails ends the server; without a descriptor it does.
ServerAccept ==
  /\ server.at = "accept"
  /\ IF FdLeft
     THEN /\ server' = [server EXCEPT !.at = "put", !.client = NewFd]
          /\ fdtable' = fdtable \cup {NewFd}
     ELSE /\ server' = [server EXCEPT !.at = "ended", !.socket = Unopened]
          /\ fdtable' = fdtable \ {server.socket}
  /\ UNCHANGED conn

Waiting == {c \in Conn : conn[c].at = "get"}

\* k_mbox_put() without waiting, k_mbox_get() of lftpd_conn_run()
ServerPut ==
  /\ server.at = "put"
  /\ server' = [server EXCEPT !.at = "accept", !.client = Unopened]
  /\ \/ /\ \E c \in Waiting :
             conn' = [conn EXCEPT ![c].at = "greet", ![c].socket = server.client]
        /\ UNCHANGED fdtable
     \/ /\ Waiting = {} /\ fdtable' = fdtable \ {server.client}
        /\ UNCHANGED conn

-----------------------------------------------------------------------------
(***************************************************************************)
(* handle_control_channel(), a connection thread.                          *)
(***************************************************************************)
Goes(c, from, to, new) ==
  /\ conn[c].at = from
  /\ conn' = [conn EXCEPT ![c] = [new EXCEPT !.at = to]]
  /\ UNCHANGED server

\* send_response(): the next command, or the end of the connection
Replies(c, from, new) == \E to \in {"read", "exit"} : Goes(c, from, to, new)

\* The welcome; a command that does no more than answer, or is too long
Greet(c)  == Replies(c, "greet", conn[c]) /\ UNCHANGED fdtable
Simple(c) == Replies(c, "read", conn[c]) /\ UNCHANGED fdtable

\* lftpd_inet_read_line() fails, or QUIT
Leave(c) == Goes(c, "read", "exit", conn[c]) /\ UNCHANGED fdtable

HasListener(c) == conn[c].data_socket # Unopened

\* lftpd_inet_listen(), unless there is a socket from the last time
Listening(c) ==
  IF HasListener(c) THEN conn[c] ELSE [conn[c] EXCEPT !.data_socket = NewFd]

\* A listening socket that is not opened leaves the descriptor at -1.
ListenFails(c) == ~HasListener(c) /\ Replies(c, "read", conn[c]) /\ UNCHANGED fdtable

cmd_epsv(c) ==
  \/ ListenFails(c)
  \/ /\ HasListener(c) \/ FdLeft
     /\ Replies(c, "read", Listening(c))
     /\ fdtable' = fdtable \cup {Listening(c).data_socket}

\* It goes on even if its answer could not be sent; if it does not find its own
\* address it closes the socket and keeps the descriptor.
cmd_pasv(c) ==
  \/ ListenFails(c)
  \/ /\ HasListener(c) \/ FdLeft
     /\ \/ /\ Goes(c, "read", "read", Listening(c))
           /\ fdtable' = fdtable \cup {Listening(c).data_socket}
        \/ /\ "pasv" \in FtpFaults
           /\ Replies(c, "read", Listening(c))
           /\ fdtable' = fdtable \ {Listening(c).data_socket}

\* LIST, NLST, RETR and STOR begin with accept_data_connection(): without a
\* listening socket it fails.
Transfer(c) ==
  /\ UNCHANGED fdtable
  /\ \E cmd \in Commands :
       IF HasListener(c) THEN Goes(c, "read", "accept", [conn[c] EXCEPT !.cmd = cmd])
       ELSE Replies(c, "read", conn[c])

AcceptFailed(k) == [k EXCEPT !.data_socket = Unopened]

accept_data_connection(c) ==
  \/ /\ FdLeft /\ Goes(c, "accept", "begin", [conn[c] EXCEPT !.transfer = NewFd])
     /\ fdtable' = fdtable \cup {NewFd}
  \/ /\ Replies(c, "accept", AcceptFailed(conn[c]))
     /\ fdtable' = fdtable \ {conn[c].data_socket}

IsCmd(c, cmd) == conn[c].cmd = cmd /\ UNCHANGED fdtable

\* LIST does not look at whether the first answer could be sent.
cmd_list(c) == IsCmd(c, "LIST") /\ Goes(c, "begin", "open", conn[c])

\* The path may be wrong, which is answered, and the client may be gone.
Begins(c) == \E to \in {"open", "close", "leave"} : Goes(c, "begin", to, conn[c])

cmd_nlst(c) == IsCmd(c, "NLST") /\ Begins(c)
cmd_retr(c) == IsCmd(c, "RETR") /\ Begins(c)
cmd_stor(c) == IsCmd(c, "STOR") /\ Begins(c)

\* The file or the directory is opened, or it is not and that is answered.
Opens(c) ==
  \/ Goes(c, "open", "move", [conn[c] EXCEPT !.file = TRUE])
  \/ Goes(c, "open", "close", conn[c])

FileClosed(k) == [k EXCEPT !.file = FALSE]

\* All of it, or up to an error of the file system or the connection
Moves(c) == Goes(c, "move", "close", FileClosed(conn[c]))

send_list(c)    == IsCmd(c, "LIST") /\ (Opens(c) \/ Moves(c))
send_nlst(c)    == IsCmd(c, "NLST") /\ (Opens(c) \/ Moves(c))
send_file(c)    == IsCmd(c, "RETR") /\ (Opens(c) \/ Moves(c))
receive_file(c) == IsCmd(c, "STOR") /\ (Opens(c) \/ Moves(c))

\* Mutant: an error leaves the socket of the transfer open.
TransferClosed_Not(c) ==
  IF conn[c].at = "leave" THEN fdtable ELSE fdtable \ {conn[c].transfer}

\* The exit of each of the four
TransferClosed(c) == fdtable \ {conn[c].transfer}

TransferEnds(c) ==
  LET left == [conn[c] EXCEPT !.transfer = Unopened]
  IN  /\ Replies(c, "close", left) \/ Goes(c, "leave", "exit", left)
      /\ fdtable' = TransferClosed(c)

\* The exit of handle_control_channel()
Exit(c) ==
  /\ Goes(c, "exit", "get", Unconnected)
  /\ fdtable' = fdtable \ {conn[c].socket, conn[c].data_socket}

FtpNext ==
  \/ ServerAccept \/ ServerPut
  \/ \E c \in Conn :
       \/ Greet(c) \/ Simple(c) \/ Leave(c) \/ cmd_epsv(c) \/ cmd_pasv(c)
       \/ Transfer(c) \/ accept_data_connection(c)
       \/ cmd_list(c) \/ cmd_nlst(c) \/ cmd_retr(c) \/ cmd_stor(c)
       \/ send_list(c) \/ send_nlst(c) \/ send_file(c) \/ receive_file(c)
       \/ TransferEnds(c) \/ Exit(c)

FtpSpec == FtpInit /\ [][FtpNext]_ftpVars

-----------------------------------------------------------------------------
(***************************************************************************)
(* Properties.                                                             *)
(***************************************************************************)
\* Who holds a descriptor, as <<thread, role, descriptor>>
Holders ==
  {h \in {<<"server", "listen", server.socket>>, <<"server", "client", server.client>>}
           \cup UNION {{<<c, "control", conn[c].socket>>,
                        <<c, "listen", conn[c].data_socket>>,
                        <<c, "transfer", conn[c].transfer>>} : c \in Conn} :
     h[3] # Unopened}

\* Every open descriptor has exactly one place it will be closed from: none is
\* lost, and none is kept after it was closed, when the next socket of another
\* thread would have its number and be closed in its stead; and a file is open
\* for no longer than the transfer it is for.  Sockets are opened and closed
\* on a dozen paths of lftpd.c, most of them errors.
FdsOwned ==
  /\ {h[3] : h \in Holders} = fdtable
  /\ Cardinality(Holders) = Cardinality(fdtable)
  /\ \A c \in Conn : conn[c].file => conn[c].transfer # Unopened

=============================================================================
