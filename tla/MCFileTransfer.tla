-------------------------- MODULE MCFileTransfer --------------------------
(* FileTransfer for TLC: connections of clients on the tasks of one sender  *)
(* and one receiver.                                                       *)
EXTENDS FileTransfer
==========================================================================
