------------------------------- MODULE Transfer -------------------------------
(****************************************************************************)
(* From the upload to the distributed file system: module Upload together   *)
(* with the daemon of src/transferServer/tranServer.cc.  A finished upload  *)
(* puts the path of its file on transfer_list.txt; the daemon reads the     *)
(* list every ten seconds, sends the files of the lines it does not         *)
(* remember, and remembers them.  Between two uploads the file may be       *)
(* deleted (the steps of a deletion are the subject of module Catalog).     *)
(*                                                                          *)
(* The lines of one path are equal: to the daemon they are one line.  The   *)
(* distributed file system is external; it knows a file by its MD5.         *)
(****************************************************************************)
EXTENDS Upload

CONSTANTS MaxRemove,   \* bound: deletions of the file
          MaxRestart   \* bound: restarts of the daemon

ASSUME TransferAssumption == MaxRemove \in Nat /\ MaxRestart \in Nat

VARIABLES
  present,   \* whether there is a file at the path
  uploaded,  \* whether uploaded_ has the line
  sending,   \* what the daemon is sending: nothing, a part or the whole of the right file
  remote,    \* the file in the distributed file system, likewise
  restarts

daemonVars == <<uploaded, sending, remote, restarts>>
transferVars == <<uploadVars, present, daemonVars>>

TransferInit == /\ Init
                /\ present = FALSE /\ uploaded = FALSE
                /\ sending = "none" /\ remote = "none" /\ restarts = 0
-----------------------------------------------------------------------------
(* The server.                                                              *)

\* open(O_CREAT) is what makes the file.
Created == \E w \in Workers : At(w, "open") /\ At(w, "map")'

ServerStep(A) == A /\ present' = (present \/ Created) /\ UNCHANGED daemonVars

\* The last user deletes the file while nobody is sending it: relation, row and file are gone.
Delete(f) == /\ \A u \in Uploads : client[u].pc \in {"new", "done", "gone"} /\ ~Serving(u)
             /\ f \in linked
             /\ Cardinality({i \in DOMAIN rows : rows[i] = Removed}) < MaxRemove
             /\ rows' = [rows EXCEPT ![f] = Removed] /\ linked' = linked \ {f}
             /\ disk' = <<>> /\ present' = FALSE
             /\ UNCHANGED <<listed, memory, inbox, handler, client, spent, daemonVars>>
-----------------------------------------------------------------------------
(* The daemon: scanAndUpload and uploadFile.  Definitions named Mutant...   *)
(* are plausible mistakes, as in Upload.                                    *)

Pending == listed > 0 /\ ~uploaded /\ sending = "none"

\* The size of the file is taken, and sent, before its bytes.
DaemonOpens == /\ Pending /\ present
               /\ sending' = IF disk = Whole THEN "whole" ELSE "part"
               /\ UNCHANGED <<uploaded, remote, restarts>>

\* uploadFile returns from a file it cannot open as from one it has sent: the line is remembered.
DaemonMisses == /\ Pending /\ ~present
                /\ uploaded' = TRUE
                /\ UNCHANGED <<sending, remote, restarts>>

\* The read that meets the end of the file is not sent.
MutantDaemonSentCut == /\ sending # "none"
                       /\ remote' = "part" /\ sending' = "none" /\ uploaded' = TRUE
                       /\ UNCHANGED restarts

DaemonSent == /\ sending # "none"
              /\ remote' = sending /\ sending' = "none" /\ uploaded' = TRUE
              /\ UNCHANGED restarts

\* uploaded_ is in memory only.
DaemonRestarts == /\ restarts < MaxRestart
                  /\ restarts' = restarts + 1
                  /\ uploaded' = FALSE /\ sending' = "none"
                  /\ UNCHANGED remote

ScanAndUpload == DaemonOpens \/ DaemonMisses \/ DaemonSent
-----------------------------------------------------------------------------
TransferNext == \/ ServerStep(Next)
                \/ \E f \in linked : Delete(f)
                \/ (ScanAndUpload \/ DaemonRestarts) /\ UNCHANGED <<uploadVars, present>>

\* As in Upload; and the daemon, while it runs, scans again and again.
TransferSpec == /\ TransferInit /\ [][TransferNext]_transferVars
                /\ \A u \in Uploads : WF_transferVars(ServerStep(ClientGoesOn(u)))
                /\ \A w \in Workers : WF_transferVars(ServerStep(WorkerStep(w)))
                /\ WF_transferVars(ScanAndUpload /\ UNCHANGED <<uploadVars, present>>)
-----------------------------------------------------------------------------
(* tranServer.cc 197: the daemon "watches transfer_list.txt and uploads the  *)
(* new files".  A finished upload whose line the daemon has not dealt with   *)
(* yet reaches the distributed file system whole, over restarts of the       *)
(* daemon and whatever an older line of the path made it do before, unless   *)
(* the file is deleted first or the server crashes before it writes the line.*)
FinishedTransferred ==
  Finished /\ ~uploaded /\ sending = "none" ~> remote = "whole" \/ ~Finished \/ spent.crash > 0
===============================================================================
