---------------------------- MODULE FileDownload ----------------------------
(* What a block-wise download promises: the local file only ever grows by    *)
(* the next chunk of the remote one, and "complete" is said of a whole file. *)
(* A run that follows another starts from nothing.                           *)
EXTENDS Naturals, Sequences

CONSTANT Remote   \* the chunks of the remote file, a sequence

VARIABLES
  got,      \* what this run has
  outcome,
  runs      \* how many there were

downloadVars == <<got, outcome, runs>>

DownloadInit == got = <<>> /\ outcome = "running" /\ runs = 1

Fetch ==
  /\ outcome = "running" /\ Len(got) < Len(Remote)
  /\ got' = Append(got, Remote[Len(got) + 1])
  /\ UNCHANGED <<outcome, runs>>

Finish ==
  /\ outcome = "running" /\ got = Remote
  /\ outcome' = "complete"
  /\ UNCHANGED <<got, runs>>

GiveUp ==
  /\ outcome = "running"
  /\ outcome' = "failed"
  /\ UNCHANGED <<got, runs>>

StartAgain == got' = <<>> /\ outcome' = "running" /\ runs' = runs + 1

DownloadNext == Fetch \/ Finish \/ GiveUp \/ StartAgain

DownloadSpec == DownloadInit /\ [][DownloadNext]_downloadVars
=============================================================================
