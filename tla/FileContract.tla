---------------------------- MODULE FileContract ----------------------------
(***************************************************************************)
(* What adding a file and fetching it back promise (service.AddFromPath    *)
(* and service.Fetch), with blocks, goroutines and channels abstracted     *)
(* away.  An add succeeds or fails.  A fetch of the CID the add returned   *)
(* ends with exactly the bytes of the file, or with an error; an error     *)
(* means that the caller gave up, that a block is missing, or that the CID *)
(* asked for is not the one of a file.  A block may be lost at any time,   *)
(* and an add that is still running may put it again.                      *)
(***************************************************************************)
CONSTANT Files      \* the files that may be added

VARIABLES
  file,       \* the file that is added
  add,        \* "running", "done" or "failed"
  fetch,      \* "none", "running", "ok" or "error"
  asked,      \* whether the fetch is for a "file" or for another block
  gaveUp,     \* the context of the fetch is cancelled
  damaged,    \* a block of the file is missing
  data        \* what the fetch returned

vars == <<file, add, fetch, asked, gaveUp, damaged, data>>

Init ==
  /\ file \in Files
  /\ add = "running" /\ fetch = "none" /\ asked = "file"
  /\ gaveUp = FALSE /\ damaged = FALSE
  /\ data = <<>>

AddEnds ==
  /\ add = "running" /\ add' \in {"done", "failed"}
  /\ UNCHANGED <<file, fetch, asked, gaveUp, damaged, data>>

Begin ==
  /\ add = "done" /\ fetch = "none"
  /\ fetch' = "running" /\ asked' \in {"file", "block"}
  /\ UNCHANGED <<file, add, gaveUp, damaged, data>>

GiveUp ==
  /\ fetch # "none" /\ gaveUp' = TRUE
  /\ UNCHANGED <<file, add, fetch, asked, damaged, data>>

Damage ==
  /\ damaged' = TRUE
  /\ UNCHANGED <<file, add, fetch, asked, gaveUp, data>>

PutAgain ==
  /\ add = "running" /\ damaged' = FALSE
  /\ UNCHANGED <<file, add, fetch, asked, gaveUp, data>>

Succeed ==
  /\ fetch = "running" /\ asked = "file"
  /\ fetch' = "ok" /\ data' = file
  /\ UNCHANGED <<file, add, asked, gaveUp, damaged>>

Fail ==
  /\ fetch = "running"
  /\ gaveUp \/ damaged \/ asked = "block"
  /\ fetch' = "error"
  /\ UNCHANGED <<file, add, asked, gaveUp, damaged, data>>

Next == AddEnds \/ Begin \/ GiveUp \/ Damage \/ PutAgain \/ Succeed \/ Fail

Spec == Init /\ [][Next]_vars
=============================================================================
