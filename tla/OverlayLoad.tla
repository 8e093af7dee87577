----------------------------- MODULE OverlayLoad -----------------------------
(***************************************************************************)
(* web/src/hooks/useOverlay.ts: the overlay files are fetched once for the   *)
(* whole page (loadOnce) and shown by every component that reads them,      *)
(* whenever it mounts, unmounts or mounts again.                            *)
(***************************************************************************)
EXTENDS Naturals, FiniteSets

CONSTANTS Readers,    (* components that call useOverlay                    *)
          OverlayOf,  (* the overlay each of them reads                     *)
          MaxMounts,  (* bound: times each of them is mounted               *)
          NoOverlay   (* null: nothing to show                              *)

ASSUME OverlayAssumption == DOMAIN OverlayOf = Readers /\ MaxMounts \in Nat

VARIABLES file,      (* what the server has under each name                 *)
          load,      (* loads: "none", "asked", or the raw it came back with*)
          requests,  (* history: requests sent for each name                *)
          mounts,    (* history: how often a reader has been mounted        *)
          mounted,   (* is it on the page                                   *)
          overlay,   (* useState: what it shows                             *)
          due        (* effects to run and callbacks on the load's promise  *)

overlayVars == <<file, load, requests, mounts, mounted, overlay, due>>

Names == {OverlayOf[r] : r \in Readers}

(* A file as the schema knows it, one it refuses, and no file or no answer. *)
Raw == {"valid", "refused", "null"}

(* parseOverlay: a raw that fails its schema is as good as none.            *)
Parsed(raw) == IF raw = "valid" THEN raw ELSE NoOverlay

Came(name) == load[name] \in Raw

Due(r, what) == [reader |-> r, mount |-> mounts[r], what |-> what]

OverlayInit ==
  /\ file \in [Names -> Raw]
  /\ load = [name \in Names |-> "none"]
  /\ requests = [name \in Names |-> 0]
  /\ mounts = [r \in Readers |-> 0]
  /\ mounted = [r \in Readers |-> FALSE]
  /\ overlay = [r \in Readers |-> NoOverlay]
  /\ due = {}

(* The first paint shows what the load has brought so far.                  *)
Mount(r) ==
  /\ ~mounted[r]
  /\ mounts[r] < MaxMounts
  /\ mounts' = [mounts EXCEPT ![r] = @ + 1]
  /\ mounted' = [mounted EXCEPT ![r] = TRUE]
  /\ overlay' = [overlay EXCEPT ![r] = IF Came(OverlayOf[r]) THEN Parsed(load[OverlayOf[r]]) ELSE NoOverlay]
  /\ due' = due \cup {[reader |-> r, mount |-> mounts[r] + 1, what |-> "effect"]}
  /\ UNCHANGED <<file, load, requests>>

(* Mutant: only a load that has come back is known.                         *)
AskUnlessCome(name) ==
  IF Came(name) THEN UNCHANGED <<load, requests>>
  ELSE /\ load' = [load EXCEPT ![name] = "asked"]
       /\ requests' = [requests EXCEPT ![name] = @ + 1]

(* loadOnce: the first reader of a name sends its request.                  *)
LoadOnce(name) ==
  IF load[name] # "none" THEN UNCHANGED <<load, requests>>
  ELSE /\ load' = [load EXCEPT ![name] = "asked"]
       /\ requests' = [requests EXCEPT ![name] = @ + 1]

RunEffect(r) ==
  /\ Due(r, "effect") \in due
  /\ LoadOnce(OverlayOf[r])
  /\ due' = (due \ {Due(r, "effect")}) \cup {Due(r, "callback")}
  /\ UNCHANGED <<file, mounts, mounted, overlay>>

(* readOverlay ends: whatever goes wrong, it resolves to null.              *)
Arrive(name) ==
  /\ load[name] = "asked"
  /\ \E raw \in {file[name], "null"} : load' = [load EXCEPT ![name] = raw]
  /\ UNCHANGED <<file, requests, mounts, mounted, overlay, due>>

(* The promise calls back, to a mounting that may be over.                  *)
CallBack(d) ==
  /\ d \in due
  /\ d.what = "callback"
  /\ Came(OverlayOf[d.reader])
  /\ overlay' = IF mounted[d.reader] /\ d.mount = mounts[d.reader]
                THEN [overlay EXCEPT ![d.reader] = Parsed(load[OverlayOf[d.reader]])]
                ELSE overlay
  /\ due' = due \ {d}
  /\ UNCHANGED <<file, load, requests, mounts, mounted>>

(* The cleanup sets live to false; an effect that has not run never will.   *)
Unmount(r) ==
  /\ mounted[r]
  /\ mounted' = [mounted EXCEPT ![r] = FALSE]
  /\ overlay' = [overlay EXCEPT ![r] = NoOverlay]
  /\ due' = due \ {Due(r, "effect")}
  /\ UNCHANGED <<file, load, requests, mounts>>

OverlayScheduled ==
  \/ \E r \in Readers : RunEffect(r)
  \/ \E name \in Names : Arrive(name)
  \/ \E d \in due : CallBack(d)

OverlayNext == OverlayScheduled \/ \E r \in Readers : Mount(r) \/ Unmount(r)

OverlaySpec == OverlayInit /\ [][OverlayNext]_overlayVars

-----------------------------------------------------------------------------
(* A reader nothing is due for any more on this mounting.                   *)
Settled(r) == mounted[r] /\ Due(r, "effect") \notin due /\ Due(r, "callback") \notin due

(* All readers of an overlay show the same one: its file is asked for once,  *)
(* so an answer that is lost is lost for all of them and none of them mixes *)
(* two answers, in whatever order they mount, leave and are called back.    *)
ReadersShowOneAnswer ==
  /\ \A name \in Names : requests[name] <= 1
  /\ \A r, q \in Readers :
       Settled(r) /\ Settled(q) /\ OverlayOf[r] = OverlayOf[q] => overlay[r] = overlay[q]
=============================================================================
