------------------------------- MODULE Launch --------------------------------
(***************************************************************************)
(* One installation of the app, launched again and again: the effective    *)
(* configuration, the live POP list, the check for an update and its       *)
(* banner, and the name and email that are saved from one launch to the    *)
(* next in a file that a crash may leave half written.                     *)
(***************************************************************************)
EXTENDS Config

CONSTANTS
  Builds,      \* what a build may inject
  Sidecars,    \* what may lie beside the binary
  Lives,       \* what the registry may answer, with [kind |-> "failed"]
  People       \* the identities a user may enter

VARIABLES
  build,      \* the installed build
  sidecar,    \* the file beside it
  phase,      \* where this launch is
  live,       \* the answer of the registry in this launch, observed
  cfg,        \* App.cfg
  hears,      \* does emitFn reach the window
  answer,     \* the answer of the update check, observed
  banner,     \* the banner of the window
  file,       \* identity.json
  saving,     \* the identity being written, between truncation and write
  prefill,    \* what the identify screen was given
  saved       \* every identity ever saved in full, observed

vars == <<build, sidecar, phase, live, cfg, hears, answer, banner, file, saving,
          prefill, saved>>
sources == <<build, sidecar>>
settings == <<live, cfg, hears>>
update == <<answer, banner>>
identity == <<file, saving, prefill, saved>>

Nobody == "nobody"
NoCfg == [ingest_url |-> "", pops |-> <<>>, run |-> DefaultRunSettings]
NoAnswer == [kind |-> "none"]
Failed == [kind |-> "failed"]
Answers == {Failed} \union
  [kind : {"ok"}, available : BOOLEAN, mandatory : BOOLEAN, supported : BOOLEAN]

(* What the sources may hold: a POP of a list names its id, and an identity *)
(* is not one of the marks used here for a file or a field without one.    *)
Maybe(S) == {s \in Seq(S) : Len(s) <= 1}
POPDocs  == [id : {s \in Seq(STRING) : Len(s) = 1}, echo : Maybe(BOOLEAN)]
RunDocs  == [limit : Maybe(Nat), roots : Maybe(Nat)]

ASSUME BuildsAssumption ==
  \A b \in Builds : b.ingest_url \in STRING /\ b.pops \in Maybe(Seq(POPDocs))
ASSUME SidecarsAssumption ==
  \A s \in Sidecars : s.kind = "doc" =>
    /\ s.doc.ingest_url \in Maybe(STRING) /\ s.doc.pops \in Maybe(Seq(POPDocs))
    /\ s.doc.run \in Maybe(RunDocs)
ASSUME LivesAssumption ==
  Lives \subseteq {Failed} \union
    [kind : {"ok"}, pops : Seq(POPDocs), run : Maybe(RunDocs)]
ASSUME PeopleAssumption == People \intersect {Nobody, "absent", "broken", ""} = {}

TypeOK ==
  /\ build \in Builds /\ sidecar \in Sidecars
  /\ phase \in {"off", "new", "fetch", "window"}
  /\ live \in Lives \union {Failed, NoAnswer}
  /\ hears \in BOOLEAN
  /\ cfg.run \in [{"limit", "roots"} -> Nat]
  /\ \A k \in DOMAIN cfg.pops : cfg.pops[k].echo \in BOOLEAN
  /\ answer \in Answers \union {NoAnswer}
  /\ banner \in {"none", "modal", "error", "info"}
  /\ file \in People \union {"absent", "broken"}
  /\ saving \in People \union {Nobody}
  /\ prefill \in People \union {Nobody, ""}
  /\ saved \subseteq People

Init ==
  /\ build \in Builds /\ sidecar \in Sidecars
  /\ phase = "off" /\ live = NoAnswer /\ cfg = NoCfg /\ hears = FALSE
  /\ answer = NoAnswer /\ banner = "none"
  /\ file = "absent" /\ saving = Nobody /\ prefill = Nobody /\ saved = {}

-----------------------------------------------------------------------------
Start ==
  /\ phase = "off"
  /\ phase' = "new"
  /\ UNCHANGED <<sources, settings, update, identity>>

(* NewApp, up to the request to the registry.                              *)
LoadConfig ==
  /\ phase = "new"
  /\ cfg' = Load(build, sidecar)
  /\ hears' = Parses(cfg'.ingest_url)
  /\ phase' = IF Parses(cfg'.ingest_url) THEN "fetch" ELSE "window"
  /\ UNCHANGED <<sources, live, update, identity>>

(* Fetch, within five seconds; without a host it can only fail.            *)
FetchPOPs ==
  /\ phase = "fetch"
  /\ live' \in IF HasHost(cfg.ingest_url) THEN Lives ELSE {Failed}
  /\ cfg' = IF live' = Failed THEN cfg ELSE WithLive(cfg, live')
  /\ phase' = "window"
  /\ UNCHANGED <<sources, hears, update, identity>>

(* renderUpdateBanner.                                                     *)
Banner(a) ==
  CASE a.kind # "ok"                            -> "none"
    [] a.kind = "ok" /\ a.mandatory /\ a.available -> "modal"
    [] a.kind = "ok" /\ ~(a.mandatory /\ a.available) /\ ~a.supported -> "error"
    [] a.kind = "ok" /\ ~a.mandatory /\ a.supported /\ a.available -> "info"
    [] OTHER                                    -> "none"

(* CheckForUpdate, asked once by each window, and its three seconds.       *)
CheckForUpdate ==
  /\ phase = "window" /\ answer = NoAnswer
  /\ answer' \in IF HasHost(cfg.ingest_url) THEN Answers ELSE {Failed}
  /\ banner' = Banner(answer')
  /\ UNCHANGED <<sources, phase, settings, identity>>

-----------------------------------------------------------------------------
(* Mutant: what does not parse is shown as it is.                          *)
ReadBroken(f) == IF f = "absent" THEN "" ELSE f

(* identity.Load: no file and a broken one give the zero value.            *)
Read(f) == IF f \in People THEN f ELSE ""

(* SavedIdentity, asked by a fresh identify screen; a quick click on Next  *)
(* may overtake the answer.                                                *)
SavedIdentity ==
  /\ phase = "window" /\ prefill = Nobody
  /\ prefill' = Read(file)
  /\ UNCHANGED <<sources, phase, settings, update, file, saving, saved>>

(* ValidateIdentity: os.WriteFile truncates the file first.                *)
SaveBegins(p) ==
  /\ phase = "window" /\ saving = Nobody
  /\ saving' = p /\ file' = "broken"
  /\ UNCHANGED <<sources, phase, settings, update, prefill, saved>>

SaveEnds ==
  /\ saving # Nobody
  /\ file' = saving /\ saved' = saved \union {saving} /\ saving' = Nobody
  /\ UNCHANGED <<sources, phase, settings, update, prefill>>

(* The app is quit, killed, or loses power: what it wrote may be lost half *)
(* way.                                                                    *)
Ends ==
  /\ phase # "off"
  /\ phase' = "off" /\ live' = NoAnswer /\ cfg' = NoCfg /\ hears' = FALSE
  /\ answer' = NoAnswer /\ banner' = "none" /\ saving' = Nobody /\ prefill' = Nobody
  /\ UNCHANGED <<sources, file, saved>>

Next ==
  \/ Start \/ LoadConfig \/ FetchPOPs \/ CheckForUpdate \/ SavedIdentity
  \/ (\E p \in People : SaveBegins(p)) \/ SaveEnds \/ Ends

Spec == Init /\ [][Next]_vars

-----------------------------------------------------------------------------
(* Properties. *)

LivePOPs == IF live.kind = "ok" THEN live.pops ELSE <<>>
SidecarPOPs ==
  IF sidecar.kind = "doc" /\ sidecar.doc.pops # <<>> THEN Head(sidecar.doc.pops) ELSE <<>>
BuiltPOPs == IF build.pops = <<>> THEN <<>> ELSE Head(build.pops)

(* The POPs are those of the best source that has any, and of it alone:    *)
(* the registry, the sidecar, the build.  "Any failure keeps cfg.POPs".    *)
POPsFromBestSource ==
  phase = "window" =>
    LET best == IF LivePOPs # <<>> THEN LivePOPs
                ELSE IF SidecarPOPs # <<>> THEN SidecarPOPs ELSE BuiltPOPs
    IN  /\ Len(cfg.pops) = Len(best)
        /\ \A k \in DOMAIN best : <<cfg.pops[k].id>> = best[k].id

(* The reports go where the highest of the sources says: "Precedence       *)
(* (lowest to highest)" in the comment of Load.                            *)
URLFromBestSource ==
  phase = "window" =>
    cfg.ingest_url = IF sidecar.kind = "doc" /\ sidecar.doc.ingest_url # <<>>
                       THEN Head(sidecar.doc.ingest_url) ELSE build.ingest_url

(* The settings a run uses are those of the registry, else of the sidecar, *)
(* and the built-in one for each field these leave out, or leave empty: no *)
(* run tests zero POPs, trusts no root, or streams at no rate.             *)
RunSettingsUsable ==
  phase = "window" =>
    \A f \in DOMAIN cfg.run :
      LET given == IF live.kind = "ok" /\ live.run # <<>> THEN Head(live.run)[f]
                   ELSE IF sidecar.kind = "doc" /\ sidecar.doc.run # <<>>
                     THEN Head(sidecar.doc.run)[f] ELSE <<>>
      IN  WithDefaults(cfg.run)[f] =
            IF given \in {<<>>, <<0>>} THEN DefaultRunSettings[f] ELSE Head(given)

(* The configuration a window works with, whatever was injected, lies      *)
(* beside the binary, or came from the registry.                           *)
ConfigFromBestSource == POPsFromBestSource /\ URLFromBestSource /\ RunSettingsUsable

(* No banner without an answer that calls for one ("any error is           *)
(* swallowed"), and none is missing: a version that can no longer upload   *)
(* is always told so, and a mandatory update blocks the window.            *)
BannerIsTrue ==
  /\ banner # "none" => answer.kind = "ok" /\ (answer.available \/ ~answer.supported)
  /\ answer.kind = "ok" /\ ~answer.supported => banner \in {"modal", "error"}
  /\ answer.kind = "ok" /\ answer.mandatory /\ answer.available => banner = "modal"

(* "A truncated write still parses or silently returns zero values": the   *)
(* identify screen is filled with an identity that was saved, or not.      *)
PrefillWasSaved == prefill \in saved \union {"", Nobody}

(* The types, and what the window shows of the world outside it.           *)
WindowIsTrue == TypeOK /\ BannerIsTrue /\ PrefillWasSaved

(* A POP of a sidecar has the fields the sidecar gives it, and no other    *)
(* POP's.                                                                  *)
POPsAsWritten ==
  phase = "window" /\ LivePOPs = <<>> =>
    \A k \in DOMAIN SidecarPOPs : SidecarPOPs[k].echo = <<>> => ~cfg.pops[k].echo

(* The events of a run reach the window.                                   *)
EventsReachWindow == phase = "window" => hears
=============================================================================
