------------------------------- MODULE Config --------------------------------
(***************************************************************************)
(* Where the configuration comes from: the values built into the binary,   *)
(* the sidecar file beside it, and the answer of the POP registry.  Pure   *)
(* operators; module Launch puts them into the order of a launch.          *)
(*                                                                         *)
(* A field a JSON document may leave out is <<>> or <<value>>.  One field  *)
(* stands for those that are treated alike: ingest_url for the strings a   *)
(* build may inject, limit and roots for the run settings, where 0 is the  *)
(* zero or empty value, 1 the built-in one and anything else is somebody's *)
(* own.                                                                    *)
(***************************************************************************)
EXTENDS Naturals, Sequences

(* encoding/json: a field that is left out keeps what is there.            *)
Over(base, doc) ==
  [f \in DOMAIN base |-> IF doc[f] = <<>> THEN base[f] ELSE Head(doc[f])]

NoPOP == [id |-> "", echo |-> FALSE]

(* A list is decoded element by element into the list that is there, so a  *)
(* field that a POP leaves out is taken from the POP it replaces.          *)
DecodePOPs(base, docs) ==
  [k \in DOMAIN docs |-> Over(IF k \in DOMAIN base THEN base[k] ELSE NoPOP, docs[k])]

DefaultRunSettings == [limit |-> 1, roots |-> 1]
ZeroRun == [limit |-> 0, roots |-> 0]

WithDefaults(r) ==
  [f \in DOMAIN r |-> IF r[f] = 0 THEN DefaultRunSettings[f] ELSE r[f]]

(* What a build makes of the built-in values: build is the injected URL    *)
(* and the fallback list, <<>> if none is injected.                        *)
Built(build) ==
  [ingest_url |-> build.ingest_url,
   pops |-> IF build.pops = <<>> THEN <<>> ELSE DecodePOPs(<<>>, Head(build.pops)),
   run |-> DefaultRunSettings]

(* Mutant: an empty list in the sidecar is taken.                          *)
WithSidecarEmpty(cfg, doc) ==
  [ingest_url |-> IF doc.ingest_url = <<>> THEN cfg.ingest_url ELSE Head(doc.ingest_url),
   pops |-> IF doc.pops = <<>> THEN cfg.pops ELSE DecodePOPs(cfg.pops, Head(doc.pops)),
   run |-> IF doc.run = <<>> THEN cfg.run ELSE Over(cfg.run, Head(doc.run))]

(* The sidecar over the built-in values; an empty list is no list.         *)
WithSidecar(cfg, doc) ==
  [ingest_url |-> IF doc.ingest_url = <<>> THEN cfg.ingest_url ELSE Head(doc.ingest_url),
   pops |-> IF doc.pops \in {<<>>, << <<>> >>} THEN cfg.pops
            ELSE DecodePOPs(cfg.pops, Head(doc.pops)),
   run |-> IF doc.run = <<>> THEN cfg.run ELSE Over(cfg.run, Head(doc.run))]

(* Load, and Load("") when it fails: an unreadable or malformed sidecar is *)
(* as good as none.                                                        *)
Load(build, sidecar) ==
  IF sidecar.kind = "doc" THEN WithSidecar(Built(build), sidecar.doc) ELSE Built(build)

(* The answer of the registry: its POPs if it has any, its run settings,   *)
(* filled up, instead of all others if it has any.                         *)
WithLive(cfg, live) ==
  [cfg EXCEPT !.pops = IF live.pops = <<>> THEN @ ELSE DecodePOPs(<<>>, live.pops),
              !.run = IF live.run = <<>> THEN @
                      ELSE WithDefaults(Over(ZeroRun, Head(live.run)))]

(* url.Parse of an ingest URL: "bad" stands for those it rejects, "" and   *)
(* "path" for those without a scheme or a host.                            *)
Parses(url) == url # "bad"
HasHost(url) == Parses(url) /\ url \notin {"", "path"}
=============================================================================
