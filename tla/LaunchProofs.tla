----------------------------- MODULE LaunchProofs -----------------------------
(***************************************************************************)
(* Theorems about Launch and the operators of Config, for all builds,      *)
(* sidecars, registries and people.                                        *)
(***************************************************************************)
EXTENDS Launch, SequenceTheorems, TLAPS

-----------------------------------------------------------------------------
(* The inductive invariant. *)

(* What cfg is, at each point of NewApp.                                   *)
CfgOrigin ==
  /\ phase \in {"off", "new"} => cfg = NoCfg /\ live = NoAnswer
  /\ phase = "fetch" => cfg = Load(build, sidecar) /\ live = NoAnswer
  /\ phase = "window" =>
       cfg = IF live.kind = "ok" THEN WithLive(Load(build, sidecar), live)
                                 ELSE Load(build, sidecar)

(* What lies in the file was saved, unless it does not parse.              *)
FileWasSaved == file \in People => file \in saved

LaunchInv ==
  /\ TypeOK /\ CfgOrigin /\ FileWasSaved /\ PrefillWasSaved
  /\ banner = Banner(answer)

-----------------------------------------------------------------------------
(* The operators of Config. *)

POPLike(p) == DOMAIN p = {"id", "echo"} /\ p.echo \in BOOLEAN
POPList(l) == DOMAIN l = 1..Len(l) /\ Len(l) \in Nat /\ \A k \in DOMAIN l : POPLike(l[k])
RunLike(r) == r \in [{"limit", "roots"} -> Nat]

(* A field that may be left out, and one that may not.                     *)
LEMMA MaybeHead ==
  ASSUME NEW S, NEW s \in Maybe(S), s # <<>>
  PROVE  s = <<Head(s)>> /\ Head(s) \in S /\ DOMAIN s = {1} /\ s[1] = Head(s)
<1>1. s \in Seq(S) /\ Len(s) \in Nat \ {0} /\ Len(s) <= 1
  BY EmptySeq DEF Maybe
<1>2. Len(s) = 1
  BY <1>1
<1>3. DOMAIN s = {1} /\ s[1] \in S /\ Head(s) = s[1]
  BY <1>1, <1>2
<1>4. s = <<s[1]>>
  BY <1>1, <1>2
<1> QED
  BY <1>3, <1>4

(* A decoded list has the POPs of the document, whatever was there.        *)
LEMMA DecodedPOPs ==
  ASSUME NEW base, POPList(base), NEW docs \in Seq(POPDocs)
  PROVE  /\ POPList(DecodePOPs(base, docs))
         /\ Len(DecodePOPs(base, docs)) = Len(docs)
         /\ \A k \in DOMAIN docs : <<DecodePOPs(base, docs)[k].id>> = docs[k].id
<1> DEFINE l == DecodePOPs(base, docs)
<1>1. Len(docs) \in Nat /\ DOMAIN docs = 1..Len(docs)
  OBVIOUS
<1>2. DOMAIN l = 1..Len(docs) /\ Len(l) = Len(docs)
  BY <1>1 DEF DecodePOPs
<1>3. ASSUME NEW k \in DOMAIN docs PROVE POPLike(l[k]) /\ <<l[k].id>> = docs[k].id
  <2> DEFINE b == IF k \in DOMAIN base THEN base[k] ELSE NoPOP
  <2>1. docs[k] \in POPDocs /\ l[k] = Over(b, docs[k])
    BY <1>1, <1>3 DEF DecodePOPs
  <2>2. POPLike(b)
    <3>1. DOMAIN NoPOP = {"id", "echo"} /\ NoPOP.id = "" /\ NoPOP.echo = FALSE
      BY DEF NoPOP
    <3>2. POPLike(NoPOP)
      BY <3>1 DEF POPLike
    <3> QED
      BY <3>2 DEF POPList
  <2>3. docs[k].id # <<>> /\ docs[k].id = <<Head(docs[k].id)>> /\ Head(docs[k].id) \in STRING
    BY <2>1 DEF POPDocs
  <2>4. docs[k].echo # <<>> => Head(docs[k].echo) \in BOOLEAN
    BY <2>1 DEF POPDocs, Maybe
  <2> HIDE DEF b, l
  <2> QED
    BY <2>1, <2>2, <2>3, <2>4 DEF Over, POPLike
<1> QED
  BY <1>1, <1>2, <1>3 DEF POPList

LEMMA DefaultsType == RunLike(DefaultRunSettings) /\ RunLike(ZeroRun)
  BY DEF RunLike, DefaultRunSettings, ZeroRun

(* Over the settings that are there, a field of the document or the old    *)
(* one; filled up, the built-in one for a zero.                            *)
LEMMA RunFields ==
  ASSUME NEW r, RunLike(r), NEW d \in RunDocs
  PROVE  /\ RunLike(Over(r, d)) /\ RunLike(WithDefaults(r))
         /\ \A f \in {"limit", "roots"} :
              /\ Over(r, d)[f] = IF d[f] = <<>> THEN r[f] ELSE Head(d[f])
              /\ WithDefaults(r)[f] = IF r[f] = 0 THEN 1 ELSE r[f]
              /\ DefaultRunSettings[f] = 1 /\ ZeroRun[f] = 0
              /\ d[f] # <<>> => d[f] = <<Head(d[f])>> /\ Head(d[f]) \in Nat
<1>1. ASSUME NEW f \in {"limit", "roots"}
      PROVE  /\ d[f] # <<>> => d[f] = <<Head(d[f])>> /\ Head(d[f]) \in Nat
             /\ DefaultRunSettings[f] = 1 /\ ZeroRun[f] = 0
  <2>1. d[f] \in Maybe(Nat)
    BY DEF RunDocs
  <2>2. DefaultRunSettings[f] = 1 /\ ZeroRun[f] = 0
    BY DEF DefaultRunSettings, ZeroRun
  <2> QED
    BY <2>1, <2>2, MaybeHead
<1>2. RunLike(Over(r, d)) /\ RunLike(WithDefaults(r))
  BY <1>1 DEF RunLike, Over, WithDefaults
<1>3. ASSUME NEW f \in {"limit", "roots"}
      PROVE  /\ Over(r, d)[f] = IF d[f] = <<>> THEN r[f] ELSE Head(d[f])
             /\ WithDefaults(r)[f] = IF r[f] = 0 THEN 1 ELSE r[f]
  BY <1>1 DEF RunLike, Over, WithDefaults
<1> QED
  BY <1>1, <1>2, <1>3

(* Filled up, a field that is given and not zero stands, any other is 1.   *)
LEMMA FilledUp ==
  ASSUME NEW r \in {ZeroRun, DefaultRunSettings}, NEW d \in RunDocs,
         NEW f \in {"limit", "roots"}
  PROVE  /\ WithDefaults(Over(r, d))[f] = IF d[f] \in {<<>>, <<0>>} THEN 1 ELSE Head(d[f])
         /\ WithDefaults(WithDefaults(Over(r, d)))[f] = WithDefaults(Over(r, d))[f]
         /\ WithDefaults(r)[f] = 1
<1> DEFINE o == Over(r, d)
<1>1. RunLike(r) /\ r[f] \in {0, 1}
  BY DefaultsType DEF DefaultRunSettings, ZeroRun
<1>2. RunLike(o) /\ RunLike(WithDefaults(o)) /\ o[f] \in Nat
  <2>1. RunLike(o)
    BY <1>1, RunFields
  <2> HIDE DEF o
  <2>2. RunLike(WithDefaults(o))
    BY <2>1, RunFields
  <2>3. o[f] \in Nat
    BY <2>1 DEF RunLike
  <2> QED
    BY <2>1, <2>2, <2>3
<1>3. /\ o[f] = IF d[f] = <<>> THEN r[f] ELSE Head(d[f])
      /\ d[f] # <<>> => d[f] = <<Head(d[f])>> /\ Head(d[f]) \in Nat
  <2>1. \A g \in {"limit", "roots"} :
          /\ Over(r, d)[g] = IF d[g] = <<>> THEN r[g] ELSE Head(d[g])
          /\ d[g] # <<>> => d[g] = <<Head(d[g])>> /\ Head(d[g]) \in Nat
    <3>1. RunLike(r) /\ d \in RunDocs
      BY <1>1
    <3>2. TAKE g \in {"limit", "roots"}
    <3> HIDE DEF o
    <3> QED
      BY <3>1, RunFields, ZenonT(30)
  <2> QED
    BY <2>1
<1>4. /\ WithDefaults(o)[f] = IF o[f] = 0 THEN 1 ELSE o[f]
      /\ WithDefaults(WithDefaults(o))[f] = IF WithDefaults(o)[f] = 0 THEN 1 ELSE WithDefaults(o)[f]
      /\ WithDefaults(r)[f] = IF r[f] = 0 THEN 1 ELSE r[f]
  <2> HIDE DEF o
  <2> QED
    BY <1>1, <1>2, RunFields
<1>5. d[f] = <<0>> <=> d[f] # <<>> /\ Head(d[f]) = 0
  <2>1. Head(<<0>>) = 0 /\ <<0>> # <<>>
    OBVIOUS
  <2>2. d[f] # <<>> => d[f] = <<Head(d[f])>>
    BY <1>3
  <2> QED
    BY <2>1, <2>2, Zenon
<1> HIDE DEF o
<1>6. WithDefaults(o)[f] = IF d[f] \in {<<>>, <<0>>} THEN 1 ELSE Head(d[f])
  BY <1>1, <1>3, <1>4, <1>5
<1>7. WithDefaults(WithDefaults(o))[f] = WithDefaults(o)[f] /\ WithDefaults(r)[f] = 1
  BY <1>1, <1>2, <1>4
<1> QED
  BY <1>6, <1>7 DEF o

(* What is built in.                                                       *)
LEMMA BuiltConfig ==
  ASSUME build \in Builds
  PROVE  LET c == Built(build) IN
           /\ c.ingest_url = build.ingest_url /\ c.run = DefaultRunSettings
           /\ POPList(c.pops) /\ Len(c.pops) = Len(BuiltPOPs)
           /\ \A k \in DOMAIN BuiltPOPs : <<c.pops[k].id>> = BuiltPOPs[k].id
<1>1. POPList(<<>>)
  BY DEF POPList
<1>2. CASE build.pops = <<>>
  BY <1>1, <1>2 DEF Built, BuiltPOPs
<1>3. CASE build.pops # <<>>
  <2>1. BuiltPOPs = Head(build.pops) /\ BuiltPOPs \in Seq(POPDocs)
    BY <1>3, BuildsAssumption, MaybeHead DEF BuiltPOPs
  <2>2. Built(build).pops = DecodePOPs(<<>>, BuiltPOPs)
    BY <1>3, <2>1 DEF Built
  <2>3. /\ Built(build).ingest_url = build.ingest_url
        /\ Built(build).run = DefaultRunSettings
    BY DEF Built
  <2> QED
    BY <1>1, <2>1, <2>2, <2>3, DecodedPOPs
<1> QED
  BY <1>2, <1>3

(* What NewApp loads: the sidecar over the built-in values.                *)
LEMMA LoadedPOPs ==
  ASSUME build \in Builds, sidecar \in Sidecars
  PROVE  LET c == Load(build, sidecar)
             best == IF SidecarPOPs # <<>> THEN SidecarPOPs ELSE BuiltPOPs
         IN  /\ POPList(c.pops) /\ Len(c.pops) = Len(best)
             /\ \A k \in DOMAIN best : <<c.pops[k].id>> = best[k].id
<1> DEFINE b == Built(build)
<1>1. /\ POPList(b.pops) /\ Len(b.pops) = Len(BuiltPOPs)
      /\ \A k \in DOMAIN BuiltPOPs : <<b.pops[k].id>> = BuiltPOPs[k].id
  BY BuiltConfig
<1> HIDE DEF b
<1>2. CASE sidecar.kind # "doc"
  BY <1>1, <1>2 DEF Load, SidecarPOPs, b
<1>3. CASE sidecar.kind = "doc" /\ sidecar.doc.pops = <<>>
  <2>1. SidecarPOPs = <<>> /\ Load(build, sidecar).pops = b.pops
    BY <1>3 DEF Load, WithSidecar, SidecarPOPs, b
  <2> QED
    BY <1>1, <2>1
<1>4. CASE sidecar.kind = "doc" /\ sidecar.doc.pops # <<>>
  <2> DEFINE h == Head(sidecar.doc.pops)
  <2>1. /\ SidecarPOPs = h /\ h \in Seq(POPDocs)
        /\ sidecar.doc.pops = <<h>>
    BY <1>4, SidecarsAssumption, MaybeHead DEF SidecarPOPs
  <2> HIDE DEF h
  <2>2. sidecar.doc.pops \in {<<>>, << <<>> >>} <=> h = <<>>
    BY <1>4, <2>1
  <2>3. Load(build, sidecar).pops = IF h = <<>> THEN b.pops ELSE DecodePOPs(b.pops, h)
    BY <1>4, <2>2 DEF Load, WithSidecar, b, h
  <2> QED
    BY <1>1, <2>1, <2>3, DecodedPOPs
<1> QED
  BY <1>2, <1>3, <1>4

LEMMA LoadedURLAndRun ==
  ASSUME build \in Builds, sidecar \in Sidecars
  PROVE  LET c == Load(build, sidecar) IN
         /\ c.ingest_url = IF sidecar.kind = "doc" /\ sidecar.doc.ingest_url # <<>>
                             THEN Head(sidecar.doc.ingest_url) ELSE build.ingest_url
         /\ RunLike(c.run)
         /\ IF sidecar.kind = "doc" /\ sidecar.doc.run # <<>>
              THEN /\ Head(sidecar.doc.run) \in RunDocs
                   /\ c.run = Over(DefaultRunSettings, Head(sidecar.doc.run))
              ELSE c.run = DefaultRunSettings
<1>1. Built(build).ingest_url = build.ingest_url /\ Built(build).run = DefaultRunSettings
  BY DEF Built
<1>2. CASE sidecar.kind # "doc"
  BY <1>1, <1>2, DefaultsType DEF Load
<1>3. CASE sidecar.kind = "doc"
  <2>1. sidecar.doc.run # <<>> => Head(sidecar.doc.run) \in RunDocs
    BY <1>3, SidecarsAssumption, MaybeHead
  <2>2. /\ Load(build, sidecar).ingest_url =
             IF sidecar.doc.ingest_url = <<>> THEN build.ingest_url
             ELSE Head(sidecar.doc.ingest_url)
        /\ Load(build, sidecar).run =
             IF sidecar.doc.run = <<>> THEN DefaultRunSettings
             ELSE Over(DefaultRunSettings, Head(sidecar.doc.run))
    BY <1>1, <1>3 DEF Load, WithSidecar
  <2> QED
    BY <1>3, <2>1, <2>2, DefaultsType, RunFields
<1> QED
  BY <1>2, <1>3

(* What the registry adds.                                                 *)
LEMMA AnswerOfRegistry ==
  ASSUME NEW l \in Lives, l # Failed
  PROVE  /\ l.kind = "ok" /\ l.pops \in Seq(POPDocs)
         /\ l.run # <<>> => Head(l.run) \in RunDocs
<1>1. l \in [kind : {"ok"}, pops : Seq(POPDocs), run : Maybe(RunDocs)]
  BY LivesAssumption
<1>2. l.kind = "ok" /\ l.pops \in Seq(POPDocs) /\ l.run \in Maybe(RunDocs)
  BY <1>1
<1> QED
  BY <1>2, MaybeHead

LEMMA LiveConfig ==
  ASSUME build \in Builds, sidecar \in Sidecars, NEW l \in Lives, l # Failed
  PROVE  LET c == Load(build, sidecar)
             d == WithLive(c, l)
         IN  /\ d.ingest_url = c.ingest_url
             /\ d.pops = IF l.pops = <<>> THEN c.pops ELSE DecodePOPs(<<>>, l.pops)
             /\ d.run = IF l.run = <<>> THEN c.run
                        ELSE WithDefaults(Over(ZeroRun, Head(l.run)))
             /\ POPList(d.pops) /\ RunLike(d.run)
<1> DEFINE c == Load(build, sidecar)
           d == WithLive(c, l)
<1>1. DOMAIN c = {"ingest_url", "pops", "run"}
  BY DEF Load, WithSidecar, Built
<1>2. POPList(c.pops) /\ RunLike(c.run) /\ POPList(<<>>)
  BY LoadedPOPs, LoadedURLAndRun DEF POPList
<1>3. /\ l.pops \in Seq(POPDocs)
      /\ l.run # <<>> => Head(l.run) \in RunDocs
  BY AnswerOfRegistry
<1> HIDE DEF c
<1>4. /\ d.ingest_url = c.ingest_url
      /\ d.pops = IF l.pops = <<>> THEN c.pops ELSE DecodePOPs(<<>>, l.pops)
      /\ d.run = IF l.run = <<>> THEN c.run
                 ELSE WithDefaults(Over(ZeroRun, Head(l.run)))
  BY <1>1 DEF WithLive
<1>5. POPList(d.pops)
  BY <1>2, <1>3, <1>4, DecodedPOPs
<1>6. RunLike(d.run)
  <2>1. CASE l.run = <<>>
    BY <1>2, <1>4, <2>1
  <2>2. CASE l.run # <<>>
    <3>1. RunLike(Over(ZeroRun, Head(l.run)))
      BY <1>3, <2>2, DefaultsType, RunFields
    <3> QED
      BY <1>3, <1>4, <2>2, <3>1, RunFields
  <2> QED
    BY <2>1, <2>2
<1> QED
  BY <1>4, <1>5, <1>6 DEF c

-----------------------------------------------------------------------------
(* The invariant is inductive. *)

LEMMA Marks == Failed.kind = "failed" /\ NoAnswer.kind = "none" /\ Failed # NoAnswer
<1>1. Failed.kind = "failed" /\ NoAnswer.kind = "none"
  BY DEF Failed, NoAnswer
<1>2. "failed" # "none"
  OBVIOUS
<1> QED
  BY <1>1, <1>2, Zenon

LEMMA LiveIsOk ==
  ASSUME TypeOK, live.kind = "ok"
  PROVE  live \in Lives /\ live # Failed
<1>1. live \in Lives \union {Failed, NoAnswer}
  BY DEF TypeOK
<1> QED
  BY <1>1, Marks

LEMMA InitLaunchInv == Init => LaunchInv
<1> SUFFICES ASSUME Init PROVE LaunchInv
  OBVIOUS
<1>1. cfg.run \in [{"limit", "roots"} -> Nat] /\ cfg.pops = <<>>
  BY DefaultsType DEF Init, NoCfg, RunLike
<1>2. \A k \in DOMAIN cfg.pops : cfg.pops[k].echo \in BOOLEAN
  BY <1>1
<1>3. TypeOK
  BY <1>1, <1>2 DEF Init, TypeOK
<1>4. banner = Banner(answer)
  BY DEF Init, Banner, NoAnswer
<1>5. CfgOrigin
  BY DEF Init, CfgOrigin
<1>6. FileWasSaved /\ PrefillWasSaved
  BY PeopleAssumption DEF Init, FileWasSaved, PrefillWasSaved
<1> QED
  BY <1>3, <1>4, <1>5, <1>6 DEF LaunchInv

LEMMA StartKeeps == LaunchInv /\ Start => LaunchInv'
  BY DEF LaunchInv, TypeOK, CfgOrigin, FileWasSaved, PrefillWasSaved, Start,
         sources, settings, update, identity

LEMMA LoadConfigKeeps == LaunchInv /\ LoadConfig => LaunchInv'
<1> SUFFICES ASSUME LaunchInv, LoadConfig PROVE LaunchInv'
  OBVIOUS
<1> USE DEF LaunchInv, LoadConfig, sources, update, identity
<1>1. build \in Builds /\ sidecar \in Sidecars
  BY DEF TypeOK
<1>2. POPList(cfg'.pops) /\ RunLike(cfg'.run)
  BY <1>1, LoadedPOPs, LoadedURLAndRun
<1>3. TypeOK'
  <2>1. cfg'.run \in [{"limit", "roots"} -> Nat]
    BY <1>2 DEF RunLike
  <2>2. \A k \in DOMAIN cfg'.pops : cfg'.pops[k].echo \in BOOLEAN
    BY <1>2 DEF POPList, POPLike
  <2>3. hears' \in BOOLEAN /\ phase' \in {"off", "new", "fetch", "window"}
    BY DEF Parses
  <2> QED
    BY <2>1, <2>2, <2>3 DEF TypeOK
<1>4. CfgOrigin'
  <2>1. live' = NoAnswer /\ cfg' = Load(build', sidecar') /\ NoAnswer.kind = "none"
    BY DEF CfgOrigin, NoAnswer
  <2> QED
    BY <2>1 DEF CfgOrigin
<1>5. FileWasSaved' /\ PrefillWasSaved' /\ banner' = Banner(answer)'
  BY DEF FileWasSaved, PrefillWasSaved
<1> QED
  BY <1>3, <1>4, <1>5

LEMMA FetchPOPsKeeps == LaunchInv /\ FetchPOPs => LaunchInv'
<1> SUFFICES ASSUME LaunchInv, FetchPOPs PROVE LaunchInv'
  OBVIOUS
<1> USE DEF LaunchInv, FetchPOPs, sources, update, identity
<1>1. build \in Builds /\ sidecar \in Sidecars /\ cfg = Load(build, sidecar)
  BY DEF TypeOK, CfgOrigin
<1>2. \/ live' \in Lives /\ cfg' = WithLive(cfg, live') /\ live'.kind = "ok"
      \/ live' = Failed /\ cfg' = cfg
  <2>1. live' \in Lives \/ live' = Failed
    OBVIOUS
  <2>2. CASE live' = Failed
    BY <2>2
  <2>3. CASE live' # Failed
    <3>1. cfg' = WithLive(cfg, live') /\ live' \in Lives
      BY <2>1, <2>3
    <3>2. live'.kind = "ok"
      BY <2>3, <3>1, AnswerOfRegistry
    <3> QED
      BY <3>1, <3>2, Zenon
  <2> QED
    BY <2>2, <2>3, Zenon
<1>3. Failed.kind = "failed" /\ Failed \in Lives \union {Failed}
  BY DEF Failed
<1>4. POPList(cfg'.pops) /\ RunLike(cfg'.run)
  <2>1. CASE live' = Failed /\ cfg' = cfg
    BY <1>1, <2>1, LoadedPOPs, LoadedURLAndRun
  <2>2. CASE live' \in Lives /\ live' # Failed /\ cfg' = WithLive(cfg, live')
    BY <1>1, <2>2, LiveConfig
  <2> QED
    BY <1>2, <1>3, <2>1, <2>2
<1>5. TypeOK'
  <2>1. cfg'.run \in [{"limit", "roots"} -> Nat]
    BY <1>4 DEF RunLike
  <2>2. \A k \in DOMAIN cfg'.pops : cfg'.pops[k].echo \in BOOLEAN
    BY <1>4 DEF POPList, POPLike
  <2>3. live' \in Lives \union {Failed, NoAnswer}
    BY <1>2
  <2> QED
    BY <2>1, <2>2, <2>3 DEF TypeOK
<1>6. CfgOrigin'
  BY <1>1, <1>2, <1>3 DEF CfgOrigin
<1>7. FileWasSaved' /\ PrefillWasSaved' /\ banner' = Banner(answer)'
  BY DEF FileWasSaved, PrefillWasSaved
<1> QED
  BY <1>5, <1>6, <1>7

LEMMA CheckForUpdateKeeps == LaunchInv /\ CheckForUpdate => LaunchInv'
<1> SUFFICES ASSUME LaunchInv, CheckForUpdate PROVE LaunchInv'
  OBVIOUS
<1> USE DEF LaunchInv, CheckForUpdate, sources, settings, identity
<1>1. answer' \in Answers
  BY DEF Answers
<1>2. Banner(answer') \in {"none", "modal", "error", "info"}
  BY DEF Banner
<1>3. TypeOK'
  BY <1>1, <1>2 DEF TypeOK
<1>4. CfgOrigin' /\ FileWasSaved' /\ PrefillWasSaved'
  BY DEF CfgOrigin, FileWasSaved, PrefillWasSaved
<1> QED
  BY <1>3, <1>4

LEMMA IdentityKeeps ==
  LaunchInv /\ (SavedIdentity \/ (\E p \in People : SaveBegins(p)) \/ SaveEnds) => LaunchInv'
<1> SUFFICES ASSUME LaunchInv,
                    SavedIdentity \/ (\E p \in People : SaveBegins(p)) \/ SaveEnds
             PROVE  LaunchInv'
  OBVIOUS
<1>1. UNCHANGED <<build, sidecar, phase, live, cfg, hears, answer, banner>>
  BY DEF SavedIdentity, SaveBegins, SaveEnds, sources, settings, update
<1>2. /\ file' \in People \union {"absent", "broken"}
      /\ saving' \in People \union {Nobody}
      /\ prefill' \in People \union {Nobody, ""} /\ saved' \subseteq People
  BY DEF LaunchInv, TypeOK, SavedIdentity, SaveBegins, SaveEnds, Read
<1>3. TypeOK' /\ CfgOrigin' /\ banner' = Banner(answer)'
  BY <1>1, <1>2 DEF LaunchInv, TypeOK, CfgOrigin
<1>4. FileWasSaved' /\ PrefillWasSaved'
  <2> USE DEF LaunchInv, FileWasSaved, PrefillWasSaved
  <2>1. CASE SavedIdentity
    BY <2>1 DEF SavedIdentity, Read
  <2>2. ASSUME NEW p \in People, SaveBegins(p) PROVE FileWasSaved' /\ PrefillWasSaved'
    BY <2>2, PeopleAssumption DEF SaveBegins
  <2>3. CASE SaveEnds
    BY <2>3 DEF SaveEnds
  <2> QED
    BY <2>1, <2>2, <2>3
<1> QED
  BY <1>3, <1>4 DEF LaunchInv

LEMMA EndsKeeps == LaunchInv /\ Ends => LaunchInv'
<1> SUFFICES ASSUME LaunchInv, Ends PROVE LaunchInv'
  OBVIOUS
<1> USE DEF LaunchInv, Ends, sources
<1>1. cfg'.run \in [{"limit", "roots"} -> Nat] /\ cfg'.pops = <<>>
  BY DefaultsType DEF NoCfg, RunLike
<1>2. TypeOK'
  <2>1. \A k \in DOMAIN cfg'.pops : cfg'.pops[k].echo \in BOOLEAN
    BY <1>1
  <2> QED
    BY <1>1, <2>1 DEF TypeOK
<1>3. banner' = Banner(answer)'
  BY DEF Banner, NoAnswer
<1>4. CfgOrigin' /\ FileWasSaved' /\ PrefillWasSaved'
  BY DEF CfgOrigin, FileWasSaved, PrefillWasSaved
<1> QED
  BY <1>2, <1>3, <1>4

(* At every moment of every launch, cfg is what NewApp has made so far of  *)
(* the build, the sidecar file and the registry; the banner is that of the *)
(* last answer; and a file that parses holds an identity that was saved.   *)
THEOREM LaunchInvariant == Spec => []LaunchInv
<1>1. Init => LaunchInv
  BY InitLaunchInv
<1>2. LaunchInv /\ [Next]_vars => LaunchInv'
  <2> SUFFICES ASSUME LaunchInv, [Next]_vars PROVE LaunchInv'
    OBVIOUS
  <2>1. CASE Start
    BY <2>1, StartKeeps
  <2>2. CASE LoadConfig
    BY <2>2, LoadConfigKeeps
  <2>3. CASE FetchPOPs
    BY <2>3, FetchPOPsKeeps
  <2>4. CASE CheckForUpdate
    BY <2>4, CheckForUpdateKeeps
  <2>5. CASE SavedIdentity \/ (\E p \in People : SaveBegins(p)) \/ SaveEnds
    BY <2>5, IdentityKeeps
  <2>6. CASE Ends
    BY <2>6, EndsKeeps
  <2>7. CASE UNCHANGED vars
    <3>1. TypeOK'
      <4>1. TypeOK
        BY DEF LaunchInv
      <4>2. /\ UNCHANGED <<build, sidecar, phase, live, cfg, hears>>
            /\ UNCHANGED <<answer, banner, file, saving, prefill, saved>>
        BY <2>7 DEF vars
      <4> QED
        BY <4>1, <4>2, ZenonT(30) DEF TypeOK
    <3>3. CfgOrigin'
      BY <2>7 DEF LaunchInv, CfgOrigin, vars
    <3>2. FileWasSaved' /\ PrefillWasSaved' /\ banner' = Banner(answer)'
      BY <2>7 DEF LaunchInv, FileWasSaved, PrefillWasSaved, vars
    <3> QED
      BY <3>1, <3>2, <3>3 DEF LaunchInv
  <2> QED
    BY <2>1, <2>2, <2>3, <2>4, <2>5, <2>6, <2>7 DEF Next
<1> QED
  BY <1>1, <1>2, PTL DEF Spec

-----------------------------------------------------------------------------
(* What it implies. *)

LEMMA POPsFromBest == LaunchInv => POPsFromBestSource
<1> SUFFICES ASSUME LaunchInv, phase = "window" PROVE POPsFromBestSource
  BY DEF POPsFromBestSource
<1> DEFINE c == Load(build, sidecar)
           other == IF SidecarPOPs # <<>> THEN SidecarPOPs ELSE BuiltPOPs
<1>1. build \in Builds /\ sidecar \in Sidecars
      /\ cfg = IF live.kind = "ok" THEN WithLive(c, live) ELSE c
  BY DEF LaunchInv, TypeOK, CfgOrigin
<1>2. Len(c.pops) = Len(other) /\ \A k \in DOMAIN other : <<c.pops[k].id>> = other[k].id
  BY <1>1, LoadedPOPs
<1> HIDE DEF c, other
<1>3. CASE live.kind # "ok"
  BY <1>1, <1>2, <1>3 DEF POPsFromBestSource, LivePOPs, other
<1>4. CASE live.kind = "ok"
  <2>1. live \in Lives /\ live # Failed
    BY <1>4, LiveIsOk DEF LaunchInv
  <2>2. /\ live.pops \in Seq(POPDocs) /\ LivePOPs = live.pops
        /\ cfg.pops = IF live.pops = <<>> THEN c.pops ELSE DecodePOPs(<<>>, live.pops)
    BY <1>1, <1>4, <2>1, AnswerOfRegistry, LiveConfig DEF LivePOPs, c
  <2>3. CASE live.pops = <<>>
    BY <1>2, <2>2, <2>3 DEF POPsFromBestSource, other
  <2>4. CASE live.pops # <<>>
    <3>1. POPList(<<>>)
      BY DEF POPList
    <3>2. /\ Len(cfg.pops) = Len(live.pops)
          /\ \A k \in DOMAIN live.pops : <<cfg.pops[k].id>> = live.pops[k].id
      BY <2>2, <2>4, <3>1, DecodedPOPs
    <3> QED
      BY <2>2, <2>4, <3>2 DEF POPsFromBestSource
  <2> QED
    BY <2>3, <2>4
<1> QED
  BY <1>3, <1>4

LEMMA URLFromBest == LaunchInv => URLFromBestSource
<1> SUFFICES ASSUME LaunchInv, phase = "window" PROVE URLFromBestSource
  BY DEF URLFromBestSource
<1>1. build \in Builds /\ sidecar \in Sidecars
  BY DEF LaunchInv, TypeOK
<1>2. cfg.ingest_url = Load(build, sidecar).ingest_url
  <2>1. CASE live.kind # "ok"
    BY <2>1 DEF LaunchInv, CfgOrigin
  <2>2. CASE live.kind = "ok"
    <3>1. live \in Lives /\ live # Failed
      BY <2>2, LiveIsOk DEF LaunchInv
    <3> QED
      BY <1>1, <2>2, <3>1, LiveConfig DEF LaunchInv, CfgOrigin
  <2> QED
    BY <2>1, <2>2
<1> QED
  BY <1>1, <1>2, LoadedURLAndRun DEF URLFromBestSource

LEMMA RunSettingsFromBest == LaunchInv => RunSettingsUsable
<1> SUFFICES ASSUME LaunchInv, phase = "window", NEW f \in DOMAIN cfg.run
             PROVE  LET given == IF live.kind = "ok" /\ live.run # <<>> THEN Head(live.run)[f]
                                 ELSE IF sidecar.kind = "doc" /\ sidecar.doc.run # <<>>
                                   THEN Head(sidecar.doc.run)[f] ELSE <<>>
                    IN  WithDefaults(cfg.run)[f] =
                          IF given \in {<<>>, <<0>>} THEN DefaultRunSettings[f] ELSE Head(given)
  BY DEF RunSettingsUsable
<1> DEFINE c == Load(build, sidecar)
<1>1. /\ build \in Builds /\ sidecar \in Sidecars /\ f \in {"limit", "roots"}
      /\ cfg = IF live.kind = "ok" THEN WithLive(c, live) ELSE c
  BY DEF LaunchInv, TypeOK, CfgOrigin
<1>2. DefaultRunSettings[f] = 1 /\ WithDefaults(DefaultRunSettings)[f] = 1
  <2>1. DefaultRunSettings[f] = 1
    BY <1>1 DEF DefaultRunSettings
  <2> QED
    BY <1>1, <2>1, DefaultsType DEF WithDefaults, RunLike
<1>3. IF sidecar.kind = "doc" /\ sidecar.doc.run # <<>>
        THEN /\ Head(sidecar.doc.run) \in RunDocs
             /\ c.run = Over(DefaultRunSettings, Head(sidecar.doc.run))
        ELSE c.run = DefaultRunSettings
  BY <1>1, LoadedURLAndRun
<1> HIDE DEF c
<1>4. CASE live.kind = "ok" /\ live.run # <<>>
  <2>1. live \in Lives /\ live # Failed
    BY <1>4, LiveIsOk DEF LaunchInv
  <2>2. /\ Head(live.run) \in RunDocs
        /\ cfg.run = WithDefaults(Over(ZeroRun, Head(live.run)))
    BY <1>1, <1>4, <2>1, AnswerOfRegistry, LiveConfig DEF c
  <2> QED
    BY <1>1, <1>2, <1>4, <2>2, FilledUp
<1>5. CASE ~(live.kind = "ok" /\ live.run # <<>>)
  <2>1. cfg.run = c.run
    <3>1. CASE live.kind # "ok"
      BY <1>1, <3>1
    <3>2. CASE live.kind = "ok"
      <4>1. live \in Lives /\ live # Failed
        BY <3>2, LiveIsOk DEF LaunchInv
      <4> QED
        BY <1>1, <1>5, <3>2, <4>1, LiveConfig DEF c
    <3> QED
      BY <3>1, <3>2
  <2>2. CASE sidecar.kind = "doc" /\ sidecar.doc.run # <<>>
    BY <1>1, <1>2, <1>3, <1>5, <2>1, <2>2, FilledUp
  <2>3. CASE ~(sidecar.kind = "doc" /\ sidecar.doc.run # <<>>)
    BY <1>2, <1>3, <1>5, <2>1, <2>3
  <2> QED
    BY <2>2, <2>3
<1> QED
  BY <1>4, <1>5

(* The configuration a window works with comes, part by part, from the     *)
(* best source that has that part: the registry, the sidecar, the build.   *)
THEOREM BestSourceWins == Spec => []ConfigFromBestSource
<1>1. LaunchInv => ConfigFromBestSource
  BY POPsFromBest, URLFromBest, RunSettingsFromBest DEF ConfigFromBestSource
<1> QED
  BY <1>1, LaunchInvariant, PTL

LEMMA BannersTrue == LaunchInv => BannerIsTrue
<1> SUFFICES ASSUME LaunchInv PROVE BannerIsTrue
  OBVIOUS
<1>1. CASE answer.kind # "ok"
  BY <1>1 DEF LaunchInv, Banner, BannerIsTrue
<1>2. CASE answer.kind = "ok"
  <2>1. answer \in [kind : {"ok"}, available : BOOLEAN, mandatory : BOOLEAN, supported : BOOLEAN]
    BY <1>2, Marks DEF LaunchInv, TypeOK, Answers
  <2> QED
    BY <1>2, <2>1 DEF LaunchInv, Banner, BannerIsTrue
<1> QED
  BY <1>1, <1>2

(* No banner without an answer that calls for it and none is missing, and  *)
(* the identify screen is filled with what was once saved in full, however *)
(* often the app is killed in the middle of a write.                       *)
THEOREM WindowShowsTruth == Spec => []WindowIsTrue
<1>1. LaunchInv => WindowIsTrue
  BY BannersTrue DEF LaunchInv, WindowIsTrue
<1> QED
  BY <1>1, LaunchInvariant, PTL
=============================================================================
