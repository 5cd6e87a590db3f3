----------------------- MODULE SourceSnapshotsProofs -----------------------
(***************************************************************************)
(* What a scan of a changing source returns, proved for every value of the *)
(* constants of SourceSnapshots: any number of documents, pages, changes   *)
(* and scans, and any mixture of S3 prefixes and folders.                  *)
(***************************************************************************)
EXTENDS SourceSnapshots, SumTheorems

-----------------------------------------------------------------------------
(* The inductive invariant.                                                *)

(* The source had this body at the key at some moment of the scan.         *)
Seen(key, body) == \E s \in during : s.bodies[key] = body

CurrentIsSeen == Scanning => source \in during

(* Before the first document is read, nothing is known of any.             *)
NothingRead ==
  stage \in {"listing", "manifest"} =>
    /\ scan.metadata = NoScan.metadata /\ scan.hashes = Nothing
    /\ scan.left = {} /\ scan.hashed = 0

(* The pages that are listed show what was there, the others nothing; and  *)
(* the one that has it the manifest.                                       *)
PagesListed ==
  /\ stage = "listing" =>
       /\ \A key \in Documents :
            IF PageOf[key] <= scan.page THEN Seen(key, scan.discovered[key])
            ELSE scan.discovered[key] = Absent
       /\ scan.page > 0 => \E page \in Pages : page > scan.page
  /\ stage \in {"manifest", "reading"} =>
       \A key \in Documents : Seen(key, scan.discovered[key])
  /\ (stage = "listing" /\ setup.manifest <= scan.page) \/ stage = "manifest" =>
       \E s \in during : s.manifest = scan.manifest

(* What is known of a document that was read: of a body it had, with the   *)
(* size of a body it had; and in S3 of the one that was listed.            *)
DocumentRead(key) ==
  LET hash == scan.hashes[key]
      size == scan.sizes[key]
  IN  /\ hash # Absent /\ Seen(key, hash)
      /\ ~Local => size = Size[hash] /\ (ETags => hash = scan.discovered[key])
      /\ \E s \in during : s.bodies[key] # Absent /\ size = Size[s.bodies[key]]

DocumentsRead ==
  stage = "reading" =>
    /\ scan.left \subseteq Discovered
    /\ \A key \in Documents :
         /\ \E s \in during : scan.metadata[key] = MetaIn(s, key)
         /\ key \notin Discovered => scan.hashes[key] = Absent
         /\ key \in Discovered \ scan.left => DocumentRead(key)
    /\ scan.hashed # 0 =>
         /\ Local /\ scan.hashed \in scan.left
         /\ scan.hashes[scan.hashed] # Absent
         /\ Seen(scan.hashed, scan.hashes[scan.hashed])

(* A listing of one page with ETags fixes a moment: the bodies and the     *)
(* manifest are from one state of the source.                              *)
OnePage == ~Local /\ ETags /\ Cardinality(Pages) = 1

MomentFixed ==
  OnePage =>
    /\ stage = "manifest" => \E s \in during :
         /\ scan.manifest = s.manifest
         /\ \A key \in Documents : scan.discovered[key] = s.bodies[key]
    /\ stage = "reading" => \E s \in during : \A key \in Documents :
         /\ scan.discovered[key] = s.bodies[key]
         /\ scan.metadata[key] = MetaIn(s, key)

(* The S3 source keeps the objects of the documents it returned last, and  *)
(* with ETags in the versions it returned.                                 *)
LatestKept ==
  ~Local => \A key \in Documents :
    /\ objects[key] # Absent <=> result.hashes[key] # Absent
    /\ ETags => objects[key] = result.hashes[key]

ProgressInv ==
  CurrentIsSeen /\ NothingRead /\ PagesListed /\ DocumentsRead /\ MomentFixed

SnapshotInv ==
  TypeOK /\ ProgressInv /\ EachItemWasSo /\ ScanIsOneMoment /\ LatestKept

-----------------------------------------------------------------------------
LEMMA DocumentFacts ==
  /\ Documents \subseteq Keys /\ Documents \subseteq Nat \ {0}
  /\ IsFiniteSet(Documents)
<1>1. Documents \subseteq Keys
  BY DEF Documents
<1> QED
  BY <1>1, KeysAreOrdered, FS_Subset

(* The next document is one that is left. *)
LEMMA FirstIsLeft ==
  ASSUME NEW S \in SUBSET Documents, S # {}
  PROVE  First(S) \in S
<1>1. IsFiniteSet(S)
  BY DocumentFacts, FS_Subset
<1>2. S \in SUBSET Int
  BY DocumentFacts
<1>3. PICK key \in S : \A other \in S : key <= other
  BY <1>1, <1>2, FirstOfFinite
<1> QED
  BY <1>3 DEF First

Scan == [page : Nat, discovered : [Documents -> Bodies],
         manifest : Manifests \cup {Invalid, Absent}, metadata : Metadata,
         left : SUBSET Documents, hashed : Documents \cup {0},
         hashes : [Documents -> Bodies], sizes : [Documents -> Nat]]

LEMMA NoScanType == NoScan \in Scan /\ Nothing \in [Documents -> Bodies]
BY DEF NoScan, Nothing, Scan, Bodies, Metadata

(* The types, for the steps of a scan. *)
LEMMA ScanTypes ==
  ASSUME TypeOK
  PROVE  /\ scan \in Scan /\ source \in Sources
         /\ \A key \in Documents : source.bodies[key] \in Bodies
         /\ source.manifest \in Manifests \cup {Invalid, Absent}
         /\ setup \in Setups /\ setup \in Setup
         /\ \A key \in Keys : PageOf[key] \in Nat \ {0}
         /\ setup.manifest \in Nat \ {0}
<1>1. setup \in Setup
  BY SetupsAreSetups DEF TypeOK
<1> QED
  BY <1>1, DocumentFacts DEF TypeOK, Scan, Sources, Setup, PageOf

(* What a step of a scan may change besides stage, scan and reason.        *)
ScanFrame == UNCHANGED <<setup, source, edits, scans, during, objects, result>>

(* A step that leads to a proper stage of the scan keeps the types.        *)
LEMMA ScanStepType ==
  ASSUME TypeOK, ScanFrame, UNCHANGED reason, scan' \in Scan,
         stage' \in {"listing", "manifest", "reading"}
  PROVE  TypeOK'
BY DEF TypeOK, ScanFrame, Scan

(* ... and what a step does not touch is kept for load().                  *)
LEMMA NothingReturned ==
  ASSUME LatestKept, UNCHANGED <<setup, objects, result>>
  PROVE  LatestKept'
BY DEF LatestKept, Local, ETags

(* Before it is done, nothing is claimed of a finished scan.               *)
LEMMA NotDone ==
  ASSUME stage' # "done"
  PROVE  EachItemWasSo' /\ ScanIsOneMoment'
BY DEF EachItemWasSo, ScanIsOneMoment

(* A scan that raises promises nothing. *)
LEMMA RaiseKeeps ==
  ASSUME SnapshotInv, ScanFrame,
         NEW why \in {"unsafe", "invalid", "unknown", "unreadable"}, Raise(why)
  PROVE  SnapshotInv'
<1>1. stage' = "failed" /\ reason' = why /\ UNCHANGED scan
  BY DEF Raise
<1>2. TypeOK'
  BY <1>1 DEF SnapshotInv, TypeOK, ScanFrame
<1>3. ProgressInv'
  BY <1>1 DEF ProgressInv, CurrentIsSeen, Scanning, NothingRead, PagesListed,
              DocumentsRead, MomentFixed
<1> QED
  BY <1>1, <1>2, <1>3, NotDone, NothingReturned DEF SnapshotInv, ScanFrame

LEMMA InitSnapshotInv == Init => SnapshotInv
<1> SUFFICES ASSUME Init PROVE SnapshotInv
  OBVIOUS
<1>1. TypeOK
  BY NoScanType, InitialIsSource, BoundsAreNat
     DEF Init, TypeOK, Scan, Empty, NoScan, Metadata, Bodies
<1>2. ProgressInv /\ EachItemWasSo /\ ScanIsOneMoment /\ LatestKept
  BY DEF Init, LatestKept, Empty, Nothing, ProgressInv, CurrentIsSeen, Scanning,
         NothingRead, PagesListed,
         DocumentsRead, MomentFixed, EachItemWasSo, ScanIsOneMoment
<1> QED
  BY <1>1, <1>2 DEF SnapshotInv

(* A change of the source adds a state to those that were seen.            *)
LEMMA EditKeeps ==
  ASSUME SnapshotInv, Edit
  PROVE  SnapshotInv'
<1>1. /\ edits < MaxEdits /\ edits' = edits + 1
      /\ during' = IF Scanning THEN during \cup {source'} ELSE during
      /\ UNCHANGED <<setup, scans, stage, scan, objects, result, reason>>
  BY DEF Edit
<1>2. TypeOK
  BY DEF SnapshotInv
<1>3. source' \in Sources
  <2>1. CASE \E key \in Keys, body \in Bodies :
               source' = [source EXCEPT !.bodies[key] = body]
    <3>1. PICK key \in Keys, body \in Bodies :
            source' = [source EXCEPT !.bodies[key] = body]
      BY <2>1
    <3> QED
      BY <1>2, <3>1 DEF TypeOK, Sources
  <2>2. CASE \E manifest \in Manifests \cup {Invalid, Absent} :
               source' = [source EXCEPT !.manifest = manifest]
    <3>1. PICK manifest \in Manifests \cup {Invalid, Absent} :
            source' = [source EXCEPT !.manifest = manifest]
      BY <2>2
    <3> QED
      BY <1>2, <3>1 DEF TypeOK, Sources
  <2> QED
    BY <2>1, <2>2 DEF Edit
<1>4. TypeOK'
  <2>1. edits' \in 0 .. MaxEdits
    BY <1>1, <1>2, BoundsAreNat DEF TypeOK
  <2> QED
    BY <1>1, <1>2, <1>3, <2>1 DEF TypeOK
<1>5. during \subseteq during' /\ (Scanning => source' \in during')
  BY <1>1
<1>6. CurrentIsSeen' /\ NothingRead'
  BY <1>1, <1>5 DEF SnapshotInv, ProgressInv, CurrentIsSeen, Scanning, NothingRead
<1>7. PagesListed'
  BY <1>1, <1>5 DEF SnapshotInv, ProgressInv, PagesListed, Seen, PageOf, Pages
<1>8. DocumentsRead'
  <2> SUFFICES ASSUME stage = "reading" PROVE DocumentsRead'
    BY <1>1 DEF DocumentsRead
  <2>1. ASSUME NEW key \in Documents, DocumentRead(key) PROVE DocumentRead(key)'
    BY <1>1, <1>5, <2>1 DEF DocumentRead, Seen, Local, ETags
  <2>2. Discovered' = Discovered
    BY <1>1 DEF Discovered
  <2>3. DocumentsRead
    BY DEF SnapshotInv, ProgressInv
  <2> QED
    BY <1>1, <1>5, <2>1, <2>2, <2>3 DEF DocumentsRead, Seen, Local
<1>9. MomentFixed'
  BY <1>1, <1>5 DEF SnapshotInv, ProgressInv, MomentFixed, OnePage, Local, ETags,
                    Pages, PageOf
<1>10. EachItemWasSo' /\ ScanIsOneMoment'
  BY <1>1, <1>5 DEF SnapshotInv, EachItemWasSo, ScanIsOneMoment, Local, ETags,
                    Pages, PageOf
<1> QED
  BY <1>1, <1>4, <1>6, <1>7, <1>8, <1>9, <1>10, NothingReturned
     DEF SnapshotInv, ProgressInv

LEMMA StartKeeps ==
  ASSUME SnapshotInv, StartScan
  PROVE  SnapshotInv'
<1>1. /\ scans < MaxScans /\ scans' = scans + 1
      /\ stage' = "listing" /\ scan' = NoScan /\ during' = {source}
      /\ reason' = "none"
      /\ UNCHANGED <<setup, source, edits, objects, result>>
  BY DEF StartScan
<1>2. TypeOK
  BY DEF SnapshotInv
<1>3. TypeOK'
  <2>1. scans' \in 0 .. MaxScans
    BY <1>1, <1>2, BoundsAreNat DEF TypeOK
  <2> QED
    BY <1>1, <1>2, <2>1, NoScanType DEF TypeOK, Scan
<1>4. NoScan.page = 0 /\ NoScan.left = {} /\ NoScan.hashed = 0
      /\ NoScan.hashes = Nothing
      /\ \A key \in Documents : NoScan.discovered[key] = Absent
  BY DEF NoScan, Nothing
<1>5. CurrentIsSeen' /\ NothingRead' /\ DocumentsRead' /\ MomentFixed'
  BY <1>1, <1>4 DEF CurrentIsSeen, NothingRead, DocumentsRead, MomentFixed
<1>6. PagesListed'
  <2>1. /\ \A key \in Documents : ~ (PageOf[key] <= 0) /\ PageOf' = PageOf
        /\ ~ (setup.manifest <= 0) /\ setup' = setup
    BY <1>1, <1>2, ScanTypes, DocumentFacts DEF PageOf
  <2> QED
    BY <1>1, <1>4, <2>1 DEF PagesListed
<1> QED
  BY <1>1, <1>3, <1>5, <1>6, NotDone, NothingReturned DEF SnapshotInv, ProgressInv

-----------------------------------------------------------------------------
(* A page of the listing is read: its documents are there as listed.       *)
LEMMA ListKeeps ==
  ASSUME SnapshotInv, ListPage
  PROVE  SnapshotInv'
<1> DEFINE page == scan.page + 1
           manifest == IF page = setup.manifest THEN source.manifest ELSE scan.manifest
           found == DiscoveredOn(page)
<1>1. stage = "listing" /\ ScanFrame
  BY DEF ListPage, ScanFrame
<1>2. CASE Unsafe(page) # {}
  BY <1>1, <1>2, RaiseKeeps DEF ListPage
<1>3. CASE Unsafe(page) = {}
  <2>1. /\ scan' = [scan EXCEPT !.page = page, !.manifest = manifest,
                                !.discovered = found]
        /\ stage' = IF \A other \in Pages : other <= page
                    THEN "manifest" ELSE "listing"
        /\ UNCHANGED reason
    BY <1>3 DEF ListPage
  <2>2. /\ TypeOK /\ scan \in Scan /\ source \in Sources
        /\ \A key \in Documents : source.bodies[key] \in Bodies
        /\ source.manifest \in Manifests \cup {Invalid, Absent}
        /\ \A key \in Keys : PageOf[key] \in Nat \ {0}
        /\ setup.manifest \in Nat \ {0}
    BY ScanTypes DEF SnapshotInv
  <2>3. page \in Nat \ {0} /\ scan.page \in Nat
    BY <2>2 DEF Scan
  <2>4. found \in [Documents -> Bodies]
    BY <2>2 DEF DiscoveredOn, Scan
  <2>5. manifest \in Manifests \cup {Invalid, Absent}
    BY <2>2 DEF Scan
  <2>6. scan.metadata = NoScan.metadata /\ scan.hashes = Nothing
        /\ scan.left = {} /\ scan.hashed = 0
    BY <1>1 DEF SnapshotInv, ProgressInv, NothingRead
  <2>7. source \in during
    BY <1>1 DEF SnapshotInv, ProgressInv, CurrentIsSeen, Scanning
  <2>8. \A key \in Documents :
          IF PageOf[key] <= page THEN Seen(key, found[key])
          ELSE found[key] = Absent
    <3> SUFFICES ASSUME NEW key \in Documents
                 PROVE  IF PageOf[key] <= page THEN Seen(key, found[key])
                        ELSE found[key] = Absent
      OBVIOUS
    <3>1. IF PageOf[key] <= scan.page THEN Seen(key, scan.discovered[key])
          ELSE scan.discovered[key] = Absent
      BY <1>1 DEF SnapshotInv, ProgressInv, PagesListed
    <3>2. key \in Keys /\ Kind[key] = "document" /\ PageOf[key] \in Nat
      BY <2>2 DEF Documents
    <3>3. found[key] = IF key \in Listed(page) THEN source.bodies[key]
                       ELSE scan.discovered[key]
      BY DEF DiscoveredOn
    <3>4. CASE PageOf[key] = page
      <4>1. found[key] = source.bodies[key]
        <5>1. ~ (PageOf[key] <= scan.page)
          BY <2>3, <3>4
        <5> QED
          BY <3>1, <3>2, <3>3, <3>4, <5>1 DEF Listed
      <4>2. Seen(key, found[key]) /\ PageOf[key] <= page
        BY <2>3, <2>7, <3>4, <4>1 DEF Seen
      <4> QED
        BY <4>2
    <3>5. CASE PageOf[key] # page
      <4>1. found[key] = scan.discovered[key]
        BY <3>3, <3>5 DEF Listed
      <4>2. PageOf[key] <= page <=> PageOf[key] <= scan.page
        BY <2>3, <3>2, <3>5
      <4> QED
        BY <3>1, <4>1, <4>2
    <3> QED
      BY <3>4, <3>5
  <2>9. setup.manifest <= page => \E s \in during : s.manifest = manifest
    <3> SUFFICES ASSUME setup.manifest <= page
                 PROVE  \E s \in during : s.manifest = manifest
      OBVIOUS
    <3>1. CASE page = setup.manifest
      BY <2>7, <3>1
    <3>2. CASE page # setup.manifest
      <4>1. setup.manifest <= scan.page
        BY <2>2, <2>3, <3>2
      <4>2. \E s \in during : s.manifest = scan.manifest
        BY <1>1, <4>1 DEF SnapshotInv, ProgressInv, PagesListed
      <4> QED
        BY <3>2, <4>2
    <3> QED
      BY <3>1, <3>2
  <2>10. OnePage /\ stage' = "manifest" =>
           \E s \in during : /\ manifest = s.manifest
                             /\ \A key \in Documents : found[key] = s.bodies[key]
    <3> SUFFICES ASSUME OnePage
                 PROVE  \E s \in during :
                          /\ manifest = s.manifest
                          /\ \A key \in Documents : found[key] = s.bodies[key]
      OBVIOUS
    <3>1. Pages = {1}
      <4>1. PICK n : Pages = {n}
        <5>1. setup.manifest \in Pages
          BY DEF Pages, PagesOf
        <5>2. IsFiniteSet(Pages)
          <6> DEFINE pageOf == [key \in Keys |-> PageOf[key]]
                     keyPages == {PageOf[key] : key \in Keys}
          <6>1. pageOf \in Surjection(Keys, keyPages)
            BY DEF Surjection
          <6>2. IsFiniteSet(keyPages)
            BY <6>1, FS_Surjection, KeysAreOrdered
          <6>3. Pages = keyPages \cup {setup.manifest}
            BY DEF Pages, PagesOf, PageOf
          <6> QED
            BY <6>2, <6>3, FS_AddElement
        <5> QED
          BY <5>2, FS_Singleton DEF OnePage
      <4>2. setup.manifest = n
        BY <4>1 DEF Pages, PagesOf
      <4>3. n \in Nat \ {0} /\ 1 .. n \subseteq Pages
        BY <2>2, <4>1, <4>2, SetupsAreSetups DEF TypeOK, Pages
      <4>4. 1 \in 1 .. n
        BY <4>3
      <4> QED
        BY <4>1, <4>3, <4>4
    <3>2. page = 1 /\ setup.manifest = 1
      <4>1. scan.page > 0 => \E other \in Pages : other > scan.page
        BY <1>1 DEF SnapshotInv, ProgressInv, PagesListed
      <4>2. setup.manifest \in Pages
        BY DEF Pages, PagesOf
      <4> QED
        BY <2>3, <3>1, <4>1, <4>2
    <3>3. \A key \in Documents : found[key] = source.bodies[key]
      <4> SUFFICES ASSUME NEW key \in Documents
                   PROVE  found[key] = source.bodies[key]
        OBVIOUS
      <4>1. key \in Keys /\ Kind[key] = "document" /\ PageOf[key] = 1
        BY <3>1 DEF Documents, Pages, PagesOf, PageOf
      <4>2. scan.discovered[key] = Absent
        <5>1. scan.page = 0
          BY <2>3, <3>2
        <5>2. ~ (PageOf[key] <= scan.page)
          BY <4>1, <5>1
        <5> QED
          BY <1>1, <5>2 DEF SnapshotInv, ProgressInv, PagesListed
      <4> QED
        BY <3>2, <4>1, <4>2 DEF DiscoveredOn, Listed
    <3> QED
      BY <2>7, <3>2, <3>3
  <2> HIDE DEF page, manifest, found
  <2>11. /\ scan' \in Scan
         /\ scan'.page = page /\ scan'.manifest = manifest
         /\ scan'.discovered = found
         /\ scan'.metadata = scan.metadata /\ scan'.hashes = scan.hashes
         /\ scan'.left = scan.left /\ scan'.hashed = scan.hashed
    BY <2>1, <2>2, <2>3, <2>4, <2>5 DEF Scan
  <2>12. stage' \in {"listing", "manifest"}
    BY <2>1
  <2>13. TypeOK'
    BY <1>1, <2>1, <2>2, <2>11, <2>12, ScanStepType
  <2>14. UNCHANGED <<during, source, setup>> /\ PageOf' = PageOf /\ Pages' = Pages
    BY <1>1 DEF ScanFrame, PageOf, Pages, PagesOf
  <2>15. CurrentIsSeen' /\ NothingRead' /\ DocumentsRead'
    BY <2>6, <2>7, <2>11, <2>12, <2>14
       DEF CurrentIsSeen, NothingRead, DocumentsRead
  <2>16. PagesListed'
    <3>1. stage' = "listing" => \E other \in Pages : other > page
      <4>1. \A other \in Pages : other \in Nat
        BY <2>2 DEF Pages, PagesOf, PageOf
      <4> QED
        BY <2>1, <2>3, <4>1
    <3>2. stage' = "manifest" =>
            setup.manifest <= page /\ \A key \in Documents : PageOf[key] <= page
      BY <2>1, DocumentFacts DEF Pages, PagesOf, PageOf
    <3>3. \A key \in Documents :
            IF PageOf'[key] <= scan'.page
            THEN \E s \in during' : s.bodies[key] = scan'.discovered[key]
            ELSE scan'.discovered[key] = Absent
      BY <2>8, <2>11, <2>14 DEF Seen
    <3>4. setup.manifest <= page => \E s \in during' : s.manifest = scan'.manifest
      BY <2>9, <2>11, <2>14
    <3> QED
      BY <2>11, <2>12, <2>14, <3>1, <3>2, <3>3, <3>4 DEF PagesListed, Seen
  <2>17. MomentFixed'
    BY <2>10, <2>11, <2>12, <2>14 DEF MomentFixed, OnePage, Local, ETags
  <2> QED
    BY <1>1, <2>12, <2>13, <2>15, <2>16, <2>17, NotDone, NothingReturned
       DEF SnapshotInv, ProgressInv, ScanFrame
<1> QED
  BY <1>2, <1>3

(* The manifest is read: the metadata is what one state of the source says.*)
LEMMA ManifestKeeps ==
  ASSUME SnapshotInv, ReadManifest
  PROVE  SnapshotInv'
<1> DEFINE manifest == IF Local \/ scan.manifest # Absent
                       THEN source.manifest ELSE Absent
           gone == /\ ~Local /\ scan.manifest # Absent
                   /\ ~Matches(manifest, scan.manifest)
           unknown == manifest # Absent /\ ~(DOMAIN manifest \subseteq Discovered)
           metadata == IF manifest = Absent THEN scan.metadata
                       ELSE [key \in Documents |->
                               IF key \in DOMAIN manifest
                               THEN manifest[key] ELSE NoMeta]
<1>1. stage = "manifest" /\ ScanFrame
  BY DEF ReadManifest, ScanFrame
<1>2. CASE gone \/ manifest = Invalid \/ unknown
  <2>1. Raise("unreadable") \/ Raise("invalid") \/ Raise("unknown")
    BY <1>2 DEF ReadManifest
  <2> QED
    BY <1>1, <2>1, RaiseKeeps
<1>3. CASE ~gone /\ manifest # Invalid /\ ~unknown
  <2>1. /\ scan' = [scan EXCEPT !.left = Discovered, !.metadata = metadata]
        /\ stage' = "reading" /\ UNCHANGED reason
    BY <1>3 DEF ReadManifest
  <2>2. /\ TypeOK /\ scan \in Scan /\ source \in Sources
        /\ source.manifest \in Manifests \cup {Invalid, Absent}
    BY ScanTypes DEF SnapshotInv
  <2>3. /\ scan.metadata = NoScan.metadata /\ scan.hashes = Nothing
        /\ scan.left = {} /\ scan.hashed = 0
    BY <1>1 DEF SnapshotInv, ProgressInv, NothingRead
  <2>4. source \in during
    BY <1>1 DEF SnapshotInv, ProgressInv, CurrentIsSeen, Scanning
  <2>5. PICK listed \in during : listed.manifest = scan.manifest
    BY <1>1 DEF SnapshotInv, ProgressInv, PagesListed
  <2>6. manifest \in Manifests \/ manifest = Absent
    BY <1>3, <2>2
  <2>7. metadata \in Metadata
    <3>1. CASE manifest = Absent
      BY <2>2, <3>1 DEF Scan
    <3>2. CASE manifest # Absent
      <4>1. \A key \in DOMAIN manifest : manifest[key] \in Metas \cup {NoMeta}
        BY <2>6, <3>2, ManifestsDescribe
      <4> HIDE DEF manifest
      <4> QED
        BY <3>2, <4>1 DEF Metadata
    <3> QED
      BY <3>1, <3>2
  <2>8. \A s \in during : s.manifest = manifest =>
          \A key \in Documents : metadata[key] = MetaIn(s, key)
    <3>1. CASE manifest = Absent
      <4>1. \A key \in Documents : metadata[key] = NoMeta
        BY <2>3, <3>1 DEF NoScan
      <4>2. Absent \notin Manifests
        BY AbsentIsNoBody
      <4> QED
        BY <3>1, <4>1, <4>2 DEF MetaIn
    <3>2. CASE manifest # Absent
      <4>1. manifest \in Manifests
        BY <2>6, <3>2
      <4> HIDE DEF manifest
      <4> QED
        BY <3>2, <4>1 DEF MetaIn
    <3> QED
      BY <3>1, <3>2
  <2>9. \E s \in during : s.manifest = manifest
    BY <2>4, <2>5
  <2>10. OnePage => manifest = scan.manifest
    BY <1>3 DEF OnePage, Matches
  <2> HIDE DEF manifest, gone, unknown, metadata
  <2>11. /\ scan' \in Scan
         /\ scan'.left = Discovered /\ scan'.metadata = metadata
         /\ scan'.discovered = scan.discovered /\ scan'.hashes = scan.hashes
         /\ scan'.hashed = 0
    <3>1. Discovered \in SUBSET Documents
      BY DEF Discovered
    <3> QED
      BY <2>1, <2>2, <2>3, <2>7, <3>1 DEF Scan
  <2>12. TypeOK'
    BY <1>1, <2>1, <2>2, <2>11, ScanStepType
  <2>13. UNCHANGED <<during, source, setup>> /\ Discovered' = Discovered
    BY <1>1, <2>11 DEF ScanFrame, Discovered
  <2>14. CurrentIsSeen' /\ NothingRead'
    BY <2>1, <2>4, <2>13 DEF CurrentIsSeen, NothingRead
  <2>15. PagesListed'
    <3>1. \A key \in Documents : Seen(key, scan.discovered[key])
      BY <1>1 DEF SnapshotInv, ProgressInv, PagesListed
    <3> QED
      BY <2>1, <2>11, <2>13, <3>1 DEF PagesListed, Seen
  <2>16. DocumentsRead'
    <3>1. \A key \in Documents : scan'.hashes[key] = Absent
      BY <2>3, <2>11 DEF Nothing
    <3>2. \A key \in Documents : \E s \in during' : scan'.metadata[key] = MetaIn(s, key)
      BY <2>8, <2>9, <2>11, <2>13
    <3> QED
      BY <2>1, <2>11, <2>13, <3>1, <3>2 DEF DocumentsRead
  <2>17. MomentFixed'
    <3>1. OnePage' = OnePage
      BY <2>13 DEF OnePage, Local, ETags, Pages, PageOf
    <3>2. OnePage => \E s \in during : \A key \in Documents :
             /\ scan.discovered[key] = s.bodies[key]
             /\ metadata[key] = MetaIn(s, key)
      <4> SUFFICES ASSUME OnePage
                   PROVE  \E s \in during : \A key \in Documents :
                            /\ scan.discovered[key] = s.bodies[key]
                            /\ metadata[key] = MetaIn(s, key)
        OBVIOUS
      <4>1. PICK s \in during :
              /\ scan.manifest = s.manifest
              /\ \A key \in Documents : scan.discovered[key] = s.bodies[key]
        BY <1>1 DEF SnapshotInv, ProgressInv, MomentFixed
      <4> QED
        BY <2>8, <2>10, <4>1
    <3> QED
      BY <2>1, <2>11, <2>13, <3>1, <3>2 DEF MomentFixed
  <2> QED
    BY <1>1, <2>1, <2>12, <2>14, <2>15, <2>16, <2>17, NotDone, NothingReturned
       DEF SnapshotInv, ProgressInv, ScanFrame
<1> QED
  BY <1>2, <1>3

(* A step that reads of one document: the others are as they were.         *)
LEMMA ReadingKeeps ==
  ASSUME SnapshotInv, stage = "reading", ScanFrame, UNCHANGED <<stage, reason>>,
         scan' \in Scan, scan'.discovered = scan.discovered,
         scan'.metadata = scan.metadata, scan'.left \subseteq scan.left,
         \A key \in Documents \ scan.left :
           scan'.hashes[key] = scan.hashes[key] /\ scan'.sizes[key] = scan.sizes[key],
         \A key \in scan.left \ scan'.left : DocumentRead(key)',
         scan'.hashed # 0 =>
           /\ Local /\ scan'.hashed \in scan'.left
           /\ scan'.hashes[scan'.hashed] # Absent
           /\ Seen(scan'.hashed, scan'.hashes[scan'.hashed])
  PROVE  SnapshotInv'
<1>1. TypeOK'
  BY ScanStepType DEF SnapshotInv
<1>2. UNCHANGED <<during, source, setup>> /\ Discovered' = Discovered
  BY DEF ScanFrame, Discovered
<1>3. CurrentIsSeen' /\ NothingRead' /\ PagesListed' /\ MomentFixed'
  BY <1>2 DEF SnapshotInv, ProgressInv, CurrentIsSeen, Scanning, NothingRead,
       PagesListed, MomentFixed, OnePage, Seen, Local, ETags, Pages, PageOf
<1>4. DocumentsRead
  BY DEF SnapshotInv, ProgressInv
<1>5. scan.left \subseteq Discovered /\ Discovered \subseteq Documents
  BY <1>4 DEF DocumentsRead, Discovered
<1>6. ASSUME NEW key \in Documents
      PROVE  /\ \E s \in during : scan'.metadata[key] = MetaIn(s, key)
             /\ key \notin Discovered => scan'.hashes[key] = Absent
             /\ key \in Discovered \ scan'.left => DocumentRead(key)'
  <2>1. \E s \in during : scan'.metadata[key] = MetaIn(s, key)
    BY <1>4 DEF DocumentsRead
  <2>2. key \notin Discovered => scan'.hashes[key] = Absent
    BY <1>4, <1>5 DEF DocumentsRead
  <2>3. CASE key \in Discovered \ scan.left
    <3>1. DocumentRead(key)
      BY <1>4, <2>3 DEF DocumentsRead
    <3>2. DocumentRead(key)'
      BY <1>2, <2>3, <3>1 DEF DocumentRead, Seen, Local, ETags
    <3> QED
      BY <2>1, <2>2, <3>2
  <2> QED
    BY <2>1, <2>2, <2>3
<1>7. DocumentsRead'
  <2>1. scan'.hashed # 0 =>
          Local' /\ Seen(scan.hashed, scan.hashes[scan.hashed])'
    BY <1>2 DEF Local, Seen
  <2> QED
    BY <1>2, <1>5, <1>6, <2>1 DEF DocumentsRead
<1> QED
  BY <1>1, <1>3, <1>7, NotDone, NothingReturned
     DEF SnapshotInv, ProgressInv, ScanFrame

(* S3: the next object is read whole, as it is now.                        *)
LEMMA ObjectKeeps ==
  ASSUME SnapshotInv, ReadObject
  PROVE  SnapshotInv'
<1> DEFINE key == First(scan.left)
           body == source.bodies[key]
<1>1. stage = "reading" /\ ~Local /\ scan.left # {} /\ ScanFrame
  BY DEF ReadObject, ScanFrame
<1>2. /\ TypeOK /\ scan \in Scan
      /\ \A k \in Documents : source.bodies[k] \in Bodies
  BY ScanTypes DEF SnapshotInv
<1>3. key \in scan.left /\ key \in Documents
  BY <1>1, <1>2, FirstIsLeft DEF Scan
<1>4. CASE ~Matches(body, scan.discovered[key])
  BY <1>1, <1>4, RaiseKeeps DEF ReadObject
<1>5. CASE Matches(body, scan.discovered[key])
  <2>1. /\ scan' = [scan EXCEPT !.left = @ \ {key}, !.hashes[key] = body,
                                !.sizes[key] = Size[body]]
        /\ UNCHANGED <<stage, reason>>
    BY <1>5 DEF ReadObject
  <2>2. body \in Contents /\ (ETags => body = scan.discovered[key])
    BY <1>2, <1>3, <1>5 DEF Matches, Bodies
  <2>3. source \in during
    BY <1>1 DEF SnapshotInv, ProgressInv, CurrentIsSeen, Scanning
  <2>4. body # Absent /\ Size[body] \in Nat /\ body = source.bodies[key]
    BY <2>2, SizesAreNat, AbsentIsNoBody
  <2> HIDE DEF key, body
  <2>5. /\ scan' \in Scan /\ scan'.discovered = scan.discovered
        /\ scan'.metadata = scan.metadata /\ scan'.left = scan.left \ {key}
        /\ scan'.hashes[key] = body /\ scan'.sizes[key] = Size[body]
        /\ scan'.hashed = scan.hashed
        /\ \A k \in Documents \ {key} :
             scan'.hashes[k] = scan.hashes[k] /\ scan'.sizes[k] = scan.sizes[k]
    BY <1>2, <1>3, <2>1, <2>2, <2>4 DEF Scan, Bodies
  <2>6. scan.hashed = 0
    BY <1>1 DEF SnapshotInv, ProgressInv, DocumentsRead
  <2>7. UNCHANGED <<during, setup>>
    BY <1>1 DEF ScanFrame
  <2>8. \A k \in scan.left \ scan'.left : DocumentRead(k)'
    <3> SUFFICES ASSUME NEW k \in {key} PROVE DocumentRead(k)'
      BY <2>5
    <3>1. /\ scan'.hashes[k] = body /\ scan'.sizes[k] = Size[body]
          /\ source.bodies[k] = body
      BY <2>4, <2>5
    <3>2. scan'.discovered[k] = scan.discovered[key]
      BY <2>5
    <3> QED
      BY <2>2, <2>3, <2>4, <2>7, <3>1, <3>2 DEF DocumentRead, Seen, Local, ETags
  <2> QED
    BY <1>1, <1>3, <2>1, <2>5, <2>6, <2>8, ReadingKeeps
<1> QED
  BY <1>4, <1>5

(* A folder: the next file is hashed. *)
LEMMA HashKeeps ==
  ASSUME SnapshotInv, HashFile
  PROVE  SnapshotInv'
<1> DEFINE key == First(scan.left)
           body == source.bodies[key]
<1>1. stage = "reading" /\ Local /\ scan.left # {} /\ ScanFrame
  BY DEF HashFile, ScanFrame
<1>2. /\ TypeOK /\ scan \in Scan
      /\ \A k \in Documents : source.bodies[k] \in Bodies
  BY ScanTypes DEF SnapshotInv
<1>3. key \in scan.left /\ key \in Documents
  BY <1>1, <1>2, FirstIsLeft DEF Scan
<1>4. CASE body = Absent
  BY <1>1, <1>4, RaiseKeeps DEF HashFile
<1>5. CASE body # Absent
  <2>1. /\ scan' = [scan EXCEPT !.hashed = key, !.hashes[key] = body]
        /\ UNCHANGED <<stage, reason>>
    BY <1>5 DEF HashFile
  <2>2. body \in Bodies /\ source.bodies[key] = body
    BY <1>2, <1>3
  <2>3. source \in during
    BY <1>1 DEF SnapshotInv, ProgressInv, CurrentIsSeen, Scanning
  <2> HIDE DEF key, body
  <2>4. /\ scan' \in Scan /\ scan'.discovered = scan.discovered
        /\ scan'.metadata = scan.metadata /\ scan'.left = scan.left
        /\ scan'.hashes[key] = body /\ scan'.sizes = scan.sizes
        /\ scan'.hashed = key
        /\ \A k \in Documents \ {key} : scan'.hashes[k] = scan.hashes[k]
    BY <1>2, <1>3, <2>1, <2>2 DEF Scan
  <2>5. Seen(key, body)
    BY <2>2, <2>3 DEF Seen
  <2> QED
    BY <1>1, <1>3, <1>5, <2>1, <2>4, <2>5, ReadingKeeps
<1> QED
  BY <1>4, <1>5

(* A folder: the file that was hashed is measured, as it is now.           *)
LEMMA StatKeeps ==
  ASSUME SnapshotInv, StatFile
  PROVE  SnapshotInv'
<1> DEFINE key == scan.hashed
           body == source.bodies[key]
<1>1. stage = "reading" /\ key # 0 /\ ScanFrame
  BY DEF StatFile, ScanFrame
<1>2. /\ TypeOK /\ scan \in Scan
      /\ \A k \in Documents : source.bodies[k] \in Bodies
  BY ScanTypes DEF SnapshotInv
<1>3. /\ Local /\ key \in scan.left /\ scan.hashes[key] # Absent
      /\ Seen(key, scan.hashes[key])
  BY <1>1 DEF SnapshotInv, ProgressInv, DocumentsRead
<1>4. key \in Documents
  BY <1>2, <1>3 DEF Scan
<1>5. CASE body = Absent
  BY <1>1, <1>5, RaiseKeeps DEF StatFile
<1>6. CASE body # Absent
  <2>1. /\ scan' = [scan EXCEPT !.hashed = 0, !.left = @ \ {key},
                                !.sizes[key] = Size[body]]
        /\ UNCHANGED <<stage, reason>>
    BY <1>6 DEF StatFile
  <2>2. body \in Contents /\ Size[body] \in Nat /\ source.bodies[key] = body
    BY <1>2, <1>4, <1>6, SizesAreNat DEF Bodies
  <2>3. source \in during
    BY <1>1 DEF SnapshotInv, ProgressInv, CurrentIsSeen, Scanning
  <2> HIDE DEF key, body
  <2>4. /\ scan' \in Scan /\ scan'.discovered = scan.discovered
        /\ scan'.metadata = scan.metadata /\ scan'.left = scan.left \ {key}
        /\ scan'.hashes = scan.hashes /\ scan'.sizes[key] = Size[body]
        /\ scan'.hashed = 0
        /\ \A k \in Documents \ {key} : scan'.sizes[k] = scan.sizes[k]
    BY <1>2, <1>4, <2>1, <2>2 DEF Scan
  <2>5. UNCHANGED <<during, setup>>
    BY <1>1 DEF ScanFrame
  <2>6. \A k \in scan.left \ scan'.left : DocumentRead(k)'
    <3> SUFFICES ASSUME NEW k \in {key} PROVE DocumentRead(k)'
      BY <2>4
    <3>1. /\ scan'.hashes[k] = scan.hashes[key] /\ scan'.sizes[k] = Size[body]
          /\ source.bodies[k] = body
      BY <2>2, <2>4
    <3>2. \E s \in during' : s.bodies[k] = scan'.hashes[k]
      BY <1>3, <2>5, <3>1 DEF Seen
    <3> QED
      BY <1>3, <1>6, <2>3, <2>4, <2>5, <3>1 DEF DocumentRead, Seen, Local
  <2> QED
    BY <1>1, <1>3, <2>1, <2>4, <2>6, ReadingKeeps
<1> QED
  BY <1>5, <1>6

-----------------------------------------------------------------------------
(* The scan returns what it has read. *)
LEMMA ReturnKeeps ==
  ASSUME SnapshotInv, ReturnScan
  PROVE  SnapshotInv'
<1>1. /\ stage = "reading" /\ scan.left = {} /\ stage' = "done"
      /\ objects' = IF Local THEN objects ELSE scan.discovered
      /\ result' = [hashes |-> scan.hashes, sizes |-> scan.sizes,
                    metadata |-> scan.metadata]
      /\ UNCHANGED <<setup, source, edits, scans, scan, during, reason>>
  BY DEF ReturnScan
<1>2. TypeOK /\ scan \in Scan
  BY ScanTypes DEF SnapshotInv
<1>3. TypeOK'
  BY <1>1, <1>2 DEF TypeOK, Scan
<1>4. DocumentsRead /\ MomentFixed /\ PagesListed
  BY DEF SnapshotInv, ProgressInv
<1>5. ProgressInv'
  BY <1>1 DEF ProgressInv, CurrentIsSeen, Scanning, NothingRead, PagesListed,
              DocumentsRead, MomentFixed
<1>6. /\ Local' = Local /\ ETags' = ETags /\ Pages' = Pages
      /\ result'.hashes = scan.hashes /\ result'.sizes = scan.sizes
      /\ result'.metadata = scan.metadata
  BY <1>1 DEF Local, ETags, Pages, PageOf
<1>7. EachItemWasSo'
  <2> SUFFICES ASSUME NEW key \in Documents
               PROVE  LET hash == scan.hashes[key]
                          size == scan.sizes[key]
                      IN  /\ \E s \in during :
                               /\ hash = s.bodies[key]
                               /\ hash # Absent /\ ~Local => size = Size[hash]
                          /\ hash # Absent => \E s \in during :
                               s.bodies[key] # Absent /\ size = Size[s.bodies[key]]
                          /\ \E s \in during : scan.metadata[key] = MetaIn(s, key)
    BY <1>1, <1>6 DEF EachItemWasSo
  <2>1. \E s \in during : scan.metadata[key] = MetaIn(s, key)
    BY <1>1, <1>4 DEF DocumentsRead
  <2>2. CASE key \in Discovered
    BY <1>1, <1>4, <2>1, <2>2 DEF DocumentsRead, DocumentRead, Seen
  <2>3. CASE key \notin Discovered
    <3>1. scan.hashes[key] = Absent /\ scan.discovered[key] = Absent
      BY <1>1, <1>4, <2>3 DEF DocumentsRead, Discovered
    <3>2. Seen(key, scan.discovered[key])
      BY <1>1, <1>4 DEF PagesListed
    <3> QED
      BY <2>1, <3>1, <3>2 DEF Seen
  <2> QED
    BY <2>2, <2>3
<1>8. ScanIsOneMoment'
  <2> SUFFICES ASSUME OnePage
               PROVE  \E s \in during : \A key \in Documents :
                        /\ scan.hashes[key] = s.bodies[key]
                        /\ scan.metadata[key] = MetaIn(s, key)
    BY <1>1, <1>6 DEF ScanIsOneMoment, OnePage
  <2>1. PICK s \in during : \A key \in Documents :
          /\ scan.discovered[key] = s.bodies[key]
          /\ scan.metadata[key] = MetaIn(s, key)
    BY <1>1, <1>4 DEF MomentFixed
  <2>2. ASSUME NEW key \in Documents
        PROVE  scan.hashes[key] = scan.discovered[key]
    BY <1>1, <1>4 DEF OnePage, DocumentsRead, DocumentRead, Discovered
  <2> QED
    BY <2>1, <2>2
<1>9. LatestKept'
  <2>1. CASE Local
    BY <1>6, <2>1 DEF LatestKept
  <2>2. CASE ~Local
    <3> SUFFICES ASSUME NEW key \in Documents
                 PROVE  /\ scan.discovered[key] # Absent <=> scan.hashes[key] # Absent
                        /\ ETags => scan.discovered[key] = scan.hashes[key]
      BY <1>1, <1>6, <2>2 DEF LatestKept
    <3>1. CASE key \in Discovered
      BY <1>1, <1>4, <2>2, <3>1 DEF DocumentsRead, DocumentRead, Discovered
    <3>2. CASE key \notin Discovered
      BY <1>1, <1>4, <3>2 DEF DocumentsRead, Discovered
    <3> QED
      BY <3>1, <3>2
  <2> QED
    BY <2>1, <2>2
<1> QED
  BY <1>3, <1>5, <1>7, <1>8, <1>9 DEF SnapshotInv

LEMMA NextSnapshotInv == SnapshotInv /\ [Next]_vars => SnapshotInv'
<1> SUFFICES ASSUME SnapshotInv, [Next]_vars PROVE SnapshotInv'
  OBVIOUS
<1>1. CASE UNCHANGED vars
  BY <1>1 DEF vars, SnapshotInv, TypeOK, ProgressInv, CurrentIsSeen, Scanning,
       NothingRead, PagesListed, DocumentsRead, DocumentRead, MomentFixed,
       OnePage, EachItemWasSo, ScanIsOneMoment, LatestKept, Seen, Discovered,
       Local, ETags, Pages, PagesOf, PageOf
<1>2. CASE ReadFails
  BY <1>2, RaiseKeeps DEF ReadFails, ScanFrame
<1>3. CASE Step
  BY <1>3, ListKeeps, ManifestKeeps, ObjectKeeps, HashKeeps, StatKeeps, ReturnKeeps
     DEF Step
<1> QED
  BY <1>1, <1>2, <1>3, EditKeeps, StartKeeps DEF Next, Rest

(* The inductive invariant holds of every behaviour. *)
THEOREM SnapshotInvariant == Spec => []SnapshotInv
BY InitSnapshotInv, NextSnapshotInv, PTL DEF Spec

(* Whatever changes while a source is scanned, each thing the scan says of *)
(* a document was so at some moment of the scan; no document that was      *)
(* there all the time is missing (s3_source.py, source_scanner.py).        *)
THEOREM EachItemWasThere == Spec => []SourcesInv
<1>1. SnapshotInv => SourcesInv
  BY DEF SnapshotInv, SourcesInv
<1> QED
  BY <1>1, SnapshotInvariant, PTL

(* A scan over one listing page with ETags shows the bucket as it was at   *)
(* one moment, because of IfMatch (s3_source.py).                          *)
THEOREM OnePageIsOneMoment == Spec => []ScanIsOneMoment
<1>1. SnapshotInv => ScanIsOneMoment
  BY DEF SnapshotInv
<1> QED
  BY <1>1, SnapshotInvariant, PTL

(* Whatever scans failed or are under way since, load() of the S3 source   *)
(* serves the documents of the last scan that succeeded, no others, and    *)
(* with ETags no other version of them (s3_source.py).                     *)
THEOREM LatestScanLoads == Spec => []LoadServesLatestScan
<1>1. SnapshotInv => LoadServesLatestScan
  <2> SUFFICES ASSUME SnapshotInv, ~Local, NEW key \in Documents,
                      NEW hash \in Contents
               PROVE  /\ Loads(key, hash) =>
                           /\ result.hashes[key] # Absent
                           /\ ETags => hash = result.hashes[key]
                      /\ hash = result.hashes[key] /\ hash = source.bodies[key] =>
                           Loads(key, hash)
    BY DEF LoadServesLatestScan
  <2>1. /\ objects[key] # Absent <=> result.hashes[key] # Absent
        /\ ETags => objects[key] = result.hashes[key]
    BY DEF SnapshotInv, LatestKept
  <2>2. hash # Absent
    BY AbsentIsNoBody
  <2> QED
    BY <2>1, <2>2 DEF Loads, Matches
<1> QED
  BY <1>1, SnapshotInvariant, PTL
=============================================================================
