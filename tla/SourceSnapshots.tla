-------------------------- MODULE SourceSnapshots --------------------------
(***************************************************************************)
(* A scan of a source that changes meanwhile, request by request           *)
(* (ragpipe/ingest/s3_source.py, source_scanner.py, metadata.py): the      *)
(* pages of the listing (S3) or the directories of the tree (a local       *)
(* folder), the metadata manifest, then the documents one by one in path   *)
(* order; and what load() of a scanned document finds later.               *)
(*                                                                         *)
(* A body is identified with its digest, and the ETag of an object with    *)
(* its body.  A local file is hashed in one step: a file longer than one   *)
(* block of 1 MiB that is overwritten while it is read has a digest that   *)
(* no version of it had, which is left out.                                *)
(***************************************************************************)
EXTENDS Integers, FiniteSets

CONSTANTS Keys,      \* object keys or files, numbered in path order
          Kind,      \* what each key is
          Contents,  \* bodies
          Size,      \* body -> number of bytes
          Metas,     \* metadata objects
          NoMeta,    \* the empty metadata object
          Manifests, \* path -> metadata, for some documents each
          Invalid,   \* a manifest that is not one
          Absent,    \* no object, no file
          Initial,   \* the source before the first change
          Setups,    \* the sources that are scanned
          MaxEdits,  \* bound: changes of the source
          MaxScans   \* bound: scans

Kinds == {"document", "unsupported", "folder", "unsafe_document",
          "unsafe_unsupported"}

Documents == {key \in Keys : Kind[key] = "document"}
Bodies == Contents \cup {Absent}
Sources == [bodies : [Keys -> Bodies], manifest : Manifests \cup {Invalid, Absent}]
Metadata == [Documents -> Metas \cup {NoMeta}]

(* local  a folder, not an S3 prefix                                       *)
(* etags  the listing has ETags                                            *)
(* page   the page (or the directory) that lists a key                     *)
(* manifest  the page of an S3 listing that has the manifest               *)
Setup == [local : BOOLEAN, etags : BOOLEAN, page : [Keys -> Nat \ {0}],
          manifest : Nat \ {0}]

(* The pages of a listing. *)
PagesOf(s) == {s.page[key] : key \in Keys} \cup {s.manifest}

ASSUME KeysAreOrdered == Keys \subseteq Nat \ {0} /\ IsFiniteSet(Keys)
ASSUME KindsOK == Kind \in [Keys -> Kinds]
ASSUME SizesAreNat == Size \in [Contents -> Nat]
ASSUME InitialIsSource == Initial \in Sources
ASSUME SetupsAreSetups ==
  /\ Setups \subseteq Setup
  /\ \A s \in Setups : \A page \in PagesOf(s) : 1 .. page \subseteq PagesOf(s)
ASSUME ManifestsDescribe ==
  \A manifest \in Manifests : \A key \in DOMAIN manifest :
    manifest[key] \in Metas \cup {NoMeta}
ASSUME BoundsAreNat == MaxEdits \in Nat /\ MaxScans \in Nat
ASSUME AbsentIsNoBody == Absent \notin Contents \cup Manifests

VARIABLES
  setup,    \* the source that is scanned; it never changes
  source,   \* the bucket or folder as it is now
  edits,    \* changes so far
  scans,    \* scans so far
  stage,    \* where the scan is
  scan,     \* its local variables
  during,   \* states of the source since it began
  objects,  \* self._objects of the S3 source
  result,   \* what the last scan that succeeded returned
  reason    \* why the last scan raised

vars == <<setup, source, edits, scans, stage, scan, during, objects, result,
          reason>>

Local == setup.local
ETags == setup.etags
PageOf == setup.page
Pages == PagesOf(setup)

Nothing == [key \in Documents |-> Absent]

(* page        pages listed                                                *)
(* discovered  key -> the body it had when listed                          *)
(* manifest    the manifest that was listed, by its ETag                   *)
(* left        documents still to read                                     *)
(* hashed      a local file whose size is still to be read                 *)
NoScan == [page |-> 0, discovered |-> Nothing, manifest |-> Absent,
           metadata |-> [key \in Documents |-> NoMeta], left |-> {},
           hashed |-> 0, hashes |-> Nothing, sizes |-> [key \in Documents |-> 0]]

Empty == [hashes |-> Nothing, sizes |-> NoScan.sizes, metadata |-> NoScan.metadata]

Init ==
  /\ setup \in Setups
  /\ source = Initial
  /\ edits = 0 /\ scans = 0
  /\ stage = "idle"
  /\ scan = NoScan
  /\ during = {}
  /\ objects = Nothing
  /\ result = Empty
  /\ reason = "none"

Scanning == stage \in {"listing", "manifest", "reading"}

(* Somebody writes, replaces or removes one object, or the manifest.       *)
Edit ==
  /\ edits < MaxEdits
  /\ edits' = edits + 1
  /\ \/ \E key \in Keys, body \in Bodies :
          source' = [source EXCEPT !.bodies[key] = body]
     \/ \E manifest \in Manifests \cup {Invalid, Absent} :
          source' = [source EXCEPT !.manifest = manifest]
  /\ source' # source
  /\ during' = IF Scanning THEN during \cup {source'} ELSE during
  /\ UNCHANGED <<setup, scans, stage, scan, objects, result, reason>>

StartScan ==
  /\ ~Scanning /\ scans < MaxScans
  /\ scans' = scans + 1
  /\ stage' = "listing"
  /\ scan' = NoScan
  /\ during' = {source}
  /\ reason' = "none"
  /\ UNCHANGED <<setup, source, edits, objects, result>>

(* The scan raises; the source object and its caller keep what they had.   *)
Raise(why) ==
  /\ stage' = "failed"
  /\ reason' = why
  /\ UNCHANGED scan

(* Keys of a page that the code looks at: "folder" keys end with a slash.  *)
Listed(page) == {key \in Keys : /\ PageOf[key] = page
                                /\ source.bodies[key] # Absent
                                /\ Kind[key] # "folder"}

(* S3: _relative_path is called for every key but the manifest's, before   *)
(* the file extension is looked at.  A folder has no such paths.           *)
Unsafe(page) ==
  {key \in Listed(page) : ~Local /\
     Kind[key] \in {"unsafe_document", "unsafe_unsupported"}}

(* The documents discovered once this page is read.                        *)
DiscoveredOn(page) ==
  [key \in Documents |-> IF key \in Listed(page) THEN source.bodies[key]
                         ELSE scan.discovered[key]]

(* One page; the manifest is on whichever its key sorts to, and a folder's *)
(* is not listed.  After the last page the manifest is read.               *)
ListPage ==
  LET page == scan.page + 1
  IN  /\ stage = "listing"
      /\ IF Unsafe(page) # {}
         THEN Raise("unsafe")
         ELSE /\ scan' = [scan EXCEPT
                   !.page = page,
                   !.manifest = IF page = setup.manifest
                                THEN source.manifest ELSE @,
                   !.discovered = DiscoveredOn(page)]
              /\ stage' = IF \A other \in Pages : other <= page
                          THEN "manifest" ELSE "listing"
              /\ UNCHANGED reason
      /\ UNCHANGED <<setup, source, edits, scans, during, objects, result>>

Discovered == {key \in Documents : scan.discovered[key] # Absent}

(* Mutant of Matches: get_object without IfMatch.                          *)
MatchesAny(body, listed) == body # Absent

(* get_object gives the body: it exists and, when the listing had an ETag, *)
(* it is still the one listed.                                             *)
Matches(body, listed) == body # Absent /\ (ETags => body = listed)

(* The manifest: none listed, or read, parsed and all its paths known.     *)
(* A folder's manifest is looked for only now.                             *)
ReadManifest ==
  LET manifest == IF Local \/ scan.manifest # Absent
                  THEN source.manifest ELSE Absent
      gone == ~Local /\ scan.manifest # Absent
                /\ ~Matches(manifest, scan.manifest)
  IN  /\ stage = "manifest"
      /\ IF gone THEN Raise("unreadable")
         ELSE IF manifest = Invalid THEN Raise("invalid")
         ELSE IF manifest # Absent /\ ~(DOMAIN manifest \subseteq Discovered)
         THEN Raise("unknown")
         ELSE /\ scan' = [scan EXCEPT
                   !.left = Discovered,
                   !.metadata = IF manifest = Absent THEN @
                                ELSE [key \in Documents |->
                                        IF key \in DOMAIN manifest
                                        THEN manifest[key] ELSE NoMeta]]
              /\ stage' = "reading"
              /\ UNCHANGED reason
      /\ UNCHANGED <<setup, source, edits, scans, during, objects, result>>

First(keys) == CHOOSE key \in keys : \A other \in keys : key <= other

(* S3: the next object is read, hashed and measured.                       *)
ReadObject ==
  LET key == First(scan.left)
      body == source.bodies[key]
  IN  /\ stage = "reading" /\ ~Local /\ scan.left # {}
      /\ IF Matches(body, scan.discovered[key])
         THEN /\ scan' = [scan EXCEPT !.left = @ \ {key},
                                      !.hashes[key] = body,
                                      !.sizes[key] = Size[body]]
              /\ UNCHANGED <<stage, reason>>
         ELSE Raise("unreadable")
      /\ UNCHANGED <<setup, source, edits, scans, during, objects, result>>

(* Local: sha256_file, then stat of the same path.                         *)
HashFile ==
  LET key == First(scan.left)
      body == source.bodies[key]
  IN  /\ stage = "reading" /\ Local /\ scan.hashed = 0 /\ scan.left # {}
      /\ IF body = Absent THEN Raise("unreadable")
         ELSE /\ scan' = [scan EXCEPT !.hashed = key, !.hashes[key] = body]
              /\ UNCHANGED <<stage, reason>>
      /\ UNCHANGED <<setup, source, edits, scans, during, objects, result>>

StatFile ==
  LET key == scan.hashed
      body == source.bodies[key]
  IN  /\ stage = "reading" /\ key # 0
      /\ IF body = Absent THEN Raise("unreadable")
         ELSE /\ scan' = [scan EXCEPT !.hashed = 0, !.left = @ \ {key},
                                      !.sizes[key] = Size[body]]
              /\ UNCHANGED <<stage, reason>>
      /\ UNCHANGED <<setup, source, edits, scans, during, objects, result>>

(* Mutant of ReadFails: what has been read so far is returned.             *)
ReadFailsPartly ==
  /\ Scanning
  /\ stage' = "done"
  /\ result' = [hashes |-> scan.hashes, sizes |-> scan.sizes,
                metadata |-> scan.metadata]
  /\ UNCHANGED <<setup, source, edits, scans, scan, during, objects, reason>>

(* Mutant of ReadFails: what was discovered is kept on every way out.      *)
ReadFailsKeeping ==
  /\ Scanning
  /\ Raise("unreadable")
  /\ objects' = IF Local THEN objects ELSE scan.discovered
  /\ UNCHANGED <<setup, source, edits, scans, during, result>>

(* A request fails. *)
ReadFails ==
  /\ Scanning
  /\ Raise("unreadable")
  /\ UNCHANGED <<setup, source, edits, scans, during, objects, result>>

(* The S3 source keeps what it discovered only now.                        *)
ReturnScan ==
  /\ stage = "reading" /\ scan.left = {}
  /\ stage' = "done"
  /\ objects' = IF Local THEN objects ELSE scan.discovered
  /\ result' = [hashes |-> scan.hashes, sizes |-> scan.sizes,
                metadata |-> scan.metadata]
  /\ UNCHANGED <<setup, source, edits, scans, scan, during, reason>>

(* load() of a document that a scan, maybe an earlier one, returned with   *)
(* this hash gives its text, if it is called now and no request fails.  A  *)
(* local file is read whatever it holds; an S3 object if the latest scan   *)
(* kept it, IfMatch agrees and its digest is the document's.               *)
Loads(key, hash) ==
  LET body == source.bodies[key]
  IN  IF Local THEN body # Absent
      ELSE /\ objects[key] # Absent
           /\ Matches(body, objects[key]) /\ body = hash

Step == \/ ListPage \/ ReadManifest \/ ReadObject \/ HashFile \/ StatFile
        \/ ReturnScan

(* Nothing is left to do within the bounds. *)
Rest == ~Scanning /\ scans = MaxScans /\ UNCHANGED vars

Next == Edit \/ StartScan \/ Step \/ ReadFails \/ Rest

Spec == Init /\ [][Next]_vars

-----------------------------------------------------------------------------
(* The variables have their types. *)
TypeOK ==
  /\ setup \in Setups
  /\ source \in Sources
  /\ edits \in 0 .. MaxEdits /\ scans \in 0 .. MaxScans
  /\ stage \in {"idle", "listing", "manifest", "reading", "done", "failed"}
  /\ scan \in [page : Nat, discovered : [Documents -> Bodies],
               manifest : Manifests \cup {Invalid, Absent}, metadata : Metadata,
               left : SUBSET Documents, hashed : Documents \cup {0},
               hashes : [Documents -> Bodies], sizes : [Documents -> Nat]]
  /\ during \subseteq Sources
  /\ objects \in [Documents -> Bodies]
  /\ result \in [hashes : [Documents -> Bodies], sizes : [Documents -> Nat],
                 metadata : Metadata]
  /\ reason \in {"none", "unsafe", "invalid", "unknown", "unreadable"}

(* The metadata a state of the source gives a document.                    *)
MetaIn(s, key) ==
  IF s.manifest \in Manifests /\ key \in DOMAIN s.manifest
  THEN s.manifest[key] ELSE NoMeta

(* Any source, any number of pages: whatever a scan says of a document was *)
(* so at some moment during it, and what S3 says of its body and its size  *)
(* at one and the same.  In particular a document that was there all the   *)
(* time is found, and is never deleted from the corpus.                    *)
EachItemWasSo ==
  stage = "done" => \A key \in Documents :
    LET hash == result.hashes[key]
        size == result.sizes[key]
    IN  /\ \E s \in during :
             /\ hash = s.bodies[key]
             /\ hash # Absent /\ ~Local => size = Size[hash]
        /\ hash # Absent => \E s \in during :
             s.bodies[key] # Absent /\ size = Size[s.bodies[key]]
        /\ \E s \in during : result.metadata[key] = MetaIn(s, key)

(* The state invariant: types, and what a finished scan says.              *)
SourcesInv == TypeOK /\ EachItemWasSo

(* With ETags and a listing of one page, an S3 scan that returns shows the *)
(* bucket as it was at one moment, manifest included: the listing fixes    *)
(* the bodies, and IfMatch refuses every later one.                        *)
ScanIsOneMoment ==
  stage = "done" /\ ~Local /\ ETags /\ Cardinality(Pages) = 1 =>
    \E s \in during : \A key \in Documents :
      /\ result.hashes[key] = s.bodies[key]
      /\ result.metadata[key] = MetaIn(s, key)

(* load() of the S3 source serves the latest scan that succeeded, however  *)
(* many have failed or are under way since ("Load text from a document     *)
(* returned by the most recent scan", s3_source.py:239): a document that   *)
(* scan did not return is refused, and with ETags so is every version but  *)
(* the one it returned; that one loads as long as the object still has it. *)
LoadServesLatestScan ==
  ~Local => \A key \in Documents, hash \in Contents :
    LET latest == result.hashes[key]
    IN  /\ Loads(key, hash) => latest # Absent /\ (ETags => hash = latest)
        /\ hash = latest /\ hash = source.bodies[key] => Loads(key, hash)
=============================================================================
