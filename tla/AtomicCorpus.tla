---------------------------- MODULE AtomicCorpus ----------------------------
(***************************************************************************)
(* What synchronization promises, without locks, transactions or plans:    *)
(* the corpus jumps from one complete scan of the source to another, never *)
(* to an older one, in the same instant as the ledger gains a "succeeded"  *)
(* entry; a "failed" entry comes without any change of the corpus; and the *)
(* ledger never changes an entry.  (README.md: "One atomic database        *)
(* transaction per synchronization with rollback on failure".)             *)
(***************************************************************************)
EXTENDS CorpusDiff, Integers, Sequences

CONSTANTS Runs  \* run ids

VARIABLES history,    \* every state the source has been in
          corpus,     \* path -> hashes, or Absent
          ledger,     \* run -> "none", "succeeded" or "failed"
          published   \* version of the source the corpus shows; 0: nothing

abstractVars == <<history, corpus, ledger, published>>

AtomicInit ==
  /\ history \in {<<scan>> : scan \in Scans}
  /\ corpus = NoScan
  /\ ledger = [r \in Runs |-> "none"]
  /\ published = 0

Edit ==
  /\ \E scan \in Scans : history' = Append(history, scan)
  /\ UNCHANGED <<corpus, ledger, published>>

PublishScan(r) ==
  /\ ledger[r] = "none"
  /\ \E version \in 1 .. Len(history) :
       /\ version >= published
       /\ corpus' = history[version]
       /\ published' = version
  /\ ledger' = [ledger EXCEPT ![r] = "succeeded"]
  /\ UNCHANGED history

LogFailure(r) ==
  /\ ledger[r] = "none"
  /\ ledger' = [ledger EXCEPT ![r] = "failed"]
  /\ UNCHANGED <<history, corpus, published>>

AtomicNext == Edit \/ \E r \in Runs : PublishScan(r) \/ LogFailure(r)

AtomicSpec == AtomicInit /\ [][AtomicNext]_abstractVars
=============================================================================
