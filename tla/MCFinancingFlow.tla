-------------------------- MODULE MCFinancingFlow --------------------------
(***************************************************************************)
(* The case's transfer and journal beside a row of another client.  Two    *)
(* requests overlap in the bank or in the ledger.  The two services share  *)
(* no row, so a request of one commutes with those of the other and need   *)
(* not overlap with them.                                                  *)
(***************************************************************************)
EXTENDS FinancingFlow, TLC

\* Execution ids are interchangeable, and so are the requests of a service.
Symmetry == Permutations(Executions) \cup Permutations(BankSessions)
              \cup Permutations(LedgerSessions)

MaxOthers == 1      \* rows of other clients, of whatever kind, and preparations that expire

BankBusy == {s \in BankSessions : bankSession[s] # B!Idle}
LedgerBusy == {s \in LedgerSessions : ledgerSession[s] # L!Idle}
Others == {t \in Transfers \ {CaseTransfer} : transfer[t].status # "NONE"}
            \cup {h \in Holds : hold[h].status # "NONE"}
            \cup {r \in Reversals : reversal[r].status # "NONE"}
            \cup {j \in Journals \ {CaseJournal} : journal[j].status # "NONE"}

\* The bank is followed to the first update it loses.
Bounds ==
    /\ Cardinality(Others \cup lapsed) <= MaxOthers
    /\ BankBusy = {} \/ LedgerBusy = {}
    /\ ~bankLost
=============================================================================
