------------------------ MODULE MCSharedMailJournal ------------------------
(* Small instances of SharedMailJournal: three records, three contents.     *)
EXTENDS SharedMailJournal
=============================================================================
