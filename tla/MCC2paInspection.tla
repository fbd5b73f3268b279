--------------------------- MODULE MCC2paInspection ---------------------------
(***************************************************************************)
(* Two inspections with an engine of either generation and one stop of the *)
(* process.                                                                *)
(***************************************************************************)
EXTENDS C2paInspection
CONSTANTS i1, i2

Flags == {"--settings", "--info", "--tree", "--certs", "--external-manifest"}
Old == [flags |-> Flags \ {"--settings", "--external-manifest"}, trust |-> TRUE,
        structured |-> FALSE]
New == [flags |-> Flags, trust |-> TRUE, structured |-> TRUE]
BothEngines == {Old, New}

Plain == [kind |-> "signed", quotes |-> FALSE, intact |-> TRUE, listed |-> TRUE,
          sidecar |-> FALSE, signedAt |-> 5, leaf |-> [from |-> 1, until |-> 9]]
AllFiles == {Plain,
             [Plain EXCEPT !.listed = FALSE, !.sidecar = TRUE],
             [Plain EXCEPT !.intact = FALSE, !.signedAt = 10],
             [Plain EXCEPT !.quotes = TRUE],
             [Plain EXCEPT !.kind = "none"], [Plain EXCEPT !.kind = "remote"],
             [Plain EXCEPT !.kind = "unreadable", !.sidecar = TRUE]}
\* One inspection sees every kind of file, the other may be in its way.
FilesOf == [i \in {i1, i2} |-> IF i = i1 THEN AllFiles ELSE {Plain}]
=============================================================================
