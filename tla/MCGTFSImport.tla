---------------------------- MODULE MCGTFSImport ----------------------------
EXTENDS GTFSImport

CONSTANTS a, b, bad, odd

D(body, requested, modified) ==
  [body |-> body, requested_at |-> requested, retrieved_at |-> requested,
   modified_at |-> modified]

\* Two good contents; request orders and modification orders that agree,
\* disagree and tie; a server that leaves Last-Modified out; an archive the
\* parser refuses and one the tables refuse.
MCBody == {a, b, bad, odd}

MCDownload ==
  {D(a, 0, 1), D(a, 1, 0), D(b, 0, 1), D(b, 1, 1), D(a, 1, NoTime), D(b, 0, NoTime),
   D(bad, 1, 1), D(odd, 1, NoTime)}

MCArchive == [c \in MCBody |-> [parses |-> c # bad, installable |-> c # odd]]

=============================================================================
