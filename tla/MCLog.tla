------------------------------- MODULE MCLog --------------------------------
\* The log with two backends, messages of three sizes, one of which cannot be
\* converted, and four configurations.
EXTENDS Log

MCMessages ==
    {[level |-> 1, tag |-> "menu", size |-> 2, chunks |-> 2, good |-> 2],
     [level |-> 0, tag |-> "dtb", size |-> 1, chunks |-> 1, good |-> 1],
     [level |-> 2, tag |-> "menu", size |-> 2, chunks |-> 2, good |-> 1],
     [level |-> 3, tag |-> "menu", size |-> 4, chunks |-> 1, good |-> 1]}

MCLevelWords == [w \in {"info", "1", "error", "3"} |-> IF w \in {"info", "1"} THEN 1 ELSE 3]

Sink(type) == [type |-> type, min |-> "", max |-> "", excludes |-> {},
               path |-> TRUE, encode |-> "utf8", output |-> ""]

MCSituations ==
    <<[defaults |-> TRUE, dir |-> TRUE, limit |-> [ok |-> TRUE, value |-> 4],
       backends |-> <<[Sink("file") EXCEPT !.encode = "utf16"]>>],
      [defaults |-> FALSE, dir |-> TRUE, limit |-> [ok |-> TRUE, value |-> -1],
       backends |-> <<[Sink("stdio") EXCEPT !.output = "serial"],
                      [Sink("file") EXCEPT !.min = "info", !.max = "loud"],
                      Sink("syslog")>>],
      [defaults |-> TRUE, dir |-> TRUE, limit |-> [ok |-> FALSE, value |-> 0],
       backends |-> <<[Sink("stdio") EXCEPT !.excludes = {"dtb"}],
                      [Sink("file") EXCEPT !.path = FALSE]>>],
      [defaults |-> TRUE, dir |-> FALSE, limit |-> [ok |-> TRUE, value |-> 0],
       backends |-> <<Sink("file")>>]>>
=============================================================================
