----------------------------- MODULE MCBootMenu -----------------------------
(***************************************************************************)
(* Small machines for BootMenu.                                             *)
(***************************************************************************)
EXTENDS BootMenu

MCConfId(n) == n \o ".conf"
MCRescueName(n) == n \o "-rescue"
MCEndsWithRescue(n) == n \in {"a-rescue", "b-rescue"}
MCfnmatch(p, t) == p = "*" \/ p = t

Entry(n, t, k) == [name |-> n, type |-> t, complete |-> TRUE, ktype |-> k]

A == Entry("a", "sdboot", "v1")
B == Entry("b", "linux-efi", None)
ARescue == Entry("a-rescue", "efi", None)
Setup == [Entry("sdboot-auto-firmware", "efisetup", None) EXCEPT !.complete = FALSE]
Incomplete == [B EXCEPT !.complete = FALSE]

Config(ls, t, dis, def, next) ==
    [loaders |-> ls, timeout |-> t, disabled |-> dis, default |-> def,
     ktype |-> "v0", tryNext |-> next]

Digits(n) == [word |-> "digits", n |-> n]
Word(w) == [word |-> w, n |-> 0]

-----------------------------------------------------------------------------
\* The variables and the saved entry, with a firmware that may fail.
SavedConfigs == {Config(<<A, B>>, 0, FALSE, d, FALSE) : d \in {"@saved", "b"}}
SavedPatterns == {"@saved", "a.conf", "b"}
SavedWrites ==
    ({"EntryOneShot", "EntryDefault"} \X {"@saved", "a.conf", "b", None})
      \cup {<<"EntryLastBooted", "b">>}

-----------------------------------------------------------------------------
\* Unattended boots: timeouts from the menu and from both variables, in all
\* front ends, and chains of fallback entries, with a rescue entry after its
\* entry, before it (where the chain ends, and where it goes round for ever), and
\* without one.
TimeoutTexts == {Digits(0), Digits(2), Digits(5), Digits(7), Word("menu-force"),
                 Word("menu-disabled"), Word("other")}
RescueAfter == Config(<<A, B, ARescue, Setup>>, 1, FALSE, "a", TRUE)
RescueBefore(next) == Config(<<ARescue, A, B>>, 1, FALSE, "a", next)
NoRescue == Config(<<A, Incomplete, [B EXCEPT !.name = "c"]>>, 1, FALSE, "a", TRUE)
UnattendedConfigs ==
    {Config(<<A, B>>, 0, FALSE, "b", FALSE), Config(<<A, B>>, 0, TRUE, None, FALSE),
     Config(<<Incomplete>>, 1, FALSE, "@saved", FALSE),
     RescueAfter, RescueBefore(FALSE), RescueBefore(TRUE), NoRescue}
UnattendedWrites ==
    ({"ConfigTimeout"} \X {Digits(0), Digits(5), Digits(7), Word("menu-disabled"), None})
      \cup ({"ConfigTimeoutOneShot"}
              \X {Digits(0), Digits(2), Word("menu-force"), Word("menu-disabled"),
                  Word("other"), None})
      \cup {<<"EntryDefault", "*">>}
=============================================================================
