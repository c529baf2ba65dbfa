------------------------------- MODULE MCCli -------------------------------
(* Command lines for TLC. *)
EXTENDS Cli

CONSTANTS fromCli, fromProfile

NoLists == [k \in ToSet(Lists) |-> << >>]
NoThreads == [text |-> "absent", value |-> 0]

\* A link command with one input; the variations below change it.
Plain == [command |-> "link", dry_run |-> FALSE, profile |-> "none",
          entries |-> {}, opts |-> [k \in {"output"} |-> fromCli],
          kind |-> "absent", threads |-> NoThreads, flags |-> {},
          lists |-> [NoLists EXCEPT !["input"] = <<fromCli>>]]

\* A profile with every sort of entry.
ProfileEntries == {<<"output", fromProfile>>, <<"machine", fromProfile>>,
                   <<"define", fromProfile>>, <<"other", fromProfile>>}

CommandRequests == {[Plain EXCEPT !.command = c] :
               c \in {"quick_help", "bad_arguments", "help"} \cup SubcommandWords}

ProfileRequests == {[Plain EXCEPT !.profile = p, !.entries = ProfileEntries,
                           !.dry_run = d, !.opts = o] :
               p \in ProfileOutcomes, d \in BOOLEAN,
               o \in [{"output"} -> {fromCli}] \cup [{"map", "script"} -> {fromCli}]}

OptionRequests == {[Plain EXCEPT !.kind = k, !.threads = [text |-> t, value |-> n],
                          !.flags = f] :
              k \in {"absent", "invalid", "executable", "shared", "binary"},
              t \in {"number", "other"}, n \in {-1, 0, 3, 5, 40},
              f \in {{}, {"incremental"}}}

ListRequests == {[Plain EXCEPT !.lists = [k \in ToSet(Lists) |->
                                       IF k = "define" THEN d ELSE l]] :
               d \in {<<fromCli>>, <<fromProfile, Malformed>>},
               l \in {<<fromCli, fromProfile>>, <<fromProfile>>}}

MCRequests == CommandRequests \cup ProfileRequests \cup OptionRequests \cup ListRequests

MalformedProfile == {[Plain EXCEPT !.profile = "throws"]}
=============================================================================
