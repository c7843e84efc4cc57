---------------------------- MODULE SessionCache ----------------------------
(***************************************************************************)
(* Analyses reused within one command (session.py, cached_analysis, and    *)
(* storage.py, read_text), while others edit the files.  An analysis reads *)
(* files and calls another one; it is kept with the signature each file    *)
(* had when it was first looked at, and used again only if all the files   *)
(* have these signatures still.                                            *)
(*                                                                         *)
(* A revision stands for the content of a file and for its signature.      *)
(***************************************************************************)
EXTENDS Naturals, Sequences

CONSTANTS Analyses,
          Steps,         \* Steps[a]: files to read and analyses to call, in order
          Inputs,        \* all the files
          MaxEdited,     \* bound: edits
          MaxCalls       \* bound: calls that do not come from an analysis

VARIABLES files,     \* the revision of each file
          texts,     \* file -> the text read and the signature before, or NoText
          cache,     \* analysis -> what is kept of it, or Unkept
          stack,     \* the analyses that are running, the innermost last
          answer,    \* the answer to the last call, and whether it was reused
          past,      \* history: all the files as they were since that call
          calls      \* calls so far
cacheVars == <<files, texts, cache, stack, answer, past, calls>>

NoText  == [sig |-> 0, text |-> 0]
Nothing == <<>>     \* no file observed
Unanswered == [of |-> "none", value |-> Nothing, reused |-> FALSE]
Unkept  == [kept |-> FALSE, seen |-> Nothing, value |-> Nothing]

SessionInit == /\ files = [f \in Inputs |-> 1] /\ texts = [f \in Inputs |-> NoText]
               /\ cache = [a \in Analyses |-> Unkept] /\ stack = <<>>
               /\ answer = Unanswered
               /\ past = {files} /\ calls = 0

Top        == stack[Len(stack)]
Below      == SubSeq(stack, 1, Len(stack) - 1)
Todo       == Steps[Top.of][Top.next]
\* What two mappings say together: where both do, the first one counts.
Joined(s, t) == [f \in DOMAIN s \cup DOMAIN t |-> IF f \in DOMAIN s THEN s[f] ELSE t[f]]
\* setdefault: the first observation of a file is the one that counts.
Observed(seen, f, sig) == Joined(seen, [g \in {f} |-> sig])
Frame(a)   == [of |-> a, at |-> IF cache[a].kept THEN "compare" ELSE "run", next |-> 1,
               left |-> DOMAIN cache[a].seen, seen |-> Nothing, value |-> Nothing]
Puts(new)  == stack' = Append(Below, new)

Call(a) ==
    /\ stack = <<>> /\ calls < MaxCalls
    /\ calls' = calls + 1 /\ stack' = <<Frame(a)>> /\ past' = {files} /\ answer' = Unanswered
    /\ UNCHANGED <<files, texts, cache>>

\* Slip: the caller is not told which files a reused analysis stands on.
TellsSlip(seen, more) == seen
Tells(seen, more)     == Joined(seen, more)

\* The caller continues with what the innermost analysis found.
Return(value, seen, reused) ==
    IF Below = <<>>
      THEN /\ stack' = <<>>
           /\ answer' = [of |-> Top.of, value |-> value, reused |-> reused]
      ELSE /\ LET n == Len(Below)
              IN stack' = [Below EXCEPT ![n].next = @ + 1, ![n].value = Joined(value, @),
                    ![n].seen = IF reused THEN Tells(@, seen) ELSE Joined(@, seen)]
           /\ UNCHANGED answer

\* Is what is kept still good?  One file after the other.
Compare(f) ==
    /\ stack # <<>> /\ Top.at = "compare" /\ f \in Top.left
    /\ Puts(IF files[f] = cache[Top.of].seen[f]
              THEN [Top EXCEPT !.left = @ \ {f}]
              ELSE [Top EXCEPT !.at = "run", !.left = {}])
    /\ UNCHANGED <<files, texts, cache, answer, past, calls>>

Reuse ==
    /\ stack # <<>> /\ Top.at = "compare" /\ Top.left = {}
    /\ Return(cache[Top.of].value, cache[Top.of].seen, TRUE)
    /\ UNCHANGED <<files, texts, cache, past, calls>>

Runs    == stack # <<>> /\ Top.at = "run" /\ Top.next <= Len(Steps[Top.of])

Nested == /\ Runs /\ Todo \in Analyses
          /\ stack' = Append(stack, Frame(Todo))
          /\ UNCHANGED <<files, texts, cache, answer, past, calls>>

\* read_text: observe the file, look at its signature, and read it if need be.
ObservePath == /\ Runs /\ Todo \in Inputs
               /\ Puts([Top EXCEPT !.seen = Observed(@, Todo, files[Todo]), !.at = "stat"])
               /\ UNCHANGED <<files, texts, cache, answer, past, calls>>

GotText(text) == Puts([Top EXCEPT !.value = Joined([g \in {Todo} |-> text], @),
                                  !.at = "run", !.next = @ + 1])

Stat == /\ stack # <<>> /\ Top.at = "stat"
        /\ IF texts[Todo].sig = files[Todo]
             THEN GotText(texts[Todo].text) /\ UNCHANGED texts
             ELSE /\ texts' = [texts EXCEPT ![Todo] = [sig |-> files[Todo], text |-> 0]]
                  /\ Puts([Top EXCEPT !.at = "read"])
        /\ UNCHANGED <<files, cache, answer, past, calls>>

ReadText == /\ stack # <<>> /\ Top.at = "read"
            /\ texts' = [texts EXCEPT ![Todo].text = files[Todo]]
            /\ GotText(files[Todo])
            /\ UNCHANGED <<files, cache, answer, past, calls>>

\* Done: kept if no file changed since it was first looked at.
Verify == /\ stack # <<>> /\ Top.at = "run" /\ Top.next > Len(Steps[Top.of])
          /\ Puts([Top EXCEPT !.at = "verify", !.left = DOMAIN Top.seen])
          /\ UNCHANGED <<files, texts, cache, answer, past, calls>>

Confirm(f) == /\ stack # <<>> /\ Top.at = "verify" /\ f \in Top.left
              /\ IF files[f] = Top.seen[f] THEN Puts([Top EXCEPT !.left = @ \ {f}]) /\ UNCHANGED answer
                                           ELSE Return(Top.value, Top.seen, FALSE)
              /\ UNCHANGED <<files, texts, cache, past, calls>>

Store == /\ stack # <<>> /\ Top.at = "verify" /\ Top.left = {}
         /\ cache' = [cache EXCEPT ![Top.of] = [kept |-> TRUE, seen |-> Top.seen, value |-> Top.value]]
         /\ Return(Top.value, Top.seen, FALSE)
         /\ UNCHANGED <<files, texts, past, calls>>

\* read_phase: what was kept so far is not used in a new phase.
Phase == /\ stack = <<>> /\ cache # [a \in Analyses |-> Unkept]
         /\ cache' = [a \in Analyses |-> Unkept] /\ texts' = [f \in Inputs |-> NoText]
         /\ UNCHANGED <<files, stack, answer, past, calls>>


EditFile(f) == /\ files[f] <= MaxEdited
               /\ files' = [files EXCEPT ![f] = @ + 1] /\ past' = past \cup {files'}
               /\ UNCHANGED <<texts, cache, stack, answer, calls>>

SessionNext == \/ \E a \in Analyses : Call(a)
               \/ \E f \in Inputs : Compare(f) \/ Confirm(f) \/ EditFile(f)
               \/ Reuse \/ Nested \/ ObservePath \/ Stat \/ ReadText \/ Verify \/ Store \/ Phase

-----------------------------------------------------------------------------
(* session.py:46, cached_analysis.  However the files are edited while     *)
(* analyses run, and nest, an answer that is reused is what the files said *)
(* all together at one moment since it was asked for.                      *)
ReuseIsFresh ==
    answer.reused =>
       \E p \in past : \A f \in DOMAIN answer.value : answer.value[f] = p[f]
=============================================================================
