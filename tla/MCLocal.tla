------------------------------- MODULE MCLocal -------------------------------
(***************************************************************************)
(* LocalReview on small results.                                           *)
(***************************************************************************)
EXTENDS LocalReview

Finding(file, line, severity, title, sources) ==
    [file |-> file, line |-> line, severity |-> severity, title |-> title,
     body |-> "why " \o title, sources |-> sources]

\* One of each severity, and one whose place could not be found.
Found == {Finding("x", 3, 3, "u", <<"security", "style">>), Finding("x", 5, 1, "v", <<"style">>),
          Finding("y", 1, 2, "w", <<"security">>), Finding("x", NoLine, 2, "z", <<"style">>)}

Call(agent, model, input, output, cache_read, error) ==
    [agent |-> agent, model |-> model, input |-> input, output |-> output,
     cache_read |-> cache_read, error |-> error]

\* A call that was answered, one of a model without a price, one that failed.
Made == {<<Call("style", "claude-haiku-4-5", 3, 2, 1, FALSE)>>,
         <<Call("style", "claude-opus-5", 2, 1, 0, FALSE),
           Call("security", "claude-next", 2, 1, 0, FALSE),
           Call("critic", "claude-sonnet-5", 0, 0, 0, TRUE)>>}

ManyResults ==
    [findings : BoundedSeq(Found, 3), calls : Made, suppressed_count : {0, 2},
     retracted_count : {0, 1}, skipped_files : {{}, {"z"}}, truncated_files : {{"x"}},
     returned : {TRUE}]

AllFaults == {"store", "graph", "close", "interrupt", "crash"}
=============================================================================
