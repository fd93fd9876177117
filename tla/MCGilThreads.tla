---------------------------- MODULE MCGilThreads ----------------------------
(* Programs: every method alone, in transactions that end in each of the   *)
(* three ways or not at all, and after a COPY that ended or did not.       *)
EXTENDS GilThreads

AllPrograms == {<<"execute">>, <<"script">>, <<"copy", "copy end">>,
                <<"begin", "execute", "commit", "script">>,
                <<"begin", "script", "rollback", "execute">>,
                <<"begin", "execute", "reset", "execute">>,
                <<"begin", "copy", "copy end", "commit", "execute">>,
                <<"copy", "commit", "script">>,
                <<"begin", "copy", "execute", "copy", "copy end">>}
=============================================================================
