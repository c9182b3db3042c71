--------------------------- MODULE MCCommandLine ---------------------------
(* The small instance of CommandLine: a file and a directory with a file   *)
(* of the same name on the phone, a file and a directory of those names    *)
(* here.                                                                   *)
EXTENDS CommandLine, TLC

DeviceRoot == <<"r">>
Phone == (<<"r">> :> "dir") @@ (<<"r", "x">> :> "file") @@ (<<"r", "a">> :> "dir")
           @@ (<<"r", "a", "x">> :> "file") @@ (<<"r", "n">> :> "none")
Host == ("x" :> "file") @@ ("a" :> "dir") @@ ("n" :> "none") @@ ("r" :> "dir")
Answers == {<<>>, <<[id |-> 2, err |-> FALSE, data |-> TRUE], [id |-> 1, err |-> FALSE, data |-> TRUE]>>,
            <<[id |-> 1, err |-> TRUE, data |-> FALSE], [id |-> 1, err |-> FALSE, data |-> TRUE]>>,
            <<[id |-> 2, err |-> FALSE, data |-> FALSE]>>}

Rel(n) == [abs |-> FALSE, parts |-> <<n>>]
Abs(ps) == [abs |-> TRUE, parts |-> ps]
Cmd(n) == [name |-> n, args |-> <<>>, yes |-> FALSE, overwrite |-> FALSE, recursive |-> FALSE,
           dry |-> FALSE, src |-> "none", base |-> "x", stdin |-> FALSE, stamp |-> 1,
           targets |-> <<>>, output_dir |-> TRUE, wifi |-> TRUE]
On(n, as) == [Cmd(n) EXCEPT !.args = as]
Yes(c) == [c EXCEPT !.yes = TRUE]
Over(c) == [c EXCEPT !.overwrite = TRUE]
Rec(c) == [c EXCEPT !.recursive = TRUE]
Dry(c) == [c EXCEPT !.dry = TRUE]
Src(c, s) == [c EXCEPT !.src = s]

Removes == {On("rm", <<Rel("x")>>), On("rm", <<Rel("x"), Rel("a")>>),
            Rec(Yes(On("rm", <<Rel("a"), Rel("x")>>))), On("rm", <<Rel("n")>>)}
Pulls == {On("pull", <<Rel("x")>>), Over(On("pull", <<Rel("x")>>)), Over(On("pull", <<Rel("n")>>)),
          Rec(Over(On("pull", <<Rel("a")>>))), On("pull", <<Rel("a")>>), Rec(Dry(On("pull", <<Rel("a")>>))),
          On("pull", <<Rel("x"), Rel("x")>>), Over(On("pull", <<Abs(<<"r", "x">>), Abs(<<"r", "a", "x">>)>>)),
          On("pull", <<Abs(<<>>)>>), Over(Rec(On("pull", <<Abs(<<"sdcard">>)>>))),
          Over(On("pull", <<Abs(<<"r", "a", "..", "x">>)>>))}
Pushes == {Src(On("push", <<Rel("x")>>), "file"), Over(Src(On("push", <<Rel("x")>>), "file")),
           Src(On("push", <<Rel("n")>>), "file"), Rec(Src(On("push", <<Rel("n")>>), "dir")),
           Src(On("push", <<Rel("a")>>), "dir"), Over(Rec(Src(On("push", <<Rel("x")>>), "dir"))),
           Src(On("push", <<Rel("n")>>), "none"), Over(Src(On("push", <<Rel("a")>>), "file")),
           Dry(Rec(Src(On("push", <<Rel("n")>>), "dir"))), Over(Rec(Src(On("push", <<Rel("a")>>), "dir")))}
Others == {Cmd(n) : n \in {"list", "discover", "trust_list", "trust_remove", "trust_reset", "info", "ping",
                           "ls", "clip_get", "clip_set", "clip_delete", "clip_clear", "media",
                           "sync_status", "sync_plan", "sync_run", "sync_watch", "shell", "batch", "watch"}}
          \cup {On("stat", <<Rel("n")>>), On("exists", <<Rel("n")>>), On("count", <<Rel("a")>>),
                On("stat", <<Rel("x")>>),
                On("mkdir", <<Rel("n")>>), On("mkdir", <<Rel("x")>>), On("mv", <<Rel("x"), Rel("n")>>),
                [Cmd("trust_reset") EXCEPT !.wifi = FALSE], Yes(Cmd("trust_remove")),
                [Cmd("thumbs") EXCEPT !.targets = <<1, 2>>], Yes(Cmd("sync_run")), Yes(Cmd("sync_watch")),
                [Cmd("sync_plan") EXCEPT !.output_dir = FALSE], Yes(Cmd("clip_clear"))}
TopLevel == Removes \cup Pulls \cup Pushes \cup Others
Typed == {Cmd("garbage"), Cmd("trust_list"), Cmd("list"), Cmd("shell"), Cmd("batch"), On("cd", <<Rel("a")>>), On("cd", <<Rel("x")>>),
          Yes(On("rm", <<Rel("x")>>)), On("rm", <<Rel("a")>>), Over(On("pull", <<Rel("x")>>)),
          Yes(Cmd("sync_run")), Cmd("sync_watch"), Cmd("clip_clear"),
          [Cmd("sync_run") EXCEPT !.output_dir = FALSE], [Cmd("clip_set") EXCEPT !.stdin = TRUE]}
OthersRemove == {<<"r", "n">>, <<"r", "x">>}
Watched == <<"d1", "d2">>
=============================================================================
