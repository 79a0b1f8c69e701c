---------------------------- MODULE MCDecisions -----------------------------
(* The questions that TLC asks of Decisions.  Bounds: two sources and one  *)
(* finding with two supports, two results and one expectation, three       *)
(* registrations, three merged plugins a run, two plugins to load, paths   *)
(* of three components.                                                    *)
EXTENDS Decisions

-----------------------------------------------------------------------------
(* Iterations.                                                             *)

SeqsUpTo(S, n) == UNION {[1 .. k -> S] : k \in 0 .. n}

Runs == {[error |-> FALSE, codes |-> c] : c \in {<<>>, <<0>>, <<1, 0>>, <<0, 1>>}}
          \cup {[error |-> TRUE, codes |-> <<0>>]}

NoResearch == [present |-> FALSE, concluded |-> FALSE, sources |-> <<>>, findings |-> <<>>]
NoFiles == [present |-> FALSE, expectations |-> <<>>, results |-> <<>>]
GoodRuns == [i \in Commands |-> [error |-> FALSE, codes |-> <<0>>]]

Plain == [toolError |-> FALSE, response |-> TRUE, research |-> NoResearch,
          files |-> NoFiles, runs |-> GoodRuns]

Sources == [id : {"a", "b", ""}, located : BOOLEAN]
Findings == [claimed : BOOLEAN, supports : SeqsUpTo({"a", "b", "c", ""}, 2)]

Researches ==
  {[o EXCEPT !.research = r] :
     o \in {Plain, [Plain EXCEPT !.toolError = TRUE]},
     r \in [present : {TRUE}, concluded : BOOLEAN, sources : SeqsUpTo(Sources, 2),
            findings : SeqsUpTo(Findings, 1)]}

Results == [path : {"p", "q"}, exists : BOOLEAN, error : BOOLEAN,
            content : {{}, {"x"}}] \cup
           {[path |-> "", exists |-> TRUE, error |-> FALSE, content |-> {}]}
Expectations == [path : {"p", ""}, shouldExist : BOOLEAN, required : {{}, {"x", ""}}]

FileStates ==
  {[Plain EXCEPT !.files = f] :
     f \in [present : {TRUE}, expectations : SeqsUpTo(Expectations, 1),
            results : SeqsUpTo(Results, 2)]}

CommandRuns ==
  {[Plain EXCEPT !.runs = r, !.response = s] : r \in [Commands -> Runs], s \in BOOLEAN}

Asks(fronts, modes, tasks, actions, observations) ==
  [front : fronts, mode : modes, task : tasks, action : actions, o : observations]

Task(category, policy) == [category |-> category, policy |-> policy]

IterationsMC ==
  Asks({"cli"}, {"standard"},
       {Task("coding", ""), Task("research", "code")}, {"complete"}, CommandRuns)
  \cup Asks({"cli"}, {"standard"}, {Task("", ""), Task("coding", "research")},
            {"complete"}, Researches)
  \cup Asks({"server"}, {"strict"}, {Task("file_workflow", ""), Task("general", "checklist")},
            {"complete"}, FileStates)
  \cup Asks({"cli", "server"}, {"off", "standard"},
            [category : {"coding", "research", "file_workflow", "general", "poetry"},
             policy : {"", "default", "code", "research", "output", "vibes"}],
            {"respond", "request_input"}, {Plain, [Plain EXCEPT !.response = FALSE]})

-----------------------------------------------------------------------------
(* What plugins do.                                                        *)

DelegatesMC ==
  [does : {"missing", "panics", "fails", "answers"},
   verdict : [passed : BOOLEAN, status : {"", "passed", "failed", "not_applicable", "vibes"},
              reason : {"", "why"}]]

Metadata(family, id, version, valid) ==
  [family |-> family, id |-> id, version |-> version, valid |-> valid]

Met ==
  {Metadata("tool", "echo", <<1, 0, 0>>, TRUE), Metadata("tool", "echo", <<1, 1, 0>>, TRUE),
   Metadata("verifier", "echo", <<1, 0, 0>>, TRUE), Metadata("tool", "", <<1, 0, 0>>, TRUE),
   Metadata("provider", "acme", <<1, 0, 0>>, FALSE)}

MergesMC == SeqsUpTo(Met, 3) \X SeqsUpTo(Met, 2)

Contract(policy, metadata) ==
  [via |-> "contract", policy |-> policy, factory |-> TRUE, metadata |-> metadata]
Entry(policy, factory) ==
  [via |-> "register", policy |-> policy, factory |-> factory,
   metadata |-> Metadata("verifier", "none", <<1, 0, 0>>, TRUE)]

Registrations ==
  {Contract(policy, m) :
     policy \in {"code", "evidence", "vibes"},
     m \in {Metadata("verifier", id, version, TRUE) : id \in {"first", "second"},
                                                      version \in {<<1, 0, 0>>, <<1, 1, 0>>}}
           \cup {Metadata("tool", "first", <<1, 0, 0>>, TRUE)}}
  \cup {Entry(policy, TRUE) : policy \in {"", "command", "research", "vibes"}}
  \cup {Entry("code", FALSE)}

RequestsMC == SeqsUpTo(Registrations, 3)

Claims == [id : {HostDefault, "mine"},
           metadata : {Metadata("agent_strategy", id, version, TRUE) :
                         id \in {HostDefault, "mine"}, version \in {<<1, 0, 0>>, <<2, 0, 0>>}}]

StrategiesMC == [requests : SeqsUpTo(Claims, 2), id : {"", HostDefault, "mine", "other"}]

-----------------------------------------------------------------------------
(* Configurations.                                                         *)

File(default, plugin, provider, providers, model) ==
  [default |-> default, plugin |-> plugin, provider |-> provider,
   providers |-> providers, model |-> model, limit |-> None, oldLimit |-> None]

Files ==
  {File(d, pl, pr, ps, m) :
     d \in {None, "", "acme"}, pl \in {None, "acme", "Acme"}, pr \in {None, "", "openai", "acme"},
     ps \in {<<>>, [p \in {"acme"} |-> "plugin"], [p \in {"acme", "openai"} |-> ""]},
     m \in {None, "old"}}

NoSource == [provider |-> None, plugin |-> None, model |-> None, limit |-> None]

SourcesOf(tag) ==
  [provider : {None, "openai", "acme"}, plugin : {None, "Acme", "acme"},
   model : {None, tag}, limit : {None}]

Limits(tag) == {None, "zero", "bad", tag}

LoadsMC ==
  {[path |-> "named", disk |-> [place \in {"named"} |-> f], env |-> e, flags |-> g,
    first |-> "acme"] :
     f \in Files, e \in SourcesOf("env"),
     g \in {s \in SourcesOf("flag") : s.provider = None \/ s.plugin = None}
            \cup {[NoSource EXCEPT !.provider = "", !.model = m] : m \in {None, "flag"}}
            \cup {[NoSource EXCEPT !.plugin = "", !.model = m] : m \in {None, "flag"}}}
  \cup
  {[path |-> p, disk |-> [place \in places |->
                           [File(None, None, None, <<>>, place) EXCEPT
                              !.limit = l, !.oldLimit = o]],
    env |-> [NoSource EXCEPT !.limit = e], flags |-> [NoSource EXCEPT !.limit = g],
    first |-> "openai"] :
     p \in {None, "named"}, places \in SUBSET {"named", "local", "home"},
     l \in Limits("file"), o \in Limits("old"),
     e \in Limits("env"), g \in Limits("flag")}

-----------------------------------------------------------------------------
(* Calls.                                                                  *)

Workspace == <<"work", "space">>

Paths == SeqsUpTo({"..", ".", "work", "space"}, 4)

Call(tool, path, command, host, timeout) ==
  [tool |-> tool, path |-> path, command |-> command, host |-> host, timeout |-> timeout]

CallsMC ==
  [policy : {NewPolicy(Workspace, {}, {}), NewPolicy(<<>>, {}, {})},
   call : {Call(t, p, <<>>, "", 0) :
             t \in {"read_file", "edit_file", "glob", "echo"}, p \in Paths}]
  \cup
  [policy : {NewPolicy(Workspace, c, x) : c \in {{}, {"make", ""}}, x \in {{}, {"rm", "make"}}},
   call : {Call("exec_command", <<>>, w, "", n) :
             w \in SeqsUpTo({"go", "make", "rm", "&&"}, 2), n \in {0, 60}}
          \cup {Call("web_fetch", <<>>, <<>>, h, 0) : h \in {"", "host"}}]

Relative(path) == [from |-> "workspace", path |-> path]
Absolute(path) == [from |-> "root", path |-> path]

(* What targets are: where their references lead, what their plugins say.  *)
References ==
  {Relative(<<"plugins", "echo">>), Relative(<<"plugins", "..", "echo">>),
   Absolute(<<"opt", "echo">>), Absolute(<<"plugins", "echo">>),
   [from |-> "directory", path |-> <<"echo">>], [from |-> "search", path |-> <<"echo.sh">>]}

Targets ==
  {[from |-> r.from, path |-> r.path, major |-> m, capabilities |-> c, name |-> n] :
     r \in References, m \in {1, 2}, c \in SUBSET {"net", "disk"},
     n \in {"echo", "other", "read_file"}}

PluginPolicy(roots, capabilities) ==
  [NewPolicy(Workspace, {}, {}) EXCEPT !.pluginRoots = roots, !.capabilities = capabilities]

PluginsMC ==
  [policy : {PluginPolicy(r, c) :
               r \in SUBSET {Relative(<<"plugins">>), Absolute(<<"opt">>)}, c \in {{}, {"net"}}},
   directory : {Relative(<<>>), Relative(<<"plugins">>), Relative(<<"elsewhere">>),
                Absolute(<<"opt">>)},
   targets : SeqsUpTo(Targets, 1)]
  \cup
  [policy : {PluginPolicy({}, {})}, directory : {Relative(<<"plugins">>)},
   targets : [1 .. 2 -> {t \in Targets : t.capabilities = {}}]]

=============================================================================
