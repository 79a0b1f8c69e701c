----------------------------- MODULE ConfigLoad -----------------------------
(***************************************************************************)
(* How the configuration comes about (internal/config/config.go): defaults,*)
(* then a file, then the environment, then the flags, each of which may    *)
(* select a built-in or a plugin provider and give settings to the         *)
(* provider that is selected at that moment.                               *)
(*                                                                         *)
(* Of the settings of a provider the model stands for itself, the API key  *)
(* and the base URL, which are treated alike; limit stands for the         *)
(* settings of the runtime and the server.  A value names its origin, so   *)
(* that a setting that strays is seen; the key that dashscope alone must   *)
(* have is left out.  None is a field that is absent, "" one that is       *)
(* blank.  Names are of providers; "Acme" is "acme" before the code lowers *)
(* it, which it does not for plugin_provider.                              *)
(*                                                                         *)
(*   file   default, plugin, provider, providers (name to type), model,    *)
(*          limit in the runtime object, oldLimit at the top level         *)
(*   env    provider, plugin, model, limit                                 *)
(*   flags  provider, plugin, model, limit                                 *)
(***************************************************************************)
EXTENDS Naturals, Sequences, FiniteSets

None == "absent"

Given(value) == value \notin {None, ""}

Lower(name) == IF name = "Acme" THEN "acme" ELSE name

InferType(name) == IF name \in {"openai", "anthropic"} THEN name ELSE "openai"

-----------------------------------------------------------------------------
(* The configuration in the making.  builtinBy and pluginBy are what the   *)
(* sources have selected so far, failed says that loading ends in an error.*)

Default ==
  [default |-> "openai", provider |-> "openai", plugin |-> "",
   providers |-> [p \in {"openai"} |-> [type |-> "openai", model |-> "builtin"]],
   limit |-> "builtin", builtinBy |-> "", pluginBy |-> "", failed |-> FALSE]

SelectBuiltin(c, name) ==
  [c EXCEPT !.failed = @ \/ (name # "" /\ c.pluginBy # ""),
            !.plugin = "", !.builtinBy = name, !.pluginBy = ""]

SelectPlugin(c, name) ==
  [c EXCEPT !.failed = @ \/ (name # "" /\ c.builtinBy # ""),
            !.plugin = name, !.pluginBy = name, !.builtinBy = "",
            !.provider = name]

Limited(c, value) ==
  IF value = None THEN c
  ELSE [c EXCEPT !.limit = value, !.failed = @ \/ value = "bad"]

WithProvider(c, name, settings) ==
  [c EXCEPT !.providers = [p \in DOMAIN @ \cup {name} |->
                             IF p = name THEN settings ELSE @[p]]]

Settings(c, name) ==
  IF name \in DOMAIN c.providers THEN c.providers[name]
  ELSE [type |-> "", model |-> ""]

Typed(settings, name) ==
  IF settings.type = "" THEN [settings EXCEPT !.type = InferType(name)] ELSE settings

(* upsertSelectedProvider: it changes an entry but never makes one.        *)
Upsert(c) ==
  LET name == Lower(IF c.provider # "" THEN c.provider
                    ELSE IF c.default # "" THEN c.default ELSE "openai")
      settings == Typed(Settings(c, name), name)
      named == [c EXCEPT !.provider = name]
  IN IF name \notin DOMAIN c.providers THEN named
     ELSE WithProvider(named, name,
            IF c.plugin # "" /\ name = c.plugin
            THEN [settings EXCEPT !.type = "plugin"] ELSE settings)

-----------------------------------------------------------------------------
(* loadFromFile: the fields of today, then those of old files, then a      *)
(* provider that exists; first is the name that firstProviderName, which   *)
(* takes the first of a map, happens to meet.                              *)

FileModel(name) == "file:" \o name

ProvidersOfFile(f) ==
  [p \in DOMAIN f.providers |->
     [type |-> IF f.providers[p] = "" THEN InferType(p) ELSE f.providers[p],
      model |-> FileModel(p)]]

FileSelects(c, f) ==
  LET d == IF f.default = None THEN c ELSE [c EXCEPT !.default = f.default]
      s == IF f.plugin = None THEN d ELSE SelectPlugin(d, f.plugin)
      t == IF f.provider = None /\ s.provider = "" THEN [s EXCEPT !.provider = s.default]
           ELSE s
      u == IF f.providers = <<>> THEN t ELSE [t EXCEPT !.providers = ProvidersOfFile(f)]
  IN IF f.provider = None /\ f.plugin = None THEN [u EXCEPT !.provider = u.default]
     ELSE u

IsLegacy(f) == f.provider # None \/ f.model # None \/ f.oldLimit # None

Legacy(c, f) ==
  LET s == IF f.provider = None THEN c ELSE SelectBuiltin(c, f.provider)
      wanted == IF f.provider = None THEN c.provider ELSE f.provider
      name == IF wanted # "" THEN wanted ELSE IF c.default # "" THEN c.default
              ELSE "openai"
      settings == Typed(Settings(c, name), name)
      entry == IF f.model = None THEN settings ELSE [settings EXCEPT !.model = f.model]
  IN Limited([WithProvider(s, name, entry) EXCEPT !.default = name, !.provider = name],
             f.oldLimit)

FileEnds(c, first) ==
  LET listed == IF c.provider \in DOMAIN c.providers THEN c.provider ELSE ""
      name == IF listed # "" THEN listed
              ELSE IF c.default # "" THEN c.default ELSE first
      u == Upsert([c EXCEPT !.provider = name])
  IN IF u.default = "" THEN [u EXCEPT !.default = u.provider] ELSE u

LoadFromFile(c, f, first) ==
  LET t == Limited(FileSelects(c, f), f.limit)
  IN FileEnds(IF IsLegacy(f) THEN Legacy(t, f) ELSE t, first)

-----------------------------------------------------------------------------
(* applyEnv: a setting goes to the provider selected so far, and makes an  *)
(* entry for it when there is none.                                        *)

ApplyEnv(c, env) ==
  LET b == IF Given(env.provider)
           THEN Upsert([SelectBuiltin(c, env.provider) EXCEPT !.provider = env.provider])
           ELSE c
      p == IF Given(env.plugin) THEN Upsert(SelectPlugin(b, env.plugin)) ELSE b
      m == IF Given(env.model)
           THEN WithProvider(p, p.provider, [Settings(p, p.provider) EXCEPT !.model = env.model])
           ELSE p
  IN Limited(m, IF Given(env.limit) THEN env.limit ELSE None)

(* The flags: their settings change an entry only if it exists, and only   *)
(* when they are given; a plugin selection decides the type.  The entry is *)
(* that of the name which was selected, so that a blank name has none.     *)
FlagSettingsLeak(c, name, flags, before) ==
  LET settings == Typed(Settings(c, name), name)
      model == IF flags.model = None THEN before.model ELSE flags.model
  IN IF name \notin DOMAIN c.providers THEN c
     ELSE WithProvider(c, name,
            [settings EXCEPT !.model = model,
                             !.type = IF c.plugin # "" THEN "plugin" ELSE @])

FlagSettings(c, name, flags, before) ==
  LET settings == Typed(Settings(c, name), name)
      model == IF flags.model = None THEN settings.model ELSE flags.model
  IN IF name \notin DOMAIN c.providers THEN c
     ELSE WithProvider(c, name,
            [settings EXCEPT !.model = model,
                             !.type = IF c.plugin # "" THEN "plugin" ELSE @])

ApplyFlags(c, flags) ==
  LET b == IF flags.provider = None THEN c
           ELSE [SelectBuiltin(c, flags.provider) EXCEPT !.provider = flags.provider]
      p == IF flags.plugin = None THEN b ELSE SelectPlugin(b, flags.plugin)
      name == Lower(p.provider)
      u == Upsert([p EXCEPT !.provider = name,
                            !.failed = @ \/ (flags.provider # None /\ flags.plugin # None)])
      s == Limited(FlagSettings(u, name, flags, Settings(c, c.provider)), flags.limit)
  IN IF s.default = "" THEN [s EXCEPT !.default = s.provider] ELSE s

-----------------------------------------------------------------------------
(* Validate, and Load as a whole.                                          *)

ConfigValid(c) ==
  /\ c.default \in DOMAIN c.providers
  /\ c.provider \in DOMAIN c.providers
  /\ c.providers[c.provider].type \in {"openai", "anthropic", "plugin"}
  /\ c.providers[c.provider].type = "plugin" => c.plugin # ""
  /\ c.providers[c.provider].model # ""
  /\ c.limit # "zero"

(* resolveConfigPath: a path that is given must exist, else the file of    *)
(* the directory comes before the one of the user.                         *)
ConfigFile(path, disk) ==
  IF path # None THEN path
  ELSE IF "local" \in DOMAIN disk THEN "local"
  ELSE IF "home" \in DOMAIN disk THEN "home" ELSE None

Load(path, disk, env, flags, first) ==
  LET where == ConfigFile(path, disk)
      fromFile == IF where = None THEN Default
                  ELSE IF where \in DOMAIN disk THEN LoadFromFile(Default, disk[where], first)
                  ELSE [Default EXCEPT !.failed = TRUE]
      c == ApplyFlags(ApplyEnv(fromFile, env), flags)
  IN [ok |-> ~c.failed /\ ConfigValid(c), config |-> c]

=============================================================================
