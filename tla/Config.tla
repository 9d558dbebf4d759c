------------------------------- MODULE Config -------------------------------
(***************************************************************************)
(* The configuration layer of src/core/config.c: a handle over a JSON file *)
(* with a cursor.  egw_conf_load takes one step per system or library call *)
(* that can fail; the file may be rewritten in place meanwhile.            *)
(*                                                                         *)
(* cJSON is external: a document is a function from paths to nodes, a      *)
(* cJSON pointer is the path of its node, and cJSONUtils_GetPointer joins  *)
(* paths.  A path is a sequence of keys; array indices are keys too.  A    *)
(* number is held in tenths, so that it may have a fraction.               *)
(***************************************************************************)
EXTENDS Integers, Sequences, FiniteSets

CONSTANTS Files,      \* contents of the file: [size, len, doc]; len bytes complete the document
          Paths,      \* the paths callers use
          Defaults,   \* the default a caller passes, for each getter
          NULL,       \* the NULL pointer
          INT_MAX,    \* the largest int32_t
          MaxEdits    \* bound: how often the file is rewritten

INT_MIN == -INT_MAX - 1

Getters == {"string", "number", "bool", "array"}

\* The documents the file may hold.
Docs == {f.doc : f \in {g \in Files : g.doc # NULL}}

\* NULL is none of the things it is told apart from; a document has a root and
\* its numbers are numbers.
ASSUME ConfigAssumption ==
  /\ INT_MAX \in Nat /\ MaxEdits \in Nat
  /\ Paths \subseteq Seq(STRING)
  /\ NULL \notin Files /\ NULL \notin Paths
  /\ NULL \notin [root : Docs, cur : Paths \cup {<<>>}]
  /\ NULL \notin [getter : Getters, path : Paths \cup {NULL}]
  /\ \A doc \in Docs : /\ <<>> \in DOMAIN doc /\ NULL \notin DOMAIN doc
                       /\ \A p \in DOMAIN doc : doc[p].kind = "number" => doc[p].val \in Int

VARIABLES
  file, edits,  \* external: the file, NULL if there is none
  lp,           \* where egw_conf_load is
  size, text,   \* st.st_size; what read delivered: [len, doc, n]
  cfg,          \* the handle: NULL or [root, cur]
  held,         \* what the module has acquired and not given back
  ret, out,     \* what the last call returned
  asked,        \* history: the getter of that call and its key, NULL for other calls
  entered       \* history: the path last entered with success

conf_vars == <<file, edits, lp, size, text, cfg, held, ret, out, asked, entered>>

ConfInit == /\ file \in Files \cup {NULL} /\ edits = 0
            /\ lp = "idle" /\ size = 0 /\ text = NULL /\ cfg = NULL /\ held = {}
            /\ ret = "EGW_OK" /\ out = NULL /\ asked = NULL /\ entered = <<>>

\* Somebody rewrites the file in place.  Removing it does not matter to a
\* descriptor that is open.
Rewrite ==
  /\ edits < MaxEdits
  /\ edits' = edits + 1
  /\ file' \in IF lp = "idle" THEN (Files \cup {NULL}) \ {file} ELSE Files \ {file}
  /\ UNCHANGED <<lp, size, text, cfg, held, ret, out, asked, entered>>

-----------------------------------------------------------------------------
(* egw_conf_load. *)

\* The call returns an error.
LoadFails(err) == ret' = err /\ lp' = "idle" /\ out' = NULL /\ asked' = NULL

LoadOpen ==
  /\ lp = "idle" /\ cfg = NULL
  /\ \/ LoadFails("ERR_NOTFOUND") /\ UNCHANGED held
     \/ file # NULL /\ lp' = "stat" /\ held' = {"fd"} /\ UNCHANGED <<ret, out, asked>>
  /\ UNCHANGED <<file, edits, size, text, cfg, entered>>

\* Mutant of LoadStat: an empty file is refused without closing it.
LoadStatKeepsFd ==
  /\ lp = "stat"
  /\ \/ file.size = 0 /\ LoadFails("ERR_PARSE") /\ UNCHANGED <<size, held>>
     \/ LoadFails("ERR_INVALID_ARG") /\ held' = {} /\ UNCHANGED size
     \/ /\ file.size > 0
        /\ size' = file.size /\ lp' = "read" /\ held' = held \cup {"buf"}
        /\ UNCHANGED <<ret, out, asked>>
  /\ UNCHANGED <<file, edits, text, cfg, entered>>

\* fstat, and malloc of the buffer.
LoadStat ==
  /\ lp = "stat"
  /\ \/ LoadFails("ERR_PARSE") /\ held' = {} /\ UNCHANGED size
     \/ file.size > 0 /\ LoadFails("ERR_INVALID_ARG") /\ held' = {} /\ UNCHANGED size
     \/ /\ file.size > 0
        /\ size' = file.size /\ lp' = "read" /\ held' = held \cup {"buf"}
        /\ UNCHANGED <<ret, out, asked>>
  /\ UNCHANGED <<file, edits, text, cfg, entered>>

\* read delivers at most st_size bytes of what the file holds by now, and the
\* descriptor is closed.
LoadRead ==
  /\ lp = "read"
  /\ \/ LoadFails("ERR_PARSE") /\ held' = {} /\ UNCHANGED text
     \/ /\ text' = [len |-> file.len, doc |-> file.doc,
                    n |-> IF file.size < size THEN file.size ELSE size]
        /\ lp' = "parse" /\ held' = held \ {"fd"}
        /\ UNCHANGED <<ret, out, asked>>
  /\ UNCHANGED <<file, edits, size, cfg, entered>>

\* cJSON_Parse needs the bytes that complete the document and ignores others.
Parsed == IF text.doc # NULL /\ text.len <= text.n THEN text.doc ELSE NULL

Acceptable == IF Parsed = NULL THEN FALSE ELSE Parsed[<<>>].kind = "object"

\* The buffer is freed in any case; the root must be an object; the handle is
\* allocated last and starts at the root.
LoadParse ==
  /\ lp = "parse"
  /\ \/ /\ LoadFails(IF Acceptable THEN "ERR_INVALID_ARG" ELSE "ERR_PARSE")
        /\ held' = {} /\ UNCHANGED <<cfg, entered>>
     \/ /\ Acceptable
        /\ cfg' = [root |-> Parsed, cur |-> <<>>] /\ entered' = <<>>
        /\ held' = {"tree", "cfg"} /\ lp' = "idle" /\ ret' = "EGW_OK"
        /\ out' = NULL /\ asked' = NULL
  /\ UNCHANGED <<file, edits, size, text>>

\* egw_conf_free.
Free ==
  /\ lp = "idle" /\ cfg # NULL
  /\ cfg' = NULL /\ held' = held \ {"tree", "cfg"}
  /\ asked' = NULL /\ out' = NULL
  /\ UNCHANGED <<file, edits, lp, size, text, ret, entered>>

-----------------------------------------------------------------------------
(* The cursor and the getters. *)

\* cJSONUtils_GetPointer: external.
GetPointer(from, path) ==
  IF path # NULL /\ from \o path \in DOMAIN cfg.root THEN from \o path ELSE NULL

\* Mutant of Target: the path is taken relative to the cursor.
TargetFromCursor(path) == GetPointer(cfg.cur, path)

\* egw_conf_enter looks the path up from the root of the document.
Target(path) == GetPointer(<<>>, path)

\* egw_conf_enter: a path that does not exist leaves the cursor where it was.
Enter(path) ==
  /\ lp = "idle" /\ cfg # NULL
  /\ IF path = NULL THEN ret' = "ERR_INVALID_ARG" /\ UNCHANGED <<cfg, entered>>
     ELSE IF Target(path) = NULL THEN ret' = "ERR_NOTFOUND" /\ UNCHANGED <<cfg, entered>>
     ELSE ret' = "EGW_OK" /\ cfg' = [cfg EXCEPT !.cur = Target(path)] /\ entered' = path
  /\ out' = NULL /\ asked' = NULL
  /\ UNCHANGED <<file, edits, lp, size, text, held>>

\* (int32_t) of a double: the fraction is dropped.  Out of range the result is
\* undefined: x86 delivers INT_MIN, ARM the nearest bound.
ToInt32(tenths) ==
  LET whole == IF tenths >= 0 THEN tenths \div 10 ELSE -((-tenths) \div 10)
  IN  IF whole \in INT_MIN..INT_MAX THEN {whole}
      ELSE {INT_MIN, IF whole > 0 THEN INT_MAX ELSE INT_MIN}

\* What each getter delivers for a node of its kind.
ValuesAt(path, getter) ==
  LET item == cfg.root[path]
  IN  CASE getter = "number" -> ToInt32(item.val)
        [] getter = "array"  -> {Cardinality({p \in DOMAIN cfg.root :
                                   Len(p) = Len(path) + 1 /\ SubSeq(p, 1, Len(path)) = path})}
        [] OTHER -> {item.val}

\* egw_conf_get_string, _int, _bool and egw_conf_array_length: from the cursor;
\* the default when there is no such node or it has another kind.  A string is
\* copied, the default too: when there is no memory for the copy of a value the
\* call fails, when there is none for the copy of the default NULL is delivered.
Get(getter, path) ==
  /\ lp = "idle" /\ cfg # NULL
  /\ LET item == GetPointer(cfg.cur, path)
     IN  IF item # NULL /\ cfg.root[item].kind = getter
         THEN \/ ret' = "EGW_OK" /\ out' \in ValuesAt(item, getter)
              \/ getter = "string" /\ ret' = "ERR_INVALID_ARG" /\ out' = NULL
         ELSE /\ ret' = "ERR_NOTFOUND"
              /\ out' = Defaults[getter] \/ (getter = "string" /\ out' = NULL)
  /\ asked' = [getter |-> getter, path |-> path]
  /\ UNCHANGED <<file, edits, lp, size, text, cfg, held, entered>>

ConfNext == \/ Rewrite \/ LoadOpen \/ LoadStat \/ LoadRead \/ LoadParse \/ Free
            \/ \E p \in Paths \cup {NULL} : Enter(p) \/ \E g \in Getters : Get(g, p)

ConfSpec == ConfInit /\ [][ConfNext]_conf_vars

-----------------------------------------------------------------------------
\* The cursor is a node of the document.
ConfTypeOK ==
  /\ file \in Files \cup {NULL} /\ edits \in 0..MaxEdits
  /\ lp \in {"idle", "stat", "read", "parse"}
  /\ held \subseteq {"fd", "buf", "tree", "cfg"}
  /\ ret \in {"EGW_OK", "ERR_NOTFOUND", "ERR_PARSE", "ERR_INVALID_ARG"}
  /\ cfg # NULL => cfg.cur \in DOMAIN cfg.root

\* However egw_conf_load ends, and whatever happens to the file while it runs,
\* no descriptor, buffer or tree is left over: between calls the module holds
\* exactly the tree and the handle it gave out.
NothingLeaked == lp = "idle" => held = IF cfg = NULL THEN {} ELSE {"tree", "cfg"}

\* A query is answered from the node at the path entered last with success,
\* counted from the root of the document, followed by the key: entering twice
\* does not nest, a failed enter changes nothing, "" leads back to the root.
\* If that node has the kind asked for the answer is its value (a number
\* without its fraction if it fits, some int32_t if not), and otherwise
\* ERR_NOTFOUND with the default, or with NULL when that is a string and could
\* not be copied.
AnswerFromEntered ==
  asked # NULL /\ cfg # NULL =>
    LET known == asked.path # NULL /\ entered \o asked.path \in DOMAIN cfg.root
        item  == cfg.root[entered \o asked.path]
    IN  IF known /\ item.kind = asked.getter
        THEN /\ ret # "ERR_NOTFOUND"
             /\ ret = "EGW_OK" /\ asked.getter \in {"string", "bool"} => out = item.val
             /\ asked.getter = "number" => out \in INT_MIN..INT_MAX
             /\ asked.getter = "number" /\ item.val \in (10 * INT_MIN)..(10 * INT_MAX) =>
                  \E frac \in -9..9 : out * 10 + frac = item.val /\ frac * out >= 0
        ELSE /\ ret = "ERR_NOTFOUND"
             /\ out = Defaults[asked.getter] \/ (asked.getter = "string" /\ out = NULL)
=============================================================================
