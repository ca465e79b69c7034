------------------------------- MODULE Profile -------------------------------
(***************************************************************************)
(* Reading krb5.conf and kdc.conf (krb5-config/src/profile.rs, kdcconf.rs, *)
(* plugin_profile.rs, otp_profile.rs).  There are two readers of the same  *)
(* syntax.  One goes through the files line by line and follows an include *)
(* where it stands (parse_into); the other first puts the included text in *)
(* its place (resolve_includes) and parses the result for one realm        *)
(* (KdcConf).  Both collect the [plugins] and the [otp] sections, whose    *)
(* "*" says that a later file adds nothing.                                *)
(*                                                                         *)
(* A line is a record: a heading, the opening or closing of a group, a     *)
(* relation, or an include.  Comments and quoting are left out, and the    *)
(* value "bad" stands for one that does not convert.                       *)
(***************************************************************************)
EXTENDS Integers, Sequences, FiniteSets, SequencesExt, TLC

CONSTANTS
    Layouts,    \* [files, dirs, denied]: the lines of each file, the files of each
                \* directory, the files that may not be read
    Tops,       \* the profile files, in order: <<kdc.conf, krb5.conf>>
    Realms,     \* the realms kdc.conf is read for
    Modules,    \* the built-in modules of each plugin interface
    MaxDepth    \* MAX_INCLUDE_DEPTH

VARIABLES
    layout,     \* the files on disk
    todo,       \* the profile files that are still to be read
    stack,      \* the files and directories being read, the innermost last
    conf,       \* Krb5Conf
    text,       \* what the other readers have of the text with the includes in place
    result      \* "reading", or how it ended

vars == <<layout, todo, stack, conf, text, result>>

Heading(name) == [t |-> "head", name |-> name, star |-> FALSE]

One(s) == CHOOSE x \in s : TRUE

(* The first, or the last, value of a relation counts. *)
PutFirst(f, k, v) == IF k \in DOMAIN f THEN f ELSE f @@ (k :> v)
PutLast(f, k, v) == (k :> v) @@ f

-----------------------------------------------------------------------------
(* join_subsection_braces: "tag =" and "{" on the next line.               *)
JoinLine(s, l) ==
    CASE l.t \in {"include", "includedir"} -> [s EXCEPT !.out = Append(@, l)]
      [] s.tag # {} /\ l.t = "brace" ->
             [s EXCEPT !.tag = {}, !.out = Append(@, [One(s.tag) EXCEPT !.t = "open"])]
      [] s.tag # {} /\ l.t # "brace" -> [s EXCEPT !.bad = TRUE]
      [] s.tag = {} /\ l.t = "tag" /\ s.section -> [s EXCEPT !.tag = {l}]
      [] OTHER -> [s EXCEPT !.out = Append(@, l), !.section = @ \/ l.t = "head"]

Joined(lines) ==
    FoldLeft(JoinLine, [out |-> <<>>, tag |-> {}, section |-> FALSE, bad |-> FALSE], lines)

JoinSubsectionBraces(s) ==
    s.out \o [i \in 1 .. Cardinality(s.tag) |-> [One(s.tag) EXCEPT !.t = "open"]]

-----------------------------------------------------------------------------
(* The [plugins] and [otp] trees and the cursors that fill them.           *)
Cursor == [here |-> FALSE, depth |-> 0, discard |-> 0, name |-> {}]
NoTree == [final |-> FALSE, nodes |-> <<>>]
NoNode == [final |-> FALSE, relations |-> <<>>]

Node(tree, name) == IF name \in DOMAIN tree.nodes THEN tree.nodes[name] ELSE NoNode

PutNode(tree, name, node) == [tree EXCEPT !.nodes = PutLast(@, name, node)]

ObserveHeader(s, section, l) ==
    IF l.name = section
    THEN [cur |-> [here |-> TRUE, depth |-> 1, name |-> {},
                   discard |-> IF s.tree.final THEN 1 ELSE 0],
          tree |-> [s.tree EXCEPT !.final = @ \/ l.star]]
    ELSE [s EXCEPT !.cur = Cursor]

(* open_sub: the [otp] section makes the type's node at once. *)
Entered(s, section, l) ==
    [cur |-> [s.cur EXCEPT !.depth = 2, !.name = {l.name},
                           !.discard = IF Node(s.tree, l.name).final THEN 2 ELSE 0],
     tree |-> IF section = "otp" \/ l.star
              THEN PutNode(s.tree, l.name, [Node(s.tree, l.name) EXCEPT !.final = @ \/ l.star])
              ELSE s.tree]

OpenSub(s, section, l) ==
    IF s.cur.discard # 0 \/ s.cur.depth # 1 THEN [s EXCEPT !.cur.depth = @ + 1]
    ELSE Entered(s, section, l)

Closes(node, name) ==
    \E i \in DOMAIN node.relations : node.relations[i].name = name /\ node.relations[i].star

Taken(section, name) == section = "otp" \/ name \in {"disable", "enable_only"}

AddRelation(s, section, l) ==
    IF \/ s.cur.discard # 0 \/ s.cur.depth # 2 \/ ~ Taken(section, l.name)
       \/ Closes(Node(s.tree, One(s.cur.name)), l.name)
    THEN s
    ELSE [s EXCEPT !.tree = PutNode(@, One(s.cur.name),
              [Node(@, One(s.cur.name)) EXCEPT !.relations =
                   Append(@, [name |-> l.name, value |-> l.value, star |-> l.star])])]

(* A "}*" makes the node final; the end of what is discarded. *)
Finished(s, l) ==
    IF l.star /\ s.cur.discard = 0 /\ s.cur.depth = 2
    THEN PutNode(s.tree, One(s.cur.name), [Node(s.tree, One(s.cur.name)) EXCEPT !.final = TRUE])
    ELSE s.tree

CloseBrace(s, l) ==
    IF s.cur.depth < 2 THEN s
    ELSE [tree |-> Finished(s, l),
          cur |-> [s.cur EXCEPT !.depth = @ - 1,
                                !.discard = IF s.cur.depth - 1 < @ THEN 0 ELSE @,
                                !.name = IF s.cur.depth = 2 THEN {} ELSE @]]

Observe(s, section, l) ==
    CASE l.t = "head" -> ObserveHeader(s, section, l)
      [] l.t # "head" /\ ~ s.cur.here -> s
      [] l.t = "open" /\ s.cur.here -> OpenSub(s, section, l)
      [] l.t = "rel" /\ s.cur.here -> AddRelation(s, section, l)
      [] l.t = "close" /\ s.cur.here -> CloseBrace(s, l)
      [] OTHER -> s

(* A "*" after another section's heading makes the line none for the       *)
(* plugins cursor.                                                         *)
ObservePlugins(s, l) ==
    IF l.t = "head" /\ l.star /\ l.name # "plugins" THEN s ELSE Observe(s, "plugins", l)

-----------------------------------------------------------------------------
(* parse_into, one line at a time.                                         *)
TopKeys == {"default_realm", "clockskew", "dns_lookup_kdc", "dns_fallback", "allow_weak_crypto"}
NodeKeys == {"forwardable", "ticket_lifetime"}
ContextKeys == {"allow_weak_crypto"}
Servers == {"kdc", "admin_server", "kpasswd_server"}

NoConf ==
    [first |-> <<>>, lists |-> <<>>, invalid |-> {}, refused |-> {},
     plugins |-> NoTree, otp |-> NoTree]

NewContext ==
    [section |-> "", depth |-> 0, group |-> {}, plugins |-> Cursor, otp |-> Cursor]

(* parse_libdefaults: the first value of a key, at the top or in a realm's *)
(* node; a value the library's context cannot take is remembered.          *)
Allowed(ctx, key) ==
    \/ ctx.depth = 0 /\ key \in TopKeys \cup NodeKeys
    \/ ctx.depth = 1 /\ ctx.group # {} /\ key \in NodeKeys

Where(ctx) == IF ctx.depth = 0 THEN "" ELSE One(ctx.group)

ParseLibdefaults(c, ctx, l) ==
    IF l.t # "rel" \/ ~ Allowed(ctx, l.name) THEN c
    ELSE [c EXCEPT !.first = PutFirst(@, <<Where(ctx), l.name>>, l.value),
                   !.refused = IF /\ l.name \in ContextKeys /\ l.value = "bad"
                                  /\ <<Where(ctx), l.name>> \notin DOMAIN c.first
                               THEN @ \cup {l.name} ELSE @]

(* parse_realm_line. *)
ParseRealmLine(c, realm, l) ==
    IF l.name = "disable_encrypted_timestamp"
    THEN [c EXCEPT !.first = PutFirst(@, <<realm, l.name>>, l.value)]
    ELSE IF l.name \in Servers /\ l.value = "bad"
    THEN [c EXCEPT !.invalid = @ \cup {<<realm, l.name>>}]
    ELSE [c EXCEPT !.lists = Append(@, <<realm, l.name, l.value>>)]

(* The sections of groups: [realms] and [capaths]; only a plain "}" ends   *)
(* the group.                                                              *)
InGroup(ctx, l) ==
    CASE l.t = "open" -> [ctx EXCEPT !.group = {l.name}]
      [] l.t = "close" /\ ~ l.star -> [ctx EXCEPT !.group = {}]
      [] OTHER -> ctx

InLibdefaults(ctx, l) ==
    CASE l.t = "open" ->
             [ctx EXCEPT !.depth = @ + 1, !.group = IF ctx.depth = 0 THEN {l.name} ELSE @]
      [] l.t = "close" ->
             [ctx EXCEPT !.depth = IF @ = 0 THEN 0 ELSE @ - 1,
                         !.group = IF ctx.depth = 1 THEN {} ELSE @]
      [] OTHER -> ctx

(* A heading; one with a "*" is a heading only for [plugins] here. *)
IsHeading(l) == l.t = "head" /\ (~ l.star \/ l.name = "plugins")

Move(ctx, l) ==
    IF IsHeading(l) THEN [ctx EXCEPT !.section = l.name, !.depth = 0, !.group = {}]
    ELSE IF ctx.section \in {"realms", "capaths"} THEN InGroup(ctx, l)
    ELSE IF ctx.section \in {"libdefaults", "kdcdefaults"} THEN InLibdefaults(ctx, l)
    ELSE ctx

Keep(c, ctx, l) ==
    CASE ctx.section = "libdefaults" -> ParseLibdefaults(c, ctx, l)
      [] ctx.section = "realms" /\ l.t = "rel" /\ ctx.group # {} ->
             ParseRealmLine(c, One(ctx.group), l)
      [] ctx.section = "capaths" /\ l.t = "rel" /\ ctx.group # {} ->
             [c EXCEPT !.lists = Append(@, <<One(ctx.group), l.name, l.value>>)]
      [] ctx.section = "domain_realm" /\ l.t = "rel" ->
             [c EXCEPT !.first = PutFirst(@, <<"domain_realm", l.name>>, l.value)]
      [] \/ ctx.section = "kdcdefaults" /\ l.t = "rel" /\ ctx.depth = 0
         \/ ctx.section = "logging" /\ l.t = "rel" ->
             [c EXCEPT !.lists = Append(@, <<ctx.section, l.name, l.value>>)]
      [] OTHER -> c

Observed(s, plugins, otp) ==
    [conf |-> [s.conf EXCEPT !.plugins = plugins.tree, !.otp = otp.tree],
     ctx |-> [s.ctx EXCEPT !.plugins = plugins.cur, !.otp = otp.cur]]

Watch(s, l) ==
    Observed(s, ObservePlugins([cur |-> s.ctx.plugins, tree |-> s.conf.plugins], l),
             Observe([cur |-> s.ctx.otp, tree |-> s.conf.otp], "otp", l))

Moved(s, ctx, l) ==
    [conf |-> IF IsHeading(l) THEN s.conf ELSE Keep(s.conf, ctx, l), ctx |-> ctx]

ParseLine(s, l) == LET w == Watch(s, l) IN Moved(w, Move(w.ctx, l), l)

-----------------------------------------------------------------------------
(* kdc.conf for one realm (KdcConf::parse_for_realm).                      *)
(* stanza_of: the lines of the other realms' groups are left out; `out' is *)
(* whether the line is kept.                                               *)
NoStanza == [section |-> "", depth |-> 0, keep |-> TRUE, out |-> TRUE]

StanzaOpen(s, l, keep) == [s EXCEPT !.keep = keep, !.out = keep, !.depth = @ + 1]

StanzaOf(s, l, realm) ==
    CASE s.depth = 0 /\ l.t = "head" /\ ~ l.star ->
             [s EXCEPT !.section = l.name, !.keep = TRUE, !.out = TRUE]
      [] s.section = "realms" /\ l.t = "open" ->
             StanzaOpen(s, l, IF s.depth = 0 THEN l.name = realm ELSE s.keep)
      [] s.section = "realms" /\ l.t = "close" /\ s.depth > 0 ->
             [s EXCEPT !.depth = @ - 1, !.keep = @ \/ s.depth = 1, !.out = s.keep]
      [] OTHER -> [s EXCEPT !.out = s.keep]

(* parse_joined. *)
RealmKeys == {"database_name", "key_stash_file", "acl_file", "master_key_type"}
ListenKeys == {"kdc_listen", "kdc_ports", "kdc_tcp_listen", "kdc_tcp_ports", "database_module"}

NoKdcConf ==
    [section |-> "", inRealm |-> FALSE, depth |-> 0, dbmodule |-> {}, realm |-> "",
     last |-> <<>>, first |-> <<>>, modules |-> <<>>,
     plugins |-> [cur |-> Cursor, tree |-> NoTree], otp |-> [cur |-> Cursor, tree |-> NoTree]]

(* ListenRelations::take keeps the first, the other relations the last. *)
KdcRealmLine(s, l) ==
    IF l.name \in ListenKeys
    THEN [s EXCEPT !.first = PutFirst(@, <<"realms", l.name>>, l.value)]
    ELSE [s EXCEPT !.last = PutLast(@, <<"realms", l.name>>, l.value)]

KdcDefaultsLine(s, l) ==
    IF l.name \in ListenKeys
    THEN [s EXCEPT !.first = PutFirst(@, <<"kdcdefaults", l.name>>, l.value)]
    ELSE [s EXCEPT !.last = PutLast(@, <<"kdcdefaults", l.name>>, l.value)]

DbModuleLine(s, l) ==
    CASE l.t = "open" -> [s EXCEPT !.dbmodule = {l.name}]
      [] l.t = "close" /\ ~ l.star -> [s EXCEPT !.dbmodule = {}]
      [] l.t = "rel" /\ s.dbmodule # {} ->
             [s EXCEPT !.modules = Append(@, <<One(s.dbmodule), l.name, l.value>>)]
      [] OTHER -> s

RealmsLine(s, l) ==
    CASE l.t = "open" -> [s EXCEPT !.realm = l.name, !.inRealm = TRUE]
      [] l.t = "close" /\ ~ l.star -> [s EXCEPT !.inRealm = FALSE]
      [] l.t = "rel" /\ s.inRealm -> KdcRealmLine(s, l)
      [] OTHER -> s

KdcLibLine(s, l) ==
    CASE l.t = "open" -> [s EXCEPT !.depth = @ + 1]
      [] l.t = "close" /\ ~ l.star -> [s EXCEPT !.depth = IF @ = 0 THEN 0 ELSE @ - 1]
      [] l.t = "rel" /\ s.depth = 0 ->
             [s EXCEPT !.first = PutFirst(@, <<"libdefaults", l.name>>, l.value)]
      [] OTHER -> s

KdcObserve(s, l) ==
    [s EXCEPT !.plugins = ObservePlugins(@, l), !.otp = Observe(@, "otp", l)]

KdcMoved(s, l) ==
    CASE IsHeading(l) ->
             [s EXCEPT !.section = l.name, !.inRealm = FALSE, !.depth = 0, !.dbmodule = {}]
      [] ~ IsHeading(l) /\ s.section = "dbmodules" -> DbModuleLine(s, l)
      [] ~ IsHeading(l) /\ s.section = "realms" -> RealmsLine(s, l)
      [] ~ IsHeading(l) /\ s.section = "kdcdefaults" /\ l.t = "rel" -> KdcDefaultsLine(s, l)
      [] ~ IsHeading(l) /\ s.section = "libdefaults" -> KdcLibLine(s, l)
      [] OTHER -> s

ParseJoined(s, l) == KdcMoved(KdcObserve(s, l), l)

(* The flags of the realm's database module. *)
Given(f, k, default) == IF k \in DOMAIN f THEN f[k] ELSE default

(* RealmPaths::stanza: a third reader, of four relations. *)
NoPaths == [section |-> "", current |-> {}, out |-> <<>>]

RealmPaths(s, l, realm) ==
    CASE l.t = "head" /\ ~ l.star -> [s EXCEPT !.section = l.name, !.current = {}]
      [] l.t = "open" /\ s.section = "realms" -> [s EXCEPT !.current = {l.name}]
      [] l.t = "close" /\ ~ l.star /\ s.section = "realms" -> [s EXCEPT !.current = {}]
      [] l.t = "rel" /\ s.section = "realms" /\ s.current = {realm} /\ l.name \in RealmKeys ->
             [s EXCEPT !.out = PutLast(@, <<"realms", l.name>>, l.value)]
      [] OTHER -> s

(* read_kdc_profile: a line of kdc.conf, as each of the realms reads it. *)
ForRealm(k, stanza, l, realm) ==
    [stanza |-> stanza, conf |-> IF stanza.out THEN ParseJoined(k.conf, l) ELSE k.conf,
     paths |-> RealmPaths(k.paths, l, realm)]

-----------------------------------------------------------------------------
(* Going through the files.                                                *)
File(path, lines) ==
    [kind |-> "file", path |-> path, rest |-> lines, ctx |-> NewContext,
     heading |-> Heading(""), depth |-> 0]

Dir(path) ==
    [kind |-> "dir", path |-> path, rest |-> layout.dirs[path], ctx |-> NewContext,
     heading |-> Heading(""), depth |-> 0]

Top == stack[Len(stack)]

SetTop(frame) == [stack EXCEPT ![Len(stack)] = frame]

(* The next line of the text that resolve_includes makes. *)
NoText ==
    [path |-> "", ok |-> TRUE, headed |-> FALSE, whole |-> [conf |-> NoConf, ctx |-> NewContext],
     alone |-> [conf |-> NoConf, ctx |-> NewContext],
     kdc |-> [r \in Realms |-> [stanza |-> NoStanza, conf |-> NoKdcConf, paths |-> NoPaths]]]

Emit(l) ==
    [text EXCEPT !.headed = @ \/ l.t = "head",
                 !.whole = ParseLine(@, l),
                 !.alone = IF text.path = Tops[1] THEN @ ELSE ParseLine(@, l),
                 !.kdc = IF text.path # Tops[1] THEN @
                         ELSE [r \in Realms |->
                                  ForRealm(@[r], StanzaOf(@[r].stanza, l, r), l, r)]]

(* load_file_into and include_file_text: too deep, a cycle, not there. *)
Refusal(path) ==
    IF Cardinality({i \in DOMAIN stack : stack[i].kind = "file"}) >= MaxDepth THEN {"deep"}
    ELSE IF \E i \in DOMAIN stack : stack[i].path = path THEN {"cycle"}
    ELSE IF path \notin DOMAIN layout.files THEN {"missing"}
    ELSE {}

OpenFile(path, under) ==
    \E j \in {Joined(layout.files[path])} :
        IF j.bad THEN result' = "syntax" /\ UNCHANGED stack
        ELSE stack' = Append(under, File(path, JoinSubsectionBraces(j))) /\ UNCHANGED result

Enter(path, under) ==
    \/ Refusal(path) # {} /\ result' = One(Refusal(path)) /\ UNCHANGED stack
    \/ Refusal(path) = {} /\ OpenFile(path, under)

(* load_path_into: the next profile file; one that is not there, or not to *)
(* be read, is passed over.                                                *)
NextPath ==
    /\ stack = <<>> /\ todo # <<>>
    /\ todo' = Tail(todo)
    /\ \/ /\ Head(todo) \in DOMAIN layout.files
          /\ text' = [text EXCEPT !.path = Head(todo), !.headed = FALSE, !.whole.ctx = NewContext]
          /\ OpenFile(Head(todo), stack)
       \/ /\ Head(todo) \notin DOMAIN layout.files
          /\ UNCHANGED <<text, stack, result>>
    /\ UNCHANGED <<layout, conf>>

(* Mutant of Followed: the heading to go back to is not kept. *)
FollowedNever(frame, l) ==
    CASE l.t \in {"open", "brace"} -> [frame EXCEPT !.depth = @ + 1]
      [] l.t = "close" -> [frame EXCEPT !.depth = IF @ = 0 THEN 0 ELSE @ - 1]
      [] OTHER -> frame

(* resolve_includes' own count of groups, and the heading it goes back to. *)
Followed(frame, l) ==
    CASE l.t = "head" /\ frame.depth = 0 -> [frame EXCEPT !.heading = l]
      [] l.t \in {"open", "brace"} -> [frame EXCEPT !.depth = @ + 1]
      [] l.t = "close" -> [frame EXCEPT !.depth = IF @ = 0 THEN 0 ELSE @ - 1]
      [] OTHER -> frame

(* A tag above the first heading of its file is joined only in the whole   *)
(* text, and then needs its brace.                                         *)
LeftTag(rest) == rest[1].t = "tag" /\ text.headed /\ (Len(rest) = 1 \/ rest[2].t # "brace")

Read(frame, s) ==
    /\ conf' = s.conf
    /\ stack' = SetTop([frame EXCEPT !.ctx = s.ctx, !.rest = Tail(@)])

Line ==
    /\ stack # <<>> /\ Top.kind = "file" /\ Top.rest # <<>>
    /\ Head(Top.rest).t \notin {"include", "includedir"}
    /\ IF Head(Top.rest).t = "indented" /\ Top.ctx.section # ""
       THEN result' = "syntax" /\ UNCHANGED <<conf, stack>>
       ELSE /\ Read(Followed(Top, Head(Top.rest)),
                    ParseLine([conf |-> conf, ctx |-> Top.ctx], Head(Top.rest)))
            /\ UNCHANGED result
    /\ text' = [Emit(Head(Top.rest)) EXCEPT !.ok = @ /\ ~ LeftTag(Top.rest)]
    /\ UNCHANGED <<layout, todo>>

(* Whether the other reader takes the include: not inside a group. *)
Included == [Emit(Heading("")) EXCEPT !.ok = @ /\ Top.depth = 0]

Include ==
    /\ stack # <<>> /\ Top.kind = "file" /\ Top.rest # <<>>
    /\ \/ Head(Top.rest).t = "include" /\ Enter(Head(Top.rest).name,
                                                SetTop([Top EXCEPT !.rest = Tail(@)]))
       \/ /\ Head(Top.rest).t = "includedir"
          /\ IF Head(Top.rest).name \in DOMAIN layout.dirs
             THEN /\ stack' = Append(SetTop([Top EXCEPT !.rest = Tail(@)]),
                                     Dir(Head(Top.rest).name))
                  /\ UNCHANGED result
             ELSE result' = "nodir" /\ UNCHANGED stack
    /\ text' = Included
    /\ UNCHANGED <<layout, todo, conf>>

(* load_dir_into and include_dir_text: the files in the order of names. *)
NextOfDir ==
    /\ stack # <<>> /\ Top.kind = "dir" /\ Top.rest # <<>>
    /\ \/ /\ Head(Top.rest) \in DOMAIN layout.files
          /\ Enter(Head(Top.rest), SetTop([Top EXCEPT !.rest = Tail(@)]))
          /\ text' = Emit(Heading(""))
       \/ /\ Head(Top.rest) \notin DOMAIN layout.files
          /\ stack' = SetTop([Top EXCEPT !.rest = Tail(@)])
          /\ UNCHANGED <<text, result>>
    /\ UNCHANGED <<layout, todo, conf>>

(* The text goes on below the heading the include stood under. *)
Under == stack[Len(stack) - 1]

Close ==
    /\ stack # <<>> /\ Top.rest = <<>>
    /\ stack' = Front(stack)
    /\ text' = IF Len(stack) > 1 /\ Under.kind = "file" THEN Emit(Under.heading) ELSE text
    /\ UNCHANGED <<layout, todo, conf, result>>

(* load_krb5_conf_paths: what the context refuses is refused at the end. *)
Finish ==
    /\ stack = <<>> /\ todo = <<>>
    /\ result' =
          IF text.path = "" THEN (IF layout.denied = {} THEN "none" ELSE "denied")
               ELSE IF conf.refused # {} THEN "refused" ELSE "ok"
    /\ UNCHANGED <<layout, todo, stack, conf, text>>

Init ==
    /\ layout \in Layouts
    /\ todo = Tops
    /\ stack = <<>>
    /\ conf = NoConf
    /\ text = NoText
    /\ result = "reading"

Next == result = "reading" /\ (NextPath \/ Line \/ Include \/ NextOfDir \/ Close \/ Finish)

Spec == Init /\ [][Next]_vars

-----------------------------------------------------------------------------
(* Plugins of kdc.conf and then of krb5.conf (followed_by, merge_iface).   *)
Values(node, name) ==
    LET hits == SelectSeq(node.relations, LAMBDA r : r.name = name)
    IN  [i \in DOMAIN hits |-> hits[i].value]

LaterRelations(dest, later) ==
    SelectSeq(later.relations, LAMBDA r : ~ Closes(dest, r.name))

MergeIface(dest, later) ==
    IF dest.final THEN dest
    ELSE [final |-> later.final, relations |-> dest.relations \o LaterRelations(dest, later)]

(* Mutant of FollowedBy: the section's "*" is not looked at. *)
FollowedByAll(tree, later) ==
    [final |-> later.final,
     nodes |-> [n \in DOMAIN tree.nodes \cup DOMAIN later.nodes |->
                   MergeIface(Node(tree, n), Node(later, n))]]

FollowedBy(tree, later) ==
    IF tree.final THEN tree
    ELSE [final |-> later.final,
          nodes |-> [n \in DOMAIN tree.nodes \cup DOMAIN later.nodes |->
                        MergeIface(Node(tree, n), Node(later, n))]]

(* filter_plugin_modules: what is disabled goes, what is enabled is taken  *)
(* in the order of the relation.                                           *)
Filter(node, modules) ==
    LET left == SelectSeq(modules, LAMBDA m : m \notin ToSet(Values(node, "disable")))
    IN  IF Values(node, "enable_only") = <<>> THEN left
        ELSE FoldLeft(LAMBDA kept, m : IF m \in ToSet(left) \ ToSet(kept)
                                       THEN Append(kept, m) ELSE kept,
                      <<>>, Values(node, "enable_only"))

Selected(tree) == [i \in DOMAIN Modules |-> Filter(Node(tree, i), Modules[i])]

(* OtpProfile: kdc.conf first; a final node, section or relation is the    *)
(* last that is looked at.                                                 *)
OtpStops(tree, ty, name) == tree.final \/ Node(tree, ty).final \/ Closes(Node(tree, ty), name)

OtpValues(tree, later, ty, name) ==
    Values(Node(tree, ty), name) \o
    (IF OtpStops(tree, ty, name) THEN <<>> ELSE Values(Node(later, ty), name))

OtpNames(tree, later) ==
    DOMAIN tree.nodes \cup
    (IF tree.final \/ \E n \in DOMAIN tree.nodes : tree.nodes[n].final THEN {}
     ELSE DOMAIN later.nodes)

(* token_types_decode: the built-in type unless one has its name. *)
OtpTypes(tree, later) == OtpNames(tree, later) \cup {"DEFAULT"}

-----------------------------------------------------------------------------
(* Where an include stands under a final heading, or after a group closed  *)
(* by "}*", going back to the heading is not going back to where the       *)
(* reader was.                                                             *)
Plain ==
    \A p \in DOMAIN layout.files : \A i \in DOMAIN layout.files[p] :
        layout.files[p][i].t \in {"include", "includedir"} =>
            \A j \in 1 .. i - 1 : layout.files[p][j].t \in {"head", "close"} =>
                                      ~ layout.files[p][j].star

(* stanza_of knows no heading with a "*": below [realms] the groups of the *)
(* section are taken for other realms'.                                    *)
StarsSeen ==
    \A p \in DOMAIN layout.files : \A i \in DOMAIN layout.files[p] :
        (layout.files[p][i].t = "head" /\ layout.files[p][i].star) =>
            \A j \in 1 .. i - 1 : layout.files[p][j].t = "head" =>
                                      layout.files[p][j].name # "realms"

(* ReadersAgree: following the includes where they stand gives what        *)
(* reading the text with the included files in place gives; and for every  *)
(* realm the paths that the start-up takes from kdc.conf are the ones that *)
(* the realm's configuration holds, whatever the other realms' groups and  *)
(* the included files say (parse_into, resolve_includes, parse_for_realm,  *)
(* RealmPaths::stanza).                                                    *)
SamePaths(k, paths) ==
    \A n \in RealmKeys : Given(k.last, <<"realms", n>>, "") = Given(paths, <<"realms", n>>, "")

ReadersAgree ==
    (result \in {"ok", "refused"} /\ text.ok) =>
        /\ Plain => conf = text.whole.conf
        /\ \A r \in Realms : SamePaths(text.kdc[r].conf, text.kdc[r].paths.out)

(* FinalHolds: the modules that kdc.conf and krb5.conf select together are *)
(* the same whether the two files are read one after the other or each by  *)
(* itself and then merged; and nothing krb5.conf says reaches a one-time   *)
(* password type that kdc.conf made final (followed_by, values).           *)
FinalOtp(tree, later) ==
    \A ty \in OtpTypes(tree, later) :
        Node(tree, ty).final =>
            OtpValues(tree, later, ty, "indicator") = Values(Node(conf.otp, ty), "indicator")

Together(k) ==
    /\ Selected(conf.plugins) = Selected(FollowedBy(k.plugins.tree, text.alone.conf.plugins))
    /\ FinalOtp(k.otp.tree, text.alone.conf.otp)

FinalHolds ==
    (result = "ok" /\ text.ok /\ Plain /\ StarsSeen) =>
        \A r \in Realms : Together(text.kdc[r].conf)

(* FinalIsRead: the same wherever the final section stands in kdc.conf.    *)
(* It does not hold: stanza_of drops the groups of a "[plugins]*" or       *)
(* "[otp]*" that comes after [realms], and the section is final all the    *)
(* same, so krb5.conf's is not read either.                                *)
FinalIsRead ==
    (result = "ok" /\ text.ok /\ Plain) => \A r \in Realms : Together(text.kdc[r].conf)
=============================================================================
