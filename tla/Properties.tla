----------------------------- MODULE Properties ----------------------------
(***************************************************************************)
(* internal/mirror, properties.go and views.go: the columns that a page's  *)
(* properties become, and the columns of the view a query reads them by.   *)
(*                                                                         *)
(* A name is the sequence of its parts between colons, so that             *)
(* <<"date", "Due", "start">> is what "date:Due:start" is.  A property's   *)
(* value has a type, of that type the strings it holds (of), and, if it is *)
(* computed, the type of the result (inner) and the items of an array.     *)
(***************************************************************************)
EXTENDS Naturals, Sequences

FixedColumns ==
    {<<"id">>, <<"url">>, <<"title">>, <<"icon">>, <<"created_time">>,
     <<"last_edited_time">>, <<"content_markdown">>, <<"parent_id">>}

CONSTANT Timed  \* the dates with a time of day

-----------------------------------------------------------------------------
(* Names. *)

\* Property names that are id or url, in any case.
Reserved ==
    {<<"id">>, <<"Id">>, <<"iD">>, <<"ID">>, <<"url">>, <<"urL">>, <<"uRl">>, <<"uRL">>,
     <<"Url">>, <<"UrL">>, <<"URl">>, <<"URL">>}

ColumnName(name) == IF name \in Reserved THEN <<"userDefined">> \o name ELSE name

DateColumn(name, part) == <<"date">> \o name \o <<part>>
DateColumns(name) == {DateColumn(name, part) : part \in {"start", "end", "is_datetime"}}

ColumnsOf(name, type) == IF type = "date" THEN DateColumns(name) ELSE {ColumnName(name)}

SchemaColumns(schema) == UNION {ColumnsOf(name, schema[name]) : name \in DOMAIN schema}

\* Plausible bug: the row's own column comes first.
FixedOfAll(schema) == FixedColumns

\* ViewSQL: a property takes the name of a column of the row's own.
FixedOf(schema) == FixedColumns \ SchemaColumns(schema)

-----------------------------------------------------------------------------
(* Values. *)

Cell(kind, of) == [kind |-> kind, of |-> of]
Null == Cell("null", <<>>)
OrNull(kind, of) == IF of = <<>> THEN Null ELSE Cell(kind, of)
Flag(of) == Cell("text", <<IF of = <<"true">> THEN "__YES__" ELSE "__NO__">>)

\* scalarOfTyped: of a date only the start.
Scalar(v) ==
    CASE v.of = <<>> -> Null
      [] v.inner = "number" -> Cell("number", v.of)
      [] v.inner = "string" -> Cell("text", v.of)
      [] v.inner = "boolean" -> Flag(v.of)
      [] v.inner = "date" -> Cell("text", <<Head(v.of)>>)
      [] OTHER -> Null

\* rollupValue: a scalar, or a JSON array of scalars.
Rollup(v) ==
    IF v.inner # "array" THEN Scalar(v)
    ELSE Cell("list", [n \in DOMAIN v.items |->
                         LET c == Scalar(v.items[n]) IN IF c = Null THEN "null" ELSE Head(c.of)])

DateCells(name, of) ==
    [c \in DateColumns(name) |->
       CASE of = <<>> -> Null
         [] c = DateColumn(name, "start") -> Cell("text", <<of[1]>>)
         [] c = DateColumn(name, "is_datetime") ->
               Cell("number", <<IF of[1] \in Timed THEN "1" ELSE "0">>)
         [] OTHER -> OrNull("text", Tail(of))]

\* flattenOne, of all types but date.
CellOf(v) ==
    CASE v.type \in {"title", "rich_text", "verification"} -> Cell("text", v.of)
      [] v.type = "number" -> OrNull("number", v.of)
      [] v.type \in {"select", "status", "url", "email", "phone_number",
                     "created_time", "last_edited_time"} -> OrNull("text", v.of)
      [] v.type \in {"multi_select", "people", "relation", "files"} -> Cell("list", v.of)
      [] v.type \in {"created_by", "last_edited_by"} ->
            IF v.of = <<>> THEN Cell("text", <<"null">>) ELSE Cell("list", v.of)
      [] v.type = "checkbox" -> Flag(v.of)
      [] v.type = "unique_id" -> OrNull(IF Len(v.of) = 2 THEN "text" ELSE "number", v.of)
      [] v.type = "formula" -> Scalar(v)
      [] v.type = "rollup" -> Rollup(v)
      [] OTHER -> Cell("raw", v.of)

FlattenOne(name, v) ==
    IF v.type = "date" THEN DateCells(name, v.of) ELSE [c \in {ColumnName(name)} |-> CellOf(v)]

(***************************************************************************)
(* FlattenProperties.  Two properties that come to the same column break   *)
(* the table's primary key.                                                *)
(***************************************************************************)
Storable(props) ==
    \A m, n \in DOMAIN props :
       DOMAIN FlattenOne(m, props[m]) \cap DOMAIN FlattenOne(n, props[n]) # {} => m = n

Flatten(props) ==
    LET Owner(c) == CHOOSE name \in DOMAIN props : c \in DOMAIN FlattenOne(name, props[name])
    IN [c \in UNION {DOMAIN FlattenOne(name, props[name]) : name \in DOMAIN props} |->
          FlattenOne(Owner(c), props[Owner(c)])[c]]

\* The edges of the relation graph.
RelationsOf(props) ==
    UNION {{<<name, props[name].of[n]>> : n \in DOMAIN props[name].of} :
           name \in {m \in DOMAIN props : props[m].type = "relation"}}
=============================================================================
