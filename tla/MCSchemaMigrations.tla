---- MODULE MCSchemaMigrations ----
(* A small instance of SchemaMigrations: two dimensions.                 *)
EXTENDS SchemaMigrations

MCDimensions == {384, 768}
====
