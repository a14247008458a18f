--------------------------- MODULE MCCurveDelivery --------------------------
(* Scenes of two or three curves for TLC, in documents that differ in order,  *)
(* in identities and in points.                                             *)
EXTENDS CurveDelivery

Curve(key, strand, at) ==
  [key |-> key, strand |-> strand, positions |-> at, widths |-> [i \in DOMAIN at |-> 2 * strand]]

A(d) == Curve(1, 1, <<0 + d, 6 + d>>)
B(d) == Curve(2, 2, <<12 + d, 18 + d, 12 + d>>)
C(d) == Curve(3, 3, <<24 + d, 36 + d>>)
Twin(d) == Curve(1, 3, <<24 + d, 36 + d>>)

MCDocuments ==
  { <<A(0), B(0), C(0)>>, <<C(6), A(6), B(6)>>,        \* moved and in another order
    <<A(0), B(0), Twin(0)>>, <<Twin(6), A(6), B(6)>>,   \* not to be told apart
    <<A(0), B(0)>>, <<B(6), Curve(1, 1, <<6, 6, 6>>)>>,  \* another number of points and, next,
    <<Curve(5, 2, <<0, 6, 0>>), Curve(6, 1, <<6, 6>>), Curve(4, 3, <<0, 0>>)>>,  \* other identities
    <<A(0), Curve(2, 2, <<0, NotFinite, 0>>)>>, <<>> }

MCOptions ==
  LET Of(l, r, t) == [limit |-> l, resample |-> r, scale |-> 1, transform |-> t]
  IN {Of(1, 0, 6), Of(2, 3, 0), Of(15, 0, 0), Of(0, 0, 0), Of(2, 1, 0)}

=============================================================================
