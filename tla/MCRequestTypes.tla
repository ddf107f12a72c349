--------------------------- MODULE MCRequestTypes ---------------------------
(* RequestTypes with the groups that share types, one that does not, and   *)
(* servers that know a type more than VClient, lack subject scales or      *)
(* lightweight segments, or do not say what they support.                  *)
EXTENDS RequestTypes

MCGroups == {"Segment", "LightweightSegment", "Marker", "Centroid", "Video", "CameraCalibration"}

Newest == Defaults \cup Configurable \cup {"CentroidTracks"}

MCServers == {Newest, Newest \ {"SubjectScale"}, Newest \ {"LightweightSegments"}, {}}

OneServer == {Newest}
=============================================================================
