--------------------------- MODULE CameraGetters ----------------------------
(***************************************************************************)
(* The getters of VClient that are about cameras: what they are, where     *)
(* they are and what they saw.                                             *)
(***************************************************************************)
EXTENDS LatestFrame

AdaptCameraName(k) ==
    Append(IF k.m_Name = <<>> THEN k.m_DisplayType ELSE k.m_Name, k.m_CameraID)

\* GetCamera; by itself it does not ask for a connection or a frame.
WithCamera(camera, Then(_)) ==
    WithFirst(m_LatestFrame.m_Cameras, LAMBDA k : AdaptCameraName(k) = camera, Then,
              Refuse("InvalidCameraName"))

\* The first object of a camera.
WithObjectOfCamera(objects, k, Then(_), otherwise) ==
    WithFirst(objects, LAMBDA o : o.m_CameraID = k.m_CameraID, Then, otherwise)

---------------------------------------------------------------------------

GetCameraCount == WithFrame(Answer(Len(m_LatestFrame.m_Cameras)))

GetDynamicCameraCount == WithFrame(Answer(Len(m_LatestFrame.m_DynamicCameraCalibrationInfo)))

GetCameraName(i) ==
    WithFrame(WithIndex(m_LatestFrame.m_Cameras, i, LAMBDA k : Answer(AdaptCameraName(k))))

\* Dynamic cameras are known by their calibrations.
GetDynamicCameraName(i) ==
    WithFrame(WithIndex(m_LatestFrame.m_DynamicCameraCalibrationInfo, i, LAMBDA o :
        WithObjectOfCamera(m_LatestFrame.m_Cameras, o, LAMBDA k : Answer(AdaptCameraName(k)),
                           Refuse("InvalidIndex"))))

\* These four ask neither for a connection nor for a frame.
GetCameraID(camera) == WithCamera(camera, LAMBDA k : Answer(k.m_CameraID))

GetCameraUserID(camera) == WithCamera(camera, LAMBDA k : Answer(k.m_UserID))

GetCameraType(camera) == WithCamera(camera, LAMBDA k : Answer(k.m_DisplayType))

GetCameraDisplayName(camera) == WithCamera(camera, LAMBDA k : Answer(k.m_Name))

GetCameraResolution(camera) == WithFrame(WithCamera(camera, LAMBDA k : Answer(k.m_Resolution)))

GetIsVideoCamera(camera) == WithFrame(WithCamera(camera, LAMBDA k : Answer(k.m_bIsVideoCamera)))

\* GetCameraSensorInfo.
WithSensor(camera, Then(_)) ==
    WithFrame(WithCamera(camera, LAMBDA k :
        WithObjectOfCamera(m_LatestFrame.m_CamerasSensorInfo, k, Then, Refuse("NotPresent"))))

GetCameraSensorMode(camera) == WithSensor(camera, LAMBDA o : Answer(o.m_SensorMode))

GetCameraWindowSize(camera) == WithSensor(camera, LAMBDA o : Answer(o.m_Window))

---------------------------------------------------------------------------
(* Calibration.                                                            *)

\* Mutant: static calibrations only.
CalibrationsStatic == m_LatestFrame.m_CameraCalibrations

\* A static camera's calibration is found before a dynamic one's.
Calibrations ==
    m_LatestFrame.m_CameraCalibrations \o m_LatestFrame.m_DynamicCameraCalibrationInfo

\* GetCameraCalibrationInfo.
WithCalibration(camera, Then(_)) ==
    WithFrame(WithCamera(camera, LAMBDA k :
        WithObjectOfCamera(Calibrations, k, Then, Refuse("NotPresent"))))

GetCameraGlobalTranslation(camera) ==
    WithCalibration(camera, LAMBDA o : Answer(OutT(o.m_PoseTranslation)))

GetCameraGlobalRotationMatrix(camera) ==
    WithCalibration(camera, LAMBDA o : Answer(OutR(o.m_PoseRotation)))

GetCameraGlobalRotationHelical(camera) ==
    InForm(MatrixToHelical, GetCameraGlobalRotationMatrix(camera))

GetCameraGlobalRotationQuaternion(camera) ==
    InForm(MatrixToQuaternion, GetCameraGlobalRotationMatrix(camera))

GetCameraGlobalRotationEulerXYZ(camera) ==
    InForm(MatrixToEulerXYZ, GetCameraGlobalRotationMatrix(camera))

\* Image coordinates are not transformed.
GetCameraPrincipalPoint(camera) == WithCalibration(camera, LAMBDA o : Answer(o.m_PrincipalPoint))

GetCameraFocalLength(camera) == WithCalibration(camera, LAMBDA o : Answer(o.m_FocalLength))

GetCameraLensParameters(camera) ==
    WithCalibration(camera, LAMBDA o : Answer(o.m_RadialDistortion))

---------------------------------------------------------------------------
(* What a camera saw. GetCentroidSet, GetCentroidWeightSet,                *)
(* GetGreyscaleBlobs and GetVideoFrame look for the first of its objects.  *)

WithSet(sets, camera, Then(_)) ==
    WithFrame(WithCamera(camera, LAMBDA k :
        WithObjectOfCamera(sets, k, Then, Refuse("InvalidIndex"))))

GetCentroidCount(camera) ==
    WithSet(m_LatestFrame.m_Centroids, camera, LAMBDA o : Answer(Len(o.m_Centroids)))

GetCentroidPosition(camera, i) ==
    WithSet(m_LatestFrame.m_Centroids, camera, LAMBDA o : WithIndex(o.m_Centroids, i, Answer))

\* A camera without weights, or with fewer than centroids, has no weight there.
GetCentroidWeight(camera, i) ==
    WithSet(m_LatestFrame.m_CentroidWeights, camera, LAMBDA o : WithIndex(o.m_Weights, i, Answer))

\* The blobs of a camera may be either in the subsampled or in the full sets.
Blobs == m_LatestFrame.m_GreyscaleSubsampledBlobs \o m_LatestFrame.m_GreyscaleBlobs

GetGreyscaleBlobCount(camera) ==
    WithSet(Blobs, camera, LAMBDA o : Answer(Len(o.m_GreyscaleBlobs)))

GetGreyscaleBlobSubsampleInfo(camera) ==
    WithSet(Blobs, camera, LAMBDA o : Answer(o.m_Subsampling))

GetGreyscaleBlob(camera, i) ==
    WithSet(Blobs, camera, LAMBDA o : WithIndex(o.m_GreyscaleBlobs, i, Answer))

GetVideoFrame(camera) == WithSet(m_LatestFrame.m_VideoFrames, camera, Answer)
=============================================================================
